SPECIFICATION ProvidersSpec
CONSTANTS
  Kinds = {a, b}
  Editors = {e}
  Callers = {j}
  MaxChanges = 3
  None = None
INVARIANTS
  NextJobSeesChange
CHECK_DEADLOCK FALSE
