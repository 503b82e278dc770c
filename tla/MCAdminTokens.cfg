SPECIFICATION AdminSpec
CONSTANTS
  Families = {f}
  AdminTokenIds = {t1, t2}
  Clients = {c1, c2}
  MaxAttempts = 1
  MaxFailures = 0
  None = None
INVARIANTS
  EndedLineagesAreDead
CHECK_DEADLOCK FALSE
