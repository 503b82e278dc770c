SPECIFICATION MCSpec
CONSTANTS
  None = None
  Users = {u1}
  Sessions = {s1}
  Tokens = {t1, t2, t3}
  Requests = {r1, r2, r3}
  Families = {f}
  AdminTokenIds = {t, u}
  Clients = {c, d}
  MaxAttempts = 2
  MaxFailures = 5
  LastDevice = 3
  PushTokens = {p, q, r}
  BatchSize = 2
SYMMETRY Symmetric
INVARIANTS
  OneHeir
  LateTokensAreBarren
  LoginBudget
  ReachedOnce
PROPERTIES
  KeysSpec
CHECK_DEADLOCK FALSE
