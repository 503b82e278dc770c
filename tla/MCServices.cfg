SPECIFICATION MCSpec
CONSTANTS
  u1 = u1
  u2 = u2
  j1 = j1
  r1 = r1
  r2 = r2
  n1 = n1
  n2 = n2
  None = None
  Nobody = Nobody
  Users <- MCUsers
  Keys <- MCKeys
  Amounts <- MCAmounts
  Jobs = {j1}
  Owner <- MCOwner
  PricesOf <- FixedPrice
  Grant = 3
  Uploads = {r1, r2}
  Faults = {"cut", "stall"}
  MaxStalls = 1
INVARIANTS
  NoFreeResult
  FailedIsRefunded
  PaidJobHasAudio
PROPERTIES
  EscrowSpec
  ChargesSettle
  AudioGoes
  ReuseEndsSession
  PaidIsShown
  WindowsEnd
