SPECIFICATION CaptionSpec
CONSTANTS
  u1 = u1
  j1 = j1
  r1 = r1
  r2 = r2
  Users <- MCUsers
  Keys <- MCKeys
  Amounts <- MCAmounts
  Jobs = {j1}
  Owner <- MCOwner
  PricesOf <- FixedPrice
  Grant = 3
  Uploads = {r1}
  Faults = {"stall"}
  MaxStalls = 2
INVARIANTS
  FailedIsRefunded
