SPECIFICATION MCSpec
CONSTANTS
  u1 = u1
  u2 = u2
  n1 = n1
  n2 = n2
  r1 = r1
  r2 = r2
  j1 = j1
  Nobody = Nobody
  None = None
  MaxCuts = 1
  DailyRewardEnabled = TRUE
  Users <- OneUser
  Keys <- MCKeys
  Amounts <- MCAmounts
  OwnerOf <- Owners
  Nonces <- OneSession
  Callbacks <- TwoAds
  Requests = {r1, r2}
  AdDailyCap = 1
  AdCredits = 2
  ClaimCredits = 1
  ClaimTicks = 1
  DayTicks = 1
  MaxClock = 2
  Intervals = {1, 2}
  DayLength = 2
  Slack = 1
  Deleters = {r1, r2}
  MaxTime = 4
  MaxStored = 2
  Jobs = {j1}
  Owner <- JobOwner
  PricesOf <- TwoPrices
  Grant = 3
  Uploads = {r1, r2}
  Faults = {"cut", "stall", "lostReply", "db", "rm"}
  MaxStalls = 1
SYMMETRY Symmetric
INVARIANTS
  CapHolds
  ShownIsPaid
  ClaimsAreSpaced
  AutosAreSpaced
  NewestStays
  RefundsAreBacked
