SPECIFICATION MCSpec
CONSTANTS
  u1 = u1
  u2 = u2
  r1 = r1
  r2 = r2
  grant = grant
  charge = charge
  debit = debit
  Nobody = Nobody
  None = None
  Open = Open
  Users <- MCUsers
  Keys <- MCKeys
  Amounts <- MCAmounts
  Requests = {r1, r2}
  Inputs <- MCInputs
  Rules <- MCRules
  Managers = {r1, r2}
  Durations <- MCDurations
  TicksPerMs = 4
  MsPerSecond = 2
  MaxVersion = 3
  Kinds = {"deepgram", "groq"}
  Editors = {r1, r2}
  Callers = {u1}
  MaxChanges = 2
  Readers = {u1, r1}
  MaxUpdates = 3
INVARIANTS
  TypeOK
  RunningBalance
  AnswersAreTrue
  NoRing
  OneActive
  PricesAreRight
PROPERTIES
  BookSpec
  EveryCallEnds
  JobsStayPriced
  CopiesCatchUp
