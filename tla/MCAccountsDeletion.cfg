SPECIFICATION AccountsSpec
CONSTANTS
  u1 = u1
  u2 = u2
  u3 = u3
  Nobody = Nobody
  None = None
  Users <- MCUsers
  Keys <- MCKeys
  Amounts <- MCAmounts
  Requests = {r1, r2}
  Installs = {"i1", "i2", "i3"}
  Names = {"a", "b"}
  EmailOf <- MCEmailOf
  IpLimited = {}
  ClaimInputs <- NoClaims
  RenameInputs <- ManagedRenames
  Managed = {u3}
  OtherPosts <- MCGrants
  SignupBonus = 3
  InviteeCredits = 2
  InviterCredits = 1
  ReferralCapCount = 1
INVARIANTS
  DeletedIsEmpty
CHECK_DEADLOCK FALSE
