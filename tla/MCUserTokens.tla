---------------------------- MODULE MCUserTokens ----------------------------
(***************************************************************************)
(* Small instances of UserTokens (one user, one session, and requests that *)
(* refresh, log out and delete at once), of AdminTokens and of Push.  They *)
(* share no row and no key: one run explores the three, each behaviour     *)
(* being of one of them.                                                   *)
(***************************************************************************)
EXTENDS UserTokens, AdminTokens, Push, TLC

VARIABLE part

MCInit ==
  /\ part \in {"users", "admins", "push"}
  /\ Init /\ AdminInit
  \* The installs of other parts have no tokens.
  /\ PushInit /\ (part # "push" => WithToken = {})

UsersPart == part = "users" /\ Next /\ UNCHANGED <<part, adminVars, pushVars>>
AdminsPart == part = "admins" /\ AdminNext /\ UNCHANGED <<part, vars, pushVars>>
PushPart == part = "push" /\ PushNext /\ UNCHANGED <<part, vars, adminVars>>

MCNext == UsersPart \/ AdminsPart \/ PushPart

MCSpec == MCInit /\ [][MCNext]_<<part, vars, adminVars, pushVars>>

Symmetric == Permutations(Requests) \union Permutations(Tokens)
=============================================================================
