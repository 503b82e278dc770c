---------------------------- MODULE AccountsProofs ----------------------------
(***************************************************************************)
(* Proofs about Accounts for any accounts, installs, names, requests and   *)
(* settings.  A request is known by its step: Own says what its variables  *)
(* hold there, Held what the rows and keys it holds keep true until its    *)
(* commit, whatever the other requests do meanwhile.  Settled adds what    *)
(* the refinement of Enrolment needs.  Codes, which shares no variable     *)
(* with Accounts, comes last.                                              *)
(***************************************************************************)
EXTENDS Accounts, Codes, FiniteSetTheorems, TLAPS

\* The steps of a claim's transaction, those after its UPDATE of the username,
\* and all steps of a claim that have its body.
ClaimTx == {"takeName", "takeEmail", "takeInstall", "lockInviter", "count", "commit"}
HasName == {"takeEmail", "takeInstall", "lockInviter", "count", "commit"}
ClaimSteps == {"readUser", "findInviter", "eligibility", "setName", "whose"} \union ClaimTx
Steps == ClaimSteps \union {"checkName", "renameRow", "rename", "readAccount", "forfeit", "erase"}

Locals ==
  [user : Users \union {None}, install : Installs \union {None}, name : Names \union {None},
   inviter : Users \union {None}, bonus : {"granted", "IP_LIMIT_REACHED", "BONUS_ALREADY_CLAIMED"},
   outcome : {"rewarded", "inviter_capped", "invitee_ineligible"},
   email : BOOLEAN, again : BOOLEAN, seen : Nat]

Typed ==
  /\ AccountsTypeOK
  /\ pc \in [Requests -> Steps \union Replies]
  /\ req \in [Requests -> Locals]
  /\ bonusVia \in [Users -> Installs \union {None}]

\* What a request's own variables hold at its step.
Own(r) ==
  /\ pc[r] \in Steps \union {"claimed"} => req[r].user \in Users
  /\ pc[r] \in ClaimSteps => req[r].install \in Installs /\ req[r].name \in Names
  /\ pc[r] \in {"checkName", "renameRow", "rename"} => req[r].name \in Names
  /\ pc[r] = "checkName" => req[r].install \in Installs \/ req[r].inviter = None
  /\ pc[r] \in {"eligibility", "setName", "whose"} \union ClaimTx => req[r].inviter # req[r].user
  /\ pc[r] \in {"takeEmail", "takeInstall", "lockInviter", "count"} => req[r].bonus = "granted"
  /\ pc[r] \in {"lockInviter", "count"} => req[r].inviter # None
  /\ pc[r] \in Steps \ {"commit"} => req[r].outcome = "invitee_ineligible"
  /\ pc[r] = "commit" /\ req[r].outcome # "invitee_ineligible" => req[r].inviter # None

\* What a claim's transaction has checked stays true while it holds what it locked.
Held(r) ==
  LET u == req[r].user IN
  /\ pc[r] \in ClaimTx => rowOwner[u] = r /\ ~claimed[u]
  /\ pc[r] \in HasName =>
       keyOwner[NameKey(req[r].name)] = r /\ \A v \in Users \ {u} : username[v] # req[r].name
  /\ pc[r] \in {"takeInstall", "lockInviter", "count", "commit"} /\ req[r].bonus = "granted" /\ req[r].email =>
       keyOwner[EmailKey(u)] = r /\ EmailKey(u) \notin bonusClaims
  /\ pc[r] \in {"lockInviter", "count", "commit"} /\ req[r].bonus = "granted" =>
       keyOwner[InstallKey(req[r].install)] = r /\ InstallKey(req[r].install) \notin bonusClaims
  /\ pc[r] = "count" \/ (pc[r] = "commit" /\ req[r].outcome # "invitee_ineligible") => rowOwner[req[r].inviter] = r
  /\ pc[r] = "commit" /\ req[r].outcome = "rewarded" =>
       Cardinality(RewardedBy(req[r].inviter)) < ReferralCapCount
  /\ ~req[r].email /\ pc[r] \in Steps => status[u] = "deleted"
  /\ pc[r] = "erase" /\ req[r].seen > 0 => rowOwner[u] = r /\ balance[u] >= req[r].seen

\* Nothing has been given to an account that has not claimed.
Unclaimed(u) ==
  ~claimed[u] =>
    /\ referral[u] = NoReferral /\ bonusVia[u] = None
    /\ \A e \in entries : e.key \notin {SignupKey(u), InviteeKey(u), InviterKey(u)}

IInv ==
  /\ Typed
  /\ \A r \in Requests : Own(r) /\ Held(r)
  /\ \A u \in Users : Unclaimed(u)

\* A bonus leaves both keys of the identity behind.
KeysKept ==
  \A u \in Users : bonusVia[u] # None =>
    InstallKey(bonusVia[u]) \in bonusClaims /\ EmailKey(u) \in bonusClaims

\* What a step of another request leaves to q.
Spares(q) ==
  /\ pc'[q] = pc[q] /\ req'[q] = req[q]
  /\ \A u \in Users : rowOwner[u] = q =>
       /\ rowOwner'[u] = q /\ (claimed'[u] => claimed[u])
       /\ (\A n \in Nat : balance[u] >= n => balance'[u] >= n) /\ RewardedBy(u)' = RewardedBy(u)
  /\ \A k \in UniqueKeys : keyOwner[k] = q => keyOwner'[k] = q /\ (k \in bonusClaims' => k \in bonusClaims)
  /\ \A n \in Names, v \in Users : keyOwner[NameKey(n)] = q /\ username'[v] = n => username[v] = n
  /\ \A u \in Users : status[u] = "deleted" => status'[u] = "deleted"

-----------------------------------------------------------------------------
(* Rows and keys *)

LEMMA KeysAreUnique ==
  /\ \A n \in Names : NameKey(n) \in UniqueKeys
  /\ \A u \in Users : EmailKey(u) \in UniqueKeys
  /\ \A i \in Installs : InstallKey(i) \in UniqueKeys
  BY DEF UniqueKeys

\* A request that goes on waits for nobody.
LEMMA NotBlocked ==
  ASSUME NEW r \in Requests, Blocker(r) = Nobody
  PROVE  /\ pc[r] = "setName" /\ ~claimed[req[r].user] => rowOwner[req[r].user] \in {Nobody, r}
         /\ pc[r] \in {"renameRow", "forfeit", "erase"} => rowOwner[req[r].user] \in {Nobody, r}
         /\ pc[r] \in {"takeName", "rename"} => keyOwner[NameKey(req[r].name)] \in {Nobody, r}
         /\ pc[r] = "takeEmail" => keyOwner[EmailKey(req[r].user)] \in {Nobody, r}
         /\ pc[r] = "takeInstall" => keyOwner[InstallKey(req[r].install)] \in {Nobody, r}
         /\ pc[r] = "lockInviter" => rowOwner[req[r].inviter] \in {Nobody, r}
         /\ pc[r] = "commit" /\ req[r].inviter # None => rowOwner[req[r].inviter] \in {Nobody, r}
<1> USE DEF Blocker
<1>1. pc[r] = "setName" /\ ~claimed[req[r].user] => rowOwner[req[r].user] \in {Nobody, r}
  OBVIOUS
<1>2. pc[r] \in {"renameRow", "forfeit", "erase"} => rowOwner[req[r].user] \in {Nobody, r}
  OBVIOUS
<1>3. \A k : KeyHolder(r, k) \in {Nobody, r} => keyOwner[k] \in {Nobody, r}
  BY DEF KeyHolder
<1>4. pc[r] \in {"takeName", "rename", "takeEmail", "takeInstall"} => keyOwner[NextKey(r)] \in {Nobody, r}
  BY <1>3
<1>5. pc[r] = "lockInviter" => rowOwner[req[r].inviter] \in {Nobody, r}
  OBVIOUS
<1>6. pc[r] = "commit" /\ req[r].inviter # None => rowOwner[req[r].inviter] \in {Nobody, r}
  OBVIOUS
<1> QED
  BY <1>1, <1>2, <1>4, <1>5, <1>6 DEF NextKey

\* How a statement of r changes what r holds.
Locks(r) ==
  \/ UNCHANGED lockVars
  \/ Unlock(r)
  \/ \E u \in Users : rowOwner[u] \in {Nobody, r} /\ HoldRow(r, u) /\ UNCHANGED keyOwner
  \/ \E k \in UniqueKeys : keyOwner[k] \in {Nobody, r} /\ HoldKey(r, k) /\ UNCHANGED rowOwner

\* A statement of r is r's alone, and what r holds is released with its transaction.
Moves(r) ==
  /\ pc' = [pc EXCEPT ![r] = pc'[r]] /\ req' = [req EXCEPT ![r] = req'[r]]
  /\ pc'[r] \in Steps \union Replies /\ req'[r] \in Locals
  /\ Locks(r)
  /\ pc'[r] \in InTransaction \/ Unlock(r) \/ (UNCHANGED lockVars /\ pc[r] \notin InTransaction)

LEMMA LocksStay ==
  ASSUME Typed, NEW r \in Requests, Locks(r), NEW q \in Requests, q # r
  PROVE  /\ \A u \in Users : rowOwner[u] = q <=> rowOwner'[u] = q
         /\ \A k \in UniqueKeys : keyOwner[k] = q <=> keyOwner'[k] = q
  BY AccountsAssumption DEF Locks, Unlock, HoldRow, HoldKey, lockVars, Typed, AccountsTypeOK

LEMMA LocksTyped ==
  ASSUME Typed, NEW r \in Requests, Moves(r)
  PROVE  /\ pc' \in [Requests -> Steps \union Replies] /\ req' \in [Requests -> Locals]
         /\ rowOwner' \in [Users -> Requests \union {Nobody}]
         /\ keyOwner' \in [UniqueKeys -> Requests \union {Nobody}]
         /\ \A u \in Users : rowOwner'[u] # Nobody => pc'[rowOwner'[u]] \in InTransaction
         /\ \A k \in UniqueKeys : keyOwner'[k] # Nobody => pc'[keyOwner'[k]] \in InTransaction
<1>1. pc' \in [Requests -> Steps \union Replies] /\ req' \in [Requests -> Locals]
  BY DEF Moves, Typed
<1>2. /\ rowOwner' \in [Users -> Requests \union {Nobody}]
      /\ keyOwner' \in [UniqueKeys -> Requests \union {Nobody}]
  BY DEF Moves, Locks, Unlock, HoldRow, HoldKey, lockVars, Typed, AccountsTypeOK
<1>3. ASSUME NEW q \in Requests, q # r PROVE pc'[q] = pc[q]
  BY <1>3 DEF Moves, Typed
<1>4. ASSUME pc'[r] \notin InTransaction
      PROVE  /\ \A u \in Users : rowOwner'[u] # r
             /\ \A k \in UniqueKeys : keyOwner'[k] # r
  BY <1>4, AccountsAssumption DEF Moves, Unlock, lockVars, Typed, AccountsTypeOK
<1>5. ASSUME NEW u \in Users, rowOwner'[u] # Nobody PROVE pc'[rowOwner'[u]] \in InTransaction
  <2>1. CASE rowOwner'[u] = r
    BY <1>4, <2>1
  <2>2. CASE rowOwner'[u] # r
    <3>1. rowOwner'[u] \in Requests
      BY <1>2, <1>5
    <3>2. rowOwner[u] = rowOwner'[u]
      BY <2>2, <3>1, LocksStay DEF Moves
    <3>3. pc[rowOwner[u]] \in InTransaction
      BY <1>5, <3>2 DEF Typed, AccountsTypeOK
    <3> QED
      BY <1>3, <2>2, <3>1, <3>2, <3>3
  <2> QED
    BY <2>1, <2>2
<1>6. ASSUME NEW k \in UniqueKeys, keyOwner'[k] # Nobody PROVE pc'[keyOwner'[k]] \in InTransaction
  <2>1. CASE keyOwner'[k] = r
    BY <1>4, <2>1
  <2>2. CASE keyOwner'[k] # r
    <3>1. keyOwner'[k] \in Requests
      BY <1>2, <1>6
    <3>2. keyOwner[k] = keyOwner'[k]
      BY <2>2, <3>1, LocksStay DEF Moves
    <3>3. pc[keyOwner[k]] \in InTransaction
      BY <1>6, <3>2 DEF Typed, AccountsTypeOK
    <3> QED
      BY <1>3, <2>2, <3>1, <3>2, <3>3
  <2> QED
    BY <2>1, <2>2
<1> QED
  BY <1>1, <1>2, <1>5, <1>6

\* A statement that writes no row keeps the variables typed and spares the others.
LEMMA QuietStep ==
  ASSUME Typed, NEW r \in Requests, Moves(r), UNCHANGED rowVars
  PROVE  Typed' /\ \A q \in Requests \ {r} : Spares(q)
<1>0. UNCHANGED <<status, balance, entries, username, claimed, bonusClaims, referral, bonusVia>>
  BY DEF rowVars, userVars, bookVars
<1>1. Typed'
  BY <1>0, LocksTyped DEF Typed, AccountsTypeOK
<1>2. ASSUME NEW q \in Requests \ {r} PROVE Spares(q)
  <2>1. pc'[q] = pc[q] /\ req'[q] = req[q]
    BY DEF Moves, Typed
  <2>2. \A u \in Users : RewardedBy(u)' = RewardedBy(u)
    BY <1>0 DEF RewardedBy
  <2>3. \A u \in Users, n \in Nat : balance[u] >= n => balance'[u] >= n
    BY <1>0
  <2> QED
    BY <1>0, <2>1, <2>2, <2>3, LocksStay DEF Spares, Moves
<1> QED
  BY <1>1, <1>2

\* A request that is spared keeps what it relies on.
LEMMA SparedHolds ==
  ASSUME Typed, NEW q \in Requests, Own(q), Held(q), Spares(q)
  PROVE  Own(q)' /\ Held(q)'
<1>1. Own(q)'
  BY DEF Own, Spares
<1>2. Held(q)'
  <2> SUFFICES ASSUME NEW u, u = req[q].user, NEW i, i = req[q].inviter, NEW n, n = req[q].name, pc[q] \in Steps
               PROVE  Held(q)'
    BY DEF Spares, Held, Steps, ClaimSteps, ClaimTx, HasName
  <2>1. u \in Users /\ pc'[q] = pc[q] /\ req'[q] = req[q]
    BY DEF Own, Spares
  <2>2. pc[q] \in ClaimTx => rowOwner'[u] = q /\ ~claimed'[u]
    BY <2>1 DEF Held, Spares
  <2>3. pc[q] \in HasName =>
          keyOwner'[NameKey(n)] = q /\ \A v \in Users \ {u} : username'[v] # n
    BY <2>1, KeysAreUnique DEF Own, Held, Spares, ClaimSteps, ClaimTx, HasName
  <2>4. pc[q] \in {"takeInstall", "lockInviter", "count", "commit"} /\ req[q].bonus = "granted" /\ req[q].email =>
          keyOwner'[EmailKey(u)] = q /\ EmailKey(u) \notin bonusClaims'
    BY <2>1, KeysAreUnique DEF Held, Spares
  <2>5. pc[q] \in {"lockInviter", "count", "commit"} /\ req[q].bonus = "granted" =>
          keyOwner'[InstallKey(req[q].install)] = q /\ InstallKey(req[q].install) \notin bonusClaims'
    BY <2>1, KeysAreUnique DEF Own, Held, Spares, ClaimSteps, ClaimTx
  <2>6. pc[q] = "count" \/ (pc[q] = "commit" /\ req[q].outcome # "invitee_ineligible") =>
          i \in Users /\ rowOwner[i] = q /\ rowOwner'[i] = q /\ RewardedBy(i)' = RewardedBy(i)
    BY <2>1 DEF Own, Held, Spares, Typed, Locals
  <2>7. pc[q] = "commit" /\ req[q].outcome = "rewarded" => Cardinality(RewardedBy(i)') < ReferralCapCount
    BY <2>6 DEF Held
  <2>8. ~req[q].email => status'[u] = "deleted"
    BY <2>1 DEF Held, Spares
  <2>9. pc[q] = "erase" /\ req[q].seen > 0 => rowOwner'[u] = q /\ balance'[u] >= req[q].seen
    BY <2>1 DEF Held, Spares, Typed, Locals
  <2> QED
    BY <2>1, <2>2, <2>3, <2>4, <2>5, <2>6, <2>7, <2>8, <2>9 DEF Held, RewardedBy
<1> QED
  BY <1>1, <1>2

-----------------------------------------------------------------------------
(* The statements that write no row *)

\* A request that has replied holds nothing.
LEMMA RepliedHolds ==
  ASSUME NEW r \in Requests, pc'[r] \in Replies \ {"claimed"}
  PROVE  Own(r)' /\ Held(r)'
  BY DEF Own, Held, Replies, Steps, ClaimSteps, ClaimTx, HasName

LEMMA MovesTo ==
  ASSUME Typed, NEW r \in Requests, NEW step \in Steps \union Replies, NEW x \in Locals,
         pc' = [pc EXCEPT ![r] = step], req' = [req EXCEPT ![r] = x], Locks(r),
         step \in InTransaction \/ Unlock(r) \/ (UNCHANGED lockVars /\ pc[r] \notin InTransaction)
  PROVE  Moves(r) /\ pc'[r] = step /\ req'[r] = x
  BY DEF Moves, Typed

\* Held in the next state of a step that writes no row and leaves r at step with x.
HoldsThen(r, step, x) ==
  /\ step \in ClaimTx => rowOwner'[x.user] = r /\ ~claimed[x.user]
  /\ step \in HasName =>
       keyOwner'[NameKey(x.name)] = r /\ \A v \in Users \ {x.user} : username[v] # x.name
  /\ step \in {"takeInstall", "lockInviter", "count", "commit"} /\ x.bonus = "granted" /\ x.email =>
       keyOwner'[EmailKey(x.user)] = r /\ EmailKey(x.user) \notin bonusClaims
  /\ step \in {"lockInviter", "count", "commit"} /\ x.bonus = "granted" =>
       keyOwner'[InstallKey(x.install)] = r /\ InstallKey(x.install) \notin bonusClaims
  /\ step = "count" \/ (step = "commit" /\ x.outcome # "invitee_ineligible") => rowOwner'[x.inviter] = r
  /\ step = "commit" /\ x.outcome = "rewarded" => Cardinality(RewardedBy(x.inviter)) < ReferralCapCount
  /\ ~x.email /\ step \in Steps => status[x.user] = "deleted"
  /\ step = "erase" /\ x.seen > 0 => rowOwner'[x.user] = r /\ balance[x.user] >= x.seen

LEMMA HeldThen ==
  ASSUME NEW r \in Requests, NEW step, NEW x, pc'[r] = step, req'[r] = x, HoldsThen(r, step, x),
         UNCHANGED <<status, balance, username, claimed, bonusClaims, referral>>
  PROVE  Held(r)'
  BY DEF Held, HoldsThen, RewardedBy, EmailKey, NameKey, InstallKey

LEMMA RefuseMoves ==
  ASSUME Typed, NEW r \in Requests, NEW answer \in Replies \ {"claimed"}, Refuse(r, answer)
  PROVE  Moves(r) /\ Own(r)' /\ Held(r)'
<1>1. pc' = [pc EXCEPT ![r] = answer] /\ req' = [req EXCEPT ![r] = NoLocals] /\ Unlock(r)
  BY DEF Refuse, Reply, Goto
<1>2. pc'[r] = answer /\ req'[r] = NoLocals
  BY <1>1 DEF Typed
<1>3. NoLocals \in Locals
  BY DEF NoLocals, Locals
<1> QED
  BY <1>1, <1>2, <1>3, RepliedHolds DEF Moves, Locks

\* A statement that holds nothing for r and touches no lock.
LEMMA StartsHold ==
  ASSUME Typed, NEW r \in Requests,
         \/ \E c \in ClaimInputs : StartClaim(r, c)
         \/ \E x \in RenameInputs : StartRename(r, x)
         \/ \E u \in Users : StartDelete(r, u)
  PROVE  Moves(r) /\ Own(r)' /\ Held(r)' /\ UNCHANGED rowVars
<1> USE DEF Goto, Own, Held, Replies, Steps, ClaimSteps, ClaimTx, HasName, InTransaction, NoLocals
<1>1. ASSUME NEW c \in ClaimInputs, StartClaim(r, c)
      PROVE  Moves(r) /\ Own(r)' /\ Held(r)' /\ UNCHANGED rowVars
  <2>1. c.user \in Users /\ c.install \in Installs /\ c.name \in Names /\ c.inviter \in Users \union {None}
    BY AccountsAssumption
  <2>2. CASE status[c.user] = "suspended"
    <3>1. /\ pc' = [pc EXCEPT ![r] = "refused"] /\ req' = [req EXCEPT ![r] = NoLocals]
          /\ UNCHANGED <<rowVars, lockVars>> /\ pc[r] \in Replies
      BY <1>1, <2>2 DEF StartClaim
    <3>2. NoLocals \in Locals
      BY DEF Locals
    <3>3. Moves(r) /\ pc'[r] = "refused"
      BY <3>1, <3>2, MovesTo DEF Locks
    <3> QED
      BY <3>1, <3>3
  <2>3. CASE status[c.user] # "suspended"
    <3> DEFINE x == [NoLocals EXCEPT !.user = c.user, !.install = c.install, !.name = c.name, !.inviter = c.inviter]
    <3>1. /\ pc' = [pc EXCEPT ![r] = "readUser"] /\ req' = [req EXCEPT ![r] = x]
          /\ UNCHANGED <<rowVars, lockVars>> /\ pc[r] \in Replies
      BY <1>1, <2>3 DEF StartClaim
    <3>2. /\ x \in Locals /\ x.user = c.user /\ x.install = c.install /\ x.name = c.name
          /\ x.email /\ x.outcome = "invitee_ineligible"
      BY <2>1 DEF Locals
    <3> HIDE DEF x
    <3>3. Moves(r) /\ pc'[r] = "readUser" /\ req'[r] = x
      BY ZenonT(40), <3>1, <3>2, MovesTo DEF Locks
    <3> QED
      BY <2>1, <3>1, <3>2, <3>3
  <2> QED
    BY <2>2, <2>3
<1>2. ASSUME NEW x \in RenameInputs, StartRename(r, x)
      PROVE  Moves(r) /\ Own(r)' /\ Held(r)' /\ UNCHANGED rowVars
  BY <1>2, AccountsAssumption DEF StartRename, Moves, Locks, Locals, Typed
<1>3. ASSUME NEW u \in Users, StartDelete(r, u)
      PROVE  Moves(r) /\ Own(r)' /\ Held(r)' /\ UNCHANGED rowVars
  BY <1>3, AccountsAssumption DEF StartDelete, Moves, Locks, Locals, Typed
<1> QED
  BY <1>1, <1>2, <1>3

\* The reads before the transactions.
LEMMA ReadsHold ==
  ASSUME Typed, NEW r \in Requests, Own(r), Held(r),
         ReadUser(r) \/ CheckName(r) \/ FindInviter(r) \/ Eligibility(r) \/ ReadAccount(r)
  PROVE  Moves(r) /\ Own(r)' /\ Held(r)' /\ UNCHANGED rowVars
<1> USE DEF Goto, Steps, ClaimSteps, ClaimTx, HasName, InTransaction, At
<1>1. ASSUME NEW answer \in Replies \ {"claimed"}, Refuse(r, answer), UNCHANGED rowVars
      PROVE  Moves(r) /\ Own(r)' /\ Held(r)' /\ UNCHANGED rowVars
  BY <1>1, RefuseMoves
<1>2. CASE ReadUser(r)
  <2>1. CASE Refuse(r, "ALREADY_CLAIMED")
    BY <1>1, <1>2, <2>1 DEF ReadUser, Replies
  <2>2. CASE ~Refuse(r, "ALREADY_CLAIMED")
    <3> DEFINE x == [req[r] EXCEPT !.email = (status[req[r].user] # "deleted")]
    <3>1. /\ pc' = [pc EXCEPT ![r] = "checkName"] /\ req' = [req EXCEPT ![r] = x]
          /\ UNCHANGED <<rowVars, lockVars>> /\ pc[r] = "readUser"
      BY <1>2, <2>2 DEF ReadUser
    <3>2. req[r] \in Locals
      BY DEF Typed
    <3>3. /\ x \in Locals /\ (~x.email <=> status[req[r].user] = "deleted")
          /\ x.user = req[r].user /\ x.install = req[r].install /\ x.name = req[r].name
          /\ x.outcome = req[r].outcome
      BY <3>2 DEF Locals
    <3> HIDE DEF x
    <3>4. Moves(r) /\ pc'[r] = "checkName" /\ req'[r] = x
      BY ZenonT(60), <3>1, <3>3, MovesTo DEF Locks
    <3> QED
      BY <3>1, <3>3, <3>4 DEF Own, Held, rowVars, userVars, bookVars
  <2> QED
    BY <2>1, <2>2
<1>3. CASE CheckName(r)
  <2>1. CASE Refuse(r, "USERNAME_TAKEN")
    BY <1>1, <1>3, <2>1 DEF CheckName, Replies
  <2>2. CASE ~Refuse(r, "USERNAME_TAKEN")
    BY <1>3, <2>2, AccountsAssumption DEF CheckName, Moves, Locks, Locals, Typed, Own, Held,
      rowVars, userVars, bookVars
  <2> QED
    BY <2>1, <2>2
<1>4. CASE FindInviter(r)
  <2>1. CASE Refuse(r, "refused")
    BY <1>1, <1>4, <2>1 DEF FindInviter, Replies
  <2>2. CASE ~Refuse(r, "refused")
    BY <1>4, <2>2, AccountsAssumption DEF FindInviter, Moves, Locks, Locals, Typed, Own, Held,
      rowVars, userVars, bookVars
  <2> QED
    BY <2>1, <2>2
<1>5. CASE Eligibility(r)
  BY <1>5 DEF Eligibility, Moves, Locks, Locals, Typed, Own, Held, rowVars, userVars, bookVars
<1>6. CASE ReadAccount(r)
  <2>1. CASE Refuse(r, "refused")
    BY <1>1, <1>6, <2>1 DEF ReadAccount, Replies
  <2>2. CASE ~Refuse(r, "refused")
    BY SMTT(40), <1>6, <2>2 DEF ReadAccount, Moves, Locks, Locals, Typed, AccountsTypeOK, Own, Held, rowVars,
      userVars, bookVars
  <2> QED
    BY <2>1, <2>2
<1> QED
  BY <1>2, <1>3, <1>4, <1>5, <1>6

\* A unique violation rolls back, once to ask whose the username is.
LEMMA ViolationMoves ==
  ASSUME Typed, NEW r \in Requests, Own(r), Held(r), pc[r] \in ClaimTx, Violation(r), UNCHANGED rowVars,
         req[r].outcome = "invitee_ineligible"
  PROVE  Moves(r) /\ Own(r)' /\ Held(r)'
<1>1. CASE req[r].again
  <2>1. Refuse(r, "failed")
    BY <1>1 DEF Violation, Refuse, Reply
  <2> QED
    BY <2>1, RefuseMoves DEF Replies
<1>2. CASE ~req[r].again
  <2>1. pc' = [pc EXCEPT ![r] = "whose"] /\ req' = req /\ Unlock(r)
    BY <1>2 DEF Violation, Goto
  <2>2. req[r] \in Locals /\ req' = [req EXCEPT ![r] = req[r]]
    BY <2>1 DEF Typed
  <2>3. Moves(r) /\ pc'[r] = "whose" /\ req'[r] = req[r]
    BY <2>1, <2>2, MovesTo DEF Locks, Steps, ClaimSteps
  <2> QED
    BY <2>3 DEF Own, Held, Steps, ClaimSteps, ClaimTx, HasName, rowVars, userVars, bookVars
<1> QED
  BY <1>1, <1>2

\* The statements of a claim's transaction before its commit.
LEMMA ClaimHolds ==
  ASSUME Typed, NEW r \in Requests, Own(r), Held(r),
         SetName(r) \/ TakeName(r) \/ TakeBonus(r) \/ Whose(r) \/ LockInviter(r) \/ CountReferrals(r)
  PROVE  Moves(r) /\ Own(r)' /\ Held(r)' /\ UNCHANGED rowVars
<1> USE DEF Goto, At
<1>0. UNCHANGED rowVars /\ Blocker(r) = Nobody /\ req[r] \in Locals
  BY DEF SetName, TakeName, TakeBonus, Whose, LockInviter, CountReferrals, Typed
<1>r. UNCHANGED <<status, balance, username, claimed, bonusClaims, referral>>
  BY <1>0 DEF rowVars, userVars, bookVars
<1>1. ASSUME NEW answer \in Replies \ {"claimed"}, Refuse(r, answer)
      PROVE  Moves(r) /\ Own(r)' /\ Held(r)'
  BY <1>1, RefuseMoves
<1>2. CASE SetName(r)
  <2>1. CASE AlreadyClaimed(r)
    BY <1>1, <1>2, <2>1 DEF SetName, Replies
  <2>2. CASE ~AlreadyClaimed(r)
    <3>1. /\ pc' = [pc EXCEPT ![r] = "takeName"] /\ req' = [req EXCEPT ![r] = req[r]]
          /\ HoldRow(r, req[r].user) /\ UNCHANGED keyOwner /\ pc[r] = "setName"
      BY <1>2, <2>2 DEF SetName, Typed
    <3>2. req[r].user \in Users /\ ~claimed[req[r].user] /\ rowOwner[req[r].user] \in {Nobody, r}
      BY <1>0, <2>2, <3>1, NotBlocked DEF Own, AlreadyClaimed, Steps, ClaimSteps
    <3>3. Moves(r) /\ pc'[r] = "takeName" /\ req'[r] = req[r]
      BY <1>0, <3>1, <3>2, MovesTo DEF Locks, Steps, ClaimSteps, ClaimTx, InTransaction
    <3>4. rowOwner'[req[r].user] = r
      BY <3>1, <3>2 DEF HoldRow, Typed, AccountsTypeOK
    <3>5. HoldsThen(r, "takeName", req[r])
      BY <3>1, <3>2, <3>4 DEF HoldsThen, Held, Steps, ClaimSteps, ClaimTx, HasName
    <3>6. Held(r)'
      BY <1>r, <3>3, <3>5, HeldThen
    <3> QED
      BY <1>0, <3>1, <3>3, <3>6 DEF Own, Steps, ClaimSteps, ClaimTx
  <2> QED
    BY <2>1, <2>2
<1>3. CASE TakeName(r)
  <2>1. CASE NameTaken(r)
    BY <1>0, <1>3, <2>1, ViolationMoves DEF TakeName, Own, Steps, ClaimSteps, ClaimTx
  <2>2. CASE ~NameTaken(r)
    <3> DEFINE n == req[r].name
    <3>1. /\ pc' = [pc EXCEPT ![r] = AfterName(r)] /\ req' = [req EXCEPT ![r] = req[r]]
          /\ HoldKey(r, NextKey(r)) /\ UNCHANGED rowOwner /\ pc[r] = "takeName"
      BY <1>3, <2>2 DEF TakeName, Typed
    <3>2. NextKey(r) = NameKey(n)
      BY <3>1 DEF NextKey
    <3>3. n \in Names /\ NameKey(n) \in UniqueKeys /\ keyOwner[NameKey(n)] \in {Nobody, r}
      BY <1>0, <3>1, NotBlocked, KeysAreUnique DEF Own, ClaimSteps, ClaimTx
    <3>4. /\ AfterName(r) \in {"commit", "takeEmail", "takeInstall"}
          /\ AfterName(r) # "commit" => req[r].bonus = "granted"
          /\ AfterName(r) = "commit" => req[r].bonus # "granted"
          /\ AfterName(r) = "takeInstall" => ~req[r].email
      BY DEF AfterName
    <3>5. Locks(r) /\ AfterName(r) \in Steps /\ AfterName(r) \in InTransaction
      BY <3>1, <3>2, <3>3, <3>4 DEF Locks, HoldKey, Steps, ClaimSteps, ClaimTx, InTransaction
    <3>6. Moves(r) /\ pc'[r] = AfterName(r) /\ req'[r] = req[r]
      BY <1>0, <3>1, <3>5, MovesTo
    <3>7. keyOwner'[NameKey(n)] = r /\ \A v \in Users \ {req[r].user} : username[v] # n
      BY <2>2, <3>1, <3>2, <3>3 DEF HoldKey, Typed, AccountsTypeOK, NameTaken, HolderOf
    <3>8. HoldsThen(r, AfterName(r), req[r])
      BY <3>1, <3>4, <3>7 DEF HoldsThen, Own, Held, Steps, ClaimSteps, ClaimTx, HasName
    <3>9. Held(r)'
      BY <1>r, <3>6, <3>8, HeldThen
    <3> QED
      BY <1>0, <3>1, <3>4, <3>6, <3>9 DEF Own, Steps, ClaimSteps, ClaimTx
  <2> QED
    BY <2>1, <2>2
<1>4. CASE TakeBonus(r)
  <2>1. CASE BonusTaken(r)
    BY <1>0, <1>4, <2>1, ViolationMoves DEF TakeBonus, Own, Steps, ClaimSteps, ClaimTx
  <2>2. CASE ~BonusTaken(r) /\ pc[r] = "takeEmail"
    <3>1. /\ pc' = [pc EXCEPT ![r] = "takeInstall"] /\ req' = [req EXCEPT ![r] = req[r]]
          /\ HoldKey(r, NextKey(r)) /\ UNCHANGED rowOwner
      BY <1>4, <2>2 DEF TakeBonus, Typed
    <3>2. NextKey(r) = EmailKey(req[r].user)
      BY <2>2 DEF NextKey
    <3>3. EmailKey(req[r].user) \in UniqueKeys /\ keyOwner[EmailKey(req[r].user)] \in {Nobody, r}
      BY <1>0, <2>2, NotBlocked, KeysAreUnique DEF Own, Steps, ClaimSteps, ClaimTx
    <3>7. Locks(r)
      BY <3>1, <3>2, <3>3 DEF Locks, HoldKey
    <3>4. Moves(r) /\ pc'[r] = "takeInstall" /\ req'[r] = req[r]
      BY <1>0, <3>1, <3>7, MovesTo DEF Steps, ClaimSteps, ClaimTx, InTransaction
    <3>5. keyOwner'[EmailKey(req[r].user)] = r /\ EmailKey(req[r].user) \notin bonusClaims
      BY <2>2, <3>1, <3>2, <3>3 DEF HoldKey, BonusTaken, Typed, AccountsTypeOK
    <3>6. NameKey(req[r].name) \in UniqueKeys /\ keyOwner'[NameKey(req[r].name)] = r
      BY <2>2, <3>1, <3>2, <3>3, KeysAreUnique
      DEF Own, Held, HoldKey, Typed, AccountsTypeOK, ClaimSteps, ClaimTx, HasName
    <3>8. HoldsThen(r, "takeInstall", req[r])
      BY <2>2, <3>1, <3>5, <3>6 DEF HoldsThen, Held, Steps, ClaimSteps, ClaimTx, HasName
    <3>9. Held(r)'
      BY <1>r, <3>4, <3>8, HeldThen
    <3> QED
      BY <1>0, <2>2, <3>4, <3>9 DEF Own, Steps, ClaimSteps, ClaimTx
  <2>3. CASE ~BonusTaken(r) /\ pc[r] = "takeInstall"
    <3> DEFINE i == InstallKey(req[r].install)
    <3>1. /\ pc' = [pc EXCEPT ![r] = AfterBonus(r)] /\ req' = [req EXCEPT ![r] = req[r]]
          /\ HoldKey(r, NextKey(r)) /\ UNCHANGED rowOwner
      BY <1>4, <2>3 DEF TakeBonus, Typed
    <3>2. NextKey(r) = i
      BY <2>3 DEF NextKey
    <3>3. i \in UniqueKeys /\ keyOwner[i] \in {Nobody, r}
      BY <1>0, <2>3, NotBlocked, KeysAreUnique DEF Own, Steps, ClaimSteps, ClaimTx
    <3>4. AfterBonus(r) \in {"lockInviter", "commit"} /\ (AfterBonus(r) = "lockInviter" => req[r].inviter # None)
      BY DEF AfterBonus
    <3>9. Locks(r) /\ AfterBonus(r) \in Steps /\ AfterBonus(r) \in InTransaction
      BY <3>1, <3>2, <3>3, <3>4 DEF Locks, HoldKey, Steps, ClaimSteps, ClaimTx, InTransaction
    <3>5. Moves(r) /\ pc'[r] = AfterBonus(r) /\ req'[r] = req[r]
      BY <1>0, <3>1, <3>9, MovesTo
    <3>6. keyOwner'[i] = r /\ i \notin bonusClaims
      BY <2>3, <3>1, <3>2, <3>3 DEF HoldKey, BonusTaken, Typed, AccountsTypeOK
    <3>7. \A k \in UniqueKeys : keyOwner[k] = r => keyOwner'[k] = r
      BY <3>1, <3>2, <3>3 DEF HoldKey, Typed, AccountsTypeOK
    <3>8. NameKey(req[r].name) \in UniqueKeys /\ EmailKey(req[r].user) \in UniqueKeys
      BY <2>3, KeysAreUnique DEF Own, Steps, ClaimSteps, ClaimTx
    <3>10. HoldsThen(r, AfterBonus(r), req[r])
      BY <2>3, <3>1, <3>4, <3>6, <3>7, <3>8 DEF HoldsThen, Own, Held, Steps, ClaimSteps, ClaimTx, HasName
    <3>11. Held(r)'
      BY <1>r, <3>5, <3>10, HeldThen
    <3> QED
      BY <1>0, <2>3, <3>4, <3>5, <3>11 DEF Own, Steps, ClaimSteps, ClaimTx
  <2> QED
    BY <1>4, <2>1, <2>2, <2>3 DEF TakeBonus
<1>5. CASE Whose(r)
  <2>1. CASE NameTaken(r)
    BY <1>1, <1>5, <2>1 DEF Whose, Replies
  <2>2. CASE ~NameTaken(r)
    <3> DEFINE x == [req[r] EXCEPT !.bonus = "BONUS_ALREADY_CLAIMED", !.again = TRUE]
    <3>1. /\ pc' = [pc EXCEPT ![r] = "setName"] /\ req' = [req EXCEPT ![r] = x]
          /\ UNCHANGED lockVars /\ pc[r] = "whose"
      BY <1>5, <2>2 DEF Whose, Typed, Locals
    <3>2. /\ x \in Locals /\ x.user = req[r].user /\ x.install = req[r].install /\ x.name = req[r].name
          /\ x.inviter = req[r].inviter /\ x.outcome = req[r].outcome /\ x.email = req[r].email
      BY <1>0 DEF Locals
    <3> HIDE DEF x
    <3>3. Moves(r) /\ pc'[r] = "setName" /\ req'[r] = x
      BY <3>1, <3>2, MovesTo DEF Locks, Steps, ClaimSteps, ClaimTx, InTransaction
    <3>4. HoldsThen(r, "setName", x)
      BY <3>1, <3>2 DEF HoldsThen, Held, Steps, ClaimSteps, ClaimTx, HasName
    <3>5. Held(r)'
      BY <1>r, <3>3, <3>4, HeldThen
    <3> QED
      BY <1>0, <3>1, <3>2, <3>3, <3>5 DEF Own, Steps, ClaimSteps, ClaimTx
  <2> QED
    BY <2>1, <2>2
<1>6. CASE LockInviter(r)
  <2>1. /\ pc' = [pc EXCEPT ![r] = "count"] /\ req' = [req EXCEPT ![r] = req[r]]
        /\ HoldRow(r, req[r].inviter) /\ UNCHANGED keyOwner /\ pc[r] = "lockInviter"
    BY <1>6 DEF LockInviter, ForUpdate, Typed
  <2>2. req[r].inviter \in Users /\ rowOwner[req[r].inviter] \in {Nobody, r}
    BY <1>0, <2>1, NotBlocked DEF Own, Locals
  <2>3. Moves(r) /\ pc'[r] = "count" /\ req'[r] = req[r]
    BY <1>0, <2>1, <2>2, MovesTo DEF Locks, Steps, ClaimSteps, ClaimTx, InTransaction
  <2>4. rowOwner'[req[r].inviter] = r /\ \A u \in Users : rowOwner[u] = r => rowOwner'[u] = r
    BY <2>1, <2>2 DEF HoldRow, Typed, AccountsTypeOK
  <2>5. HoldsThen(r, "count", req[r])
    BY <2>1, <2>4 DEF HoldsThen, Own, Held, Steps, ClaimSteps, ClaimTx, HasName
  <2>6. Held(r)'
    BY <1>r, <2>3, <2>5, HeldThen
  <2> QED
    BY <1>0, <2>1, <2>3, <2>6 DEF Own, Steps, ClaimSteps, ClaimTx
<1>7. CASE CountReferrals(r)
  <2> DEFINE o == IF Cardinality(RewardedBy(req[r].inviter)) >= ReferralCapCount THEN "inviter_capped" ELSE "rewarded"
  <2> DEFINE x == [req[r] EXCEPT !.outcome = o]
  <2>1. /\ pc' = [pc EXCEPT ![r] = "commit"] /\ req' = [req EXCEPT ![r] = x]
        /\ UNCHANGED lockVars /\ pc[r] = "count"
    BY <1>7 DEF CountReferrals
  <2>2. /\ x \in Locals /\ x.user = req[r].user /\ x.install = req[r].install /\ x.name = req[r].name
        /\ x.inviter = req[r].inviter /\ x.bonus = req[r].bonus /\ x.email = req[r].email /\ x.outcome = o
    BY <1>0 DEF Locals
  <2> HIDE DEF x
  <2>3. Moves(r) /\ pc'[r] = "commit" /\ req'[r] = x
    BY <2>1, <2>2, MovesTo DEF Locks, Steps, ClaimSteps, ClaimTx, InTransaction
  <2>4. x.outcome = "rewarded" => Cardinality(RewardedBy(req[r].inviter)) < ReferralCapCount
    <3>1. RewardedBy(req[r].inviter) \subseteq Users
      BY DEF RewardedBy
    <3>2. Cardinality(RewardedBy(req[r].inviter)) \in Nat
      BY <3>1, AccountsAssumption, FS_Subset, FS_CardinalityType
    <3> QED
      BY <2>2, <3>2, AccountsAssumption
  <2>5. HoldsThen(r, "commit", x)
    BY <2>1, <2>2, <2>4 DEF HoldsThen, Own, Held, Steps, ClaimSteps, ClaimTx, HasName, lockVars
  <2>6. Held(r)'
    BY <1>r, <2>3, <2>5, HeldThen
  <2> QED
    BY <1>0, <2>1, <2>2, <2>3, <2>6 DEF Own, Steps, ClaimSteps, ClaimTx
<1> QED
  BY <1>0, <1>2, <1>3, <1>4, <1>5, <1>6, <1>7

\* A change of the name and a deletion before they write, and the ways out.
LEMMA RestHolds ==
  ASSUME Typed, NEW r \in Requests, Own(r), Held(r),
         RenameRow(r) \/ Forfeit(r) \/ Deadlock(r) \/ Cut(r)
  PROVE  Moves(r) /\ Own(r)' /\ Held(r)' /\ UNCHANGED rowVars
<1> USE DEF Goto, At
<1>0. UNCHANGED rowVars /\ req[r] \in Locals
  BY DEF RenameRow, Forfeit, Deadlock, Cut, Typed
<1>r. UNCHANGED <<status, balance, username, claimed, bonusClaims, referral>>
  BY <1>0 DEF rowVars, userVars, bookVars
<1>1. ASSUME NEW answer \in Replies \ {"claimed"}, Refuse(r, answer)
      PROVE  Moves(r) /\ Own(r)' /\ Held(r)'
  BY <1>1, RefuseMoves
<1>2. CASE Deadlock(r) \/ Cut(r)
  BY <1>0, <1>1, <1>2 DEF Deadlock, Cut, Replies
<1>3. CASE RenameRow(r)
  <2>1. /\ pc' = [pc EXCEPT ![r] = "rename"] /\ req' = [req EXCEPT ![r] = req[r]]
        /\ HoldRow(r, req[r].user) /\ UNCHANGED keyOwner /\ pc[r] = "renameRow"
    BY <1>3 DEF RenameRow, Typed
  <2>2. req[r].user \in Users /\ rowOwner[req[r].user] \in {Nobody, r}
    BY <1>3, <2>1, NotBlocked DEF Own, RenameRow, Steps
  <2>3. Moves(r) /\ pc'[r] = "rename" /\ req'[r] = req[r]
    BY <1>0, <2>1, <2>2, MovesTo DEF Locks, Steps, InTransaction
  <2>4. HoldsThen(r, "rename", req[r])
    BY <2>1 DEF HoldsThen, Held, Steps, ClaimSteps, ClaimTx, HasName
  <2>5. Held(r)'
    BY <1>r, <2>3, <2>4, HeldThen
  <2> QED
    BY <1>0, <2>1, <2>3, <2>5 DEF Own, Steps, ClaimSteps, ClaimTx
<1>4. CASE Forfeit(r)
  <2> DEFINE u == req[r].user
  <2>1. CASE Accepts(u, -req[r].seen, FALSE)
    <3>1. /\ pc' = [pc EXCEPT ![r] = "erase"] /\ req' = [req EXCEPT ![r] = req[r]]
          /\ HoldRow(r, u) /\ UNCHANGED keyOwner /\ pc[r] = "forfeit"
      BY <1>4, <2>1 DEF Forfeit, Typed
    <3>2. u \in Users /\ rowOwner[u] \in {Nobody, r}
      BY <1>4, <3>1, NotBlocked DEF Own, Forfeit, Steps
    <3>3. Moves(r) /\ pc'[r] = "erase" /\ req'[r] = req[r]
      BY <1>0, <3>1, <3>2, MovesTo DEF Locks, Steps, InTransaction
    <3>4. rowOwner'[u] = r /\ (req[r].seen > 0 => balance[u] >= req[r].seen)
      BY <1>0, <2>1, <3>1, <3>2 DEF HoldRow, Accepts, Typed, AccountsTypeOK, Locals
    <3>5. HoldsThen(r, "erase", req[r])
      BY <3>1, <3>4 DEF HoldsThen, Held, Steps, ClaimSteps, ClaimTx, HasName
    <3>6. Held(r)'
      BY <1>r, <3>3, <3>5, HeldThen
    <3> QED
      BY <1>0, <3>1, <3>3, <3>6 DEF Own, Steps, ClaimSteps, ClaimTx
  <2>2. CASE ~Accepts(u, -req[r].seen, FALSE)
    BY <1>0, <1>1, <1>4, <2>2 DEF Forfeit, Replies
  <2> QED
    BY <2>1, <2>2
<1> QED
  BY <1>2, <1>3, <1>4

-----------------------------------------------------------------------------
(* The statements that write rows *)

\* Whose rows and keys a commit of a claim writes.
LEMMA CommitSets ==
  ASSUME IInv, NEW r \in Requests, CommitClaim(r), ~UNCHANGED rowVars,
         NEW u, u = req[r].user, NEW i, i = req[r].inviter
  PROVE  /\ u \in Users /\ i \in Users \union {None} /\ i # u /\ req[r].name \in Names
         /\ req[r].install \in Installs
         /\ pc[r] = "commit" /\ rowOwner[u] = r /\ ~claimed[u] /\ Unclaimed(u)
         /\ i # None => rowOwner[i] \in {Nobody, r}
         /\ pc' = [pc EXCEPT ![r] = "claimed"] /\ UNCHANGED <<req, status>> /\ Unlock(r)
         /\ username' = [username EXCEPT ![u] = req[r].name]
         /\ claimed' = [claimed EXCEPT ![u] = TRUE]
         /\ bonusClaims' = bonusClaims \union {k \in BonusKeys(r) : keyOwner[k] = r}
         /\ bonusVia' = IF req[r].bonus = "granted" THEN [bonusVia EXCEPT ![u] = req[r].install] ELSE bonusVia
         /\ referral' = IF i = None THEN referral ELSE
              [referral EXCEPT ![u] = [inviter |-> i, outcome |-> req[r].outcome]]
<1>1. pc[r] = "commit" /\ Blocker(r) = Nobody
  BY DEF CommitClaim, At
<1>2. i # None => rowOwner[i] \in {Nobody, r}
  BY <1>1, NotBlocked
<1>3. Own(r) /\ Held(r) /\ req[r] \in Locals
  BY DEF IInv, Typed
<1>4. /\ u \in Users /\ i \in Users \union {None} /\ i # u /\ req[r].name \in Names
      /\ req[r].install \in Installs /\ rowOwner[u] = r /\ ~claimed[u]
  BY <1>1, <1>3 DEF Own, Held, Locals, Steps, ClaimSteps, ClaimTx
<1>5. ~ \E e \in {x \in Awards(r) : ~Posted(x.key)} : ~Accepts(e.user, e.amount, FALSE)
  BY DEF CommitClaim
<1>6. Unclaimed(u)
  BY <1>4 DEF IInv
<1> QED
  BY <1>1, <1>2, <1>4, <1>5, <1>6 DEF CommitClaim, Reply, Goto

\* The keys a claim, a deletion and other posts write under are all different.
LEMMA KeysDiffer ==
  \A u, v :
    /\ \A k \in {SignupKey(u), InviteeKey(u), InviterKey(u)} :
         k \in {SignupKey(v), InviteeKey(v), InviterKey(v)} => u = v
    /\ SignupKey(u) # InviteeKey(v) /\ SignupKey(u) # InviterKey(v) /\ InviteeKey(u) # InviterKey(v)
    /\ DeletedKey(u) \notin {SignupKey(v), InviteeKey(v), InviterKey(v)}
  BY DEF SignupKey, InviteeKey, InviterKey, DeletedKey

\* The posts of a claim's commit: all of its awards, none of them posted before.
LEMMA CommitPosts ==
  ASSUME IInv, NEW r \in Requests, CommitClaim(r), ~UNCHANGED rowVars
  PROVE  /\ entries' = entries \union Awards(r)
         /\ Awards(r) \subseteq [user : Users, key : Keys, amount : Nat]
         /\ \A e \in Awards(r) : e \in {SignupAward(r), InviteeAward(r), InviterAward(r)}
         /\ \A e \in Awards(r) : status[e.user] # "deleted"
         /\ balance' \in [Users -> Nat] /\ \A v \in Users : balance'[v] >= balance[v]
<1> DEFINE new == {e \in Awards(r) : ~Posted(e.key)}
<1>1. /\ req[r].user \in Users /\ req[r].inviter \in Users \union {None} /\ Unclaimed(req[r].user)
      /\ ~claimed[req[r].user]
  BY CommitSets
<1>2. /\ ~ \E e \in new : ~Accepts(e.user, e.amount, FALSE)
      /\ entries' = entries \union new
      /\ balance' = [v \in Users |-> balance[v] + Received(new, r, v)]
  BY DEF CommitClaim
<1>3. \A e \in Awards(r) : e \in {SignupAward(r), InviteeAward(r), InviterAward(r)} /\ e.amount > 0
  BY DEF Awards
<1>4. \A e \in Awards(r) : ~Posted(e.key)
  BY <1>1, <1>3 DEF Unclaimed, Posted, SignupAward, InviteeAward, InviterAward
<1>5. new = Awards(r)
  BY <1>4
<1>6. Awards(r) \subseteq [user : Users, key : Keys, amount : Nat]
  <2>1. {SignupKey(req[r].user), InviteeKey(req[r].user), InviterKey(req[r].user)} \subseteq Keys
    BY <1>1, AccountsAssumption DEF OwnKeys
  <2>2. {SignupBonus, InviteeCredits, InviterCredits} \subseteq Nat
    BY AccountsAssumption
  <2>3. SignupAward(r) \in [user : Users, key : Keys, amount : Nat]
    BY <1>1, <2>1, <2>2 DEF SignupAward
  <2>4. InviteeAward(r) \in [user : Users, key : Keys, amount : Nat]
    BY <1>1, <2>1, <2>2 DEF InviteeAward
  <2>5. ASSUME InviterAward(r) \in Awards(r)
        PROVE InviterAward(r) \in [user : Users, key : Keys, amount : Nat]
    <3>1. req[r].inviter # None
      BY <2>5 DEF Awards
    <3> QED
      BY <1>1, <2>1, <2>2, <3>1 DEF InviterAward
  <2> QED
    BY <1>3, <2>3, <2>4, <2>5
<1>7. \A e \in Awards(r) : status[e.user] # "deleted"
  BY <1>2, <1>5, Zenon DEF Accepts
<1>8. \A v \in Users : Received(new, r, v) \in Nat
  BY AccountsAssumption DEF Received, SignupAward, InviteeAward, InviterAward
<1>9. balance' \in [Users -> Nat] /\ \A v \in Users : balance'[v] >= balance[v]
  BY <1>2, <1>8 DEF IInv, Typed, AccountsTypeOK
<1> QED
  BY <1>2, <1>3, <1>5, <1>6, <1>7, <1>9

\* A commit counts the invitee as rewarded for its inviter, and for nobody else.
LEMMA CommitRewards ==
  ASSUME IInv, NEW r \in Requests, CommitClaim(r), ~UNCHANGED rowVars,
         NEW u, u = req[r].user, NEW i, i = req[r].inviter, NEW v \in Users
  PROVE  IF v = i /\ req[r].outcome = "rewarded"
           THEN RewardedBy(v)' = RewardedBy(v) \union {u}
           ELSE RewardedBy(v)' = RewardedBy(v)
<1>1. /\ u \in Users /\ referral[u].outcome = "none" /\ v # None
      /\ referral' = IF i = None THEN referral ELSE
           [referral EXCEPT ![u] = [inviter |-> i, outcome |-> req[r].outcome]]
      /\ referral \in [Users -> [inviter : Users \union {None},
                                 outcome : {"none", "rewarded", "inviter_capped", "invitee_ineligible"}]]
  BY CommitSets, AccountsAssumption DEF Unclaimed, NoReferral, IInv, Typed, AccountsTypeOK
<1>2. ASSUME NEW w \in Users, w # u PROVE referral'[w] = referral[w]
  BY <1>1, <1>2
<1>3. referral'[u] = IF i = None THEN referral[u] ELSE [inviter |-> i, outcome |-> req[r].outcome]
  BY <1>1
<1>4. u \notin RewardedBy(v)
  BY <1>1 DEF RewardedBy
<1>5. u \in RewardedBy(v)' <=> v = i /\ req[r].outcome = "rewarded"
  BY <1>1, <1>3 DEF RewardedBy
<1>6. \A w \in Users \ {u} : w \in RewardedBy(v)' <=> w \in RewardedBy(v)
  BY <1>2 DEF RewardedBy
<1>7. RewardedBy(v) \subseteq Users /\ RewardedBy(v)' \subseteq Users
  BY DEF RewardedBy
<1> QED
  BY <1>1, <1>4, <1>5, <1>6, <1>7

LEMMA CommitHolds ==
  ASSUME IInv, NEW r \in Requests, CommitClaim(r), ~UNCHANGED rowVars
  PROVE  /\ Typed' /\ Own(r)' /\ Held(r)'
         /\ \A q \in Requests \ {r} : Spares(q)
         /\ \A v \in Users : Unclaimed(v)'
<1> SUFFICES ASSUME NEW u, u = req[r].user, NEW i, i = req[r].inviter, NEW n, n = req[r].name
             PROVE  /\ Typed' /\ Own(r)' /\ Held(r)'
                    /\ \A q \in Requests \ {r} : Spares(q)
                    /\ \A v \in Users : Unclaimed(v)'
  OBVIOUS
<1>1. /\ u \in Users /\ i \in Users \union {None} /\ i # u /\ n \in Names /\ req[r].install \in Installs
      /\ pc[r] = "commit" /\ rowOwner[u] = r /\ ~claimed[u] /\ Unclaimed(u)
      /\ pc' = [pc EXCEPT ![r] = "claimed"] /\ UNCHANGED <<req, status>> /\ Unlock(r)
      /\ username' = [username EXCEPT ![u] = n]
      /\ claimed' = [claimed EXCEPT ![u] = TRUE]
      /\ bonusClaims' = bonusClaims \union {k \in BonusKeys(r) : keyOwner[k] = r}
      /\ bonusVia' = IF req[r].bonus = "granted" THEN [bonusVia EXCEPT ![u] = req[r].install] ELSE bonusVia
      /\ referral' = IF i = None THEN referral ELSE
           [referral EXCEPT ![u] = [inviter |-> i, outcome |-> req[r].outcome]]
  BY CommitSets
<1>2. Typed /\ Held(r) /\ Own(r) /\ req[r] \in Locals
  BY DEF IInv, Typed
<1>3. /\ entries' = entries \union Awards(r)
      /\ Awards(r) \subseteq [user : Users, key : Keys, amount : Nat]
      /\ \A e \in Awards(r) : e \in {SignupAward(r), InviteeAward(r), InviterAward(r)}
      /\ balance' \in [Users -> Nat] /\ \A v \in Users : balance'[v] >= balance[v]
  BY CommitPosts
<1>4. Moves(r) /\ pc'[r] = "claimed" /\ req'[r] = req[r]
  <2>1. req' = [req EXCEPT ![r] = req[r]] /\ Locks(r)
    BY <1>1, <1>2 DEF Typed, Locks
  <2> QED
    BY <1>1, <1>2, <2>1, MovesTo DEF Replies
<1>5. Own(r)' /\ Held(r)'
  BY <1>1, <1>4 DEF Own, Held, Steps, ClaimSteps, ClaimTx, HasName
<1>6. keyOwner[NameKey(n)] = r /\ \A v \in Users \ {u} : username[v] # n
  BY <1>1, <1>2 DEF Held, HasName
<1>7. Typed'
  <2>1. username' \in [Users -> Names \union {None}] /\ claimed' \in [Users -> BOOLEAN]
    BY <1>1, <1>2 DEF Typed, AccountsTypeOK
  <2>2. \A v, w \in Users : username'[v] = username'[w] => v = w \/ username'[v] = None
    BY <1>1, <1>2, <1>6 DEF Typed, AccountsTypeOK
  <2>3. bonusClaims' \subseteq UniqueKeys
    BY <1>1, <1>2, KeysAreUnique DEF BonusKeys, Typed, AccountsTypeOK
  <2>4. bonusVia' \in [Users -> Installs \union {None}]
    BY <1>1, <1>2 DEF Typed
  <2>5. referral' \in [Users -> [inviter : Users \union {None},
                                 outcome : {"none", "rewarded", "inviter_capped", "invitee_ineligible"}]]
    BY <1>1, <1>2 DEF Typed, AccountsTypeOK, Locals
  <2>6. entries' \subseteq [user : Users, key : Keys, amount : Int]
    <3>1. \A e \in [user : Users, key : Keys, amount : Nat] : e \in [user : Users, key : Keys, amount : Int]
      OBVIOUS
    <3> QED
      BY <1>2, <1>3, <3>1 DEF Typed, AccountsTypeOK
  <2>7. status' \in [Users -> Statuses]
    BY <1>1, <1>2 DEF Typed, AccountsTypeOK
  <2> QED
    BY <1>2, <1>3, <1>4, <2>1, <2>2, <2>3, <2>4, <2>5, <2>6, <2>7, LocksTyped DEF Typed, AccountsTypeOK
<1>8. ASSUME NEW q \in Requests \ {r} PROVE Spares(q)
  <2>1. pc'[q] = pc[q] /\ req'[q] = req[q]
    BY <1>2, <1>4 DEF Moves, Typed
  <2>2. ASSUME NEW v \in Users, rowOwner[v] = q
        PROVE  /\ rowOwner'[v] = q /\ (claimed'[v] => claimed[v])
               /\ \A m \in Nat : balance[v] >= m => balance'[v] >= m
               /\ RewardedBy(v)' = RewardedBy(v)
    <3>1. v # u
      BY <1>1, <2>2
    <3>2. claimed'[v] => claimed[v]
      BY <1>1, <1>2, <3>1, Zenon DEF Typed, AccountsTypeOK
    <3>3. \A m \in Nat : balance[v] >= m => balance'[v] >= m
      BY <1>2, <1>3 DEF Typed, AccountsTypeOK
    <3>4. ~(v = i /\ req[r].outcome = "rewarded")
      BY <1>1, <1>2, <2>2 DEF Held
    <3>5. RewardedBy(v)' = RewardedBy(v)
      BY <3>4, CommitRewards
    <3>6. rowOwner'[v] = q
      BY <1>2, <1>4, <2>2, LocksStay DEF Moves
    <3> QED
      BY <3>2, <3>3, <3>5, <3>6
  <2>3. \A k \in UniqueKeys : keyOwner[k] = q => keyOwner'[k] = q /\ (k \in bonusClaims' => k \in bonusClaims)
    BY <1>1, <1>2, <1>4, LocksStay DEF Moves
  <2>4. \A m \in Names, v \in Users : keyOwner[NameKey(m)] = q /\ username'[v] = m => username[v] = m
    BY <1>1, <1>2, <1>6 DEF Typed, AccountsTypeOK
  <2>5. \A v \in Users : status[v] = "deleted" => status'[v] = "deleted"
    BY <1>1
  <2> QED
    BY <2>1, <2>2, <2>3, <2>4, <2>5 DEF Spares
<1>9. ASSUME NEW v \in Users PROVE Unclaimed(v)'
  <2>1. CASE v = u
    <3>1. claimed'[u]
      BY <1>1, <1>2, Zenon DEF Typed, AccountsTypeOK
    <3> QED
      BY <2>1, <3>1 DEF Unclaimed
  <2>2. CASE v # u
    <3>1. claimed'[v] <=> claimed[v]
      BY <1>1, <1>2, <2>2, Zenon DEF Typed, AccountsTypeOK
    <3>2. referral'[v] = referral[v] /\ bonusVia'[v] = bonusVia[v]
      BY <1>1, <1>2, <2>2 DEF Typed, AccountsTypeOK
    <3>3. \A e \in Awards(r) : e.key \notin {SignupKey(v), InviteeKey(v), InviterKey(v)}
      <4>1. \A e \in Awards(r) : e.key \in {SignupKey(u), InviteeKey(u), InviterKey(u)}
        BY <1>3 DEF SignupAward, InviteeAward, InviterAward
      <4> QED
        BY <2>2, <4>1, KeysDiffer
    <3>4. Unclaimed(v)
      BY DEF IInv
    <3> QED
      BY <1>3, <3>1, <3>2, <3>3, <3>4 DEF Unclaimed
  <2> QED
    BY <2>1, <2>2
<1> QED
  BY <1>5, <1>7, <1>8, <1>9

LEMMA RenameHolds ==
  ASSUME IInv, NEW r \in Requests, Rename(r)
  PROVE  /\ Typed' /\ Own(r)' /\ Held(r)'
         /\ \A q \in Requests \ {r} : Spares(q)
         /\ \A v \in Users : Unclaimed(v)'
<1> SUFFICES ASSUME NEW u, u = req[r].user, NEW n, n = req[r].name
             PROVE  /\ Typed' /\ Own(r)' /\ Held(r)'
                    /\ \A q \in Requests \ {r} : Spares(q)
                    /\ \A v \in Users : Unclaimed(v)'
  OBVIOUS
<1>1. Typed /\ Own(r) /\ Held(r) /\ req[r] \in Locals
  BY DEF IInv, Typed
<1>2. /\ pc[r] = "rename" /\ Blocker(r) = Nobody
      /\ UNCHANGED <<status, balance, entries, claimed, bonusClaims, referral, bonusVia>>
  BY DEF Rename, At, bookVars
<1>3. u \in Users /\ n \in Names /\ keyOwner[NameKey(n)] \in {Nobody, r}
  BY <1>1, <1>2, NotBlocked DEF Own, Steps
<1>4. Moves(r) /\ Own(r)' /\ Held(r)'
  BY <1>1, RefuseMoves DEF Rename, Replies
<1>5. \/ UNCHANGED username
      \/ username' = [username EXCEPT ![u] = n] /\ \A v \in Users \ {u} : username[v] # n
  BY DEF Rename, NameTaken, HolderOf
<1>6. /\ username' \in [Users -> Names \union {None}]
      /\ \A v, w \in Users : username'[v] = username'[w] => v = w \/ username'[v] = None
  BY <1>1, <1>3, <1>5 DEF Typed, AccountsTypeOK
<1>7. Typed'
  BY <1>1, <1>2, <1>4, <1>6, LocksTyped DEF Typed, AccountsTypeOK
<1>8. ASSUME NEW q \in Requests \ {r} PROVE Spares(q)
  <2>1. pc'[q] = pc[q] /\ req'[q] = req[q]
    BY <1>1, <1>4 DEF Moves, Typed
  <2>2. \A v \in Users : RewardedBy(v)' = RewardedBy(v)
    BY <1>2 DEF RewardedBy
  <2>3. \A m \in Names, v \in Users : keyOwner[NameKey(m)] = q /\ username'[v] = m => username[v] = m
    BY <1>1, <1>3, <1>5, AccountsAssumption DEF Typed, AccountsTypeOK
  <2> QED
    BY <1>1, <1>2, <1>4, <2>1, <2>2, <2>3, LocksStay DEF Spares, Moves
<1>9. \A v \in Users : Unclaimed(v)'
  BY <1>2 DEF IInv, Unclaimed
<1> QED
  BY <1>4, <1>7, <1>8, <1>9

LEMMA EraseHolds ==
  ASSUME IInv, NEW r \in Requests, Erase(r)
  PROVE  /\ Typed' /\ Own(r)' /\ Held(r)'
         /\ \A q \in Requests \ {r} : Spares(q)
         /\ \A v \in Users : Unclaimed(v)'
<1> SUFFICES ASSUME NEW u, u = req[r].user, NEW n, n = req[r].seen
             PROVE  /\ Typed' /\ Own(r)' /\ Held(r)'
                    /\ \A q \in Requests \ {r} : Spares(q)
                    /\ \A v \in Users : Unclaimed(v)'
  OBVIOUS
<1>1. Typed /\ Own(r) /\ Held(r) /\ req[r] \in Locals /\ n \in Nat
  BY DEF IInv, Typed, Locals
<1>2. /\ pc[r] = "erase" /\ Blocker(r) = Nobody
      /\ UNCHANGED <<claimed, bonusClaims, referral, bonusVia>>
      /\ status' = [status EXCEPT ![u] = "deleted"]
      /\ balance' = [balance EXCEPT ![u] = @ - n]
      /\ username' = [username EXCEPT ![u] = None]
      /\ entries' = IF n = 0 THEN entries ELSE entries \union {[user |-> u, key |-> DeletedKey(u), amount |-> -n]}
  BY DEF Erase, At
<1>3. u \in Users /\ rowOwner[u] \in {Nobody, r}
  BY <1>1, <1>2, NotBlocked DEF Own, Steps
<1>4. Moves(r) /\ Own(r)' /\ Held(r)'
  BY <1>1, RefuseMoves DEF Erase, Replies
<1>5. DeletedKey(u) \in Keys
  BY <1>3, AccountsAssumption DEF OwnKeys
<1>6. Typed'
  <2>1. status' \in [Users -> Statuses]
    BY <1>1, <1>2 DEF Typed, AccountsTypeOK, Statuses
  <2>2. balance' \in [Users -> Nat]
    <3>1. balance[u] \in Nat /\ balance[u] - n \in Nat
      BY <1>1, <1>2, <1>3 DEF Held, Typed, AccountsTypeOK
    <3> QED
      BY <1>1, <1>2, <3>1 DEF Typed, AccountsTypeOK
  <2>3. entries' \subseteq [user : Users, key : Keys, amount : Int]
    BY <1>1, <1>2, <1>3, <1>5 DEF Typed, AccountsTypeOK
  <2>4. /\ username' \in [Users -> Names \union {None}]
        /\ \A v, w \in Users : username'[v] = username'[w] => v = w \/ username'[v] = None
    BY <1>1, <1>2 DEF Typed, AccountsTypeOK
  <2> QED
    BY <1>1, <1>2, <1>4, <2>1, <2>2, <2>3, <2>4, LocksTyped DEF Typed, AccountsTypeOK
<1>7. ASSUME NEW q \in Requests \ {r} PROVE Spares(q)
  <2>1. pc'[q] = pc[q] /\ req'[q] = req[q]
    BY <1>1, <1>4 DEF Moves, Typed
  <2>2. \A v \in Users : RewardedBy(v)' = RewardedBy(v)
    BY <1>2 DEF RewardedBy
  <2>3. \A m \in Names, v \in Users : keyOwner[NameKey(m)] = q /\ username'[v] = m => username[v] = m
    BY <1>1, <1>2, AccountsAssumption DEF Typed, AccountsTypeOK
  <2>4. ASSUME NEW v \in Users, rowOwner[v] = q PROVE balance'[v] = balance[v]
    BY <1>1, <1>2, <1>3, <2>4, AccountsAssumption DEF Typed, AccountsTypeOK
  <2>5. \A v \in Users : status[v] = "deleted" => status'[v] = "deleted"
    BY <1>1, <1>2 DEF Typed, AccountsTypeOK
  <2> QED
    BY <1>1, <1>2, <1>4, <2>1, <2>2, <2>3, <2>4, <2>5, LocksStay DEF Spares, Moves
<1>8. ASSUME NEW v \in Users PROVE Unclaimed(v)'
  <2>1. Unclaimed(v) /\ DeletedKey(u) \notin {SignupKey(v), InviteeKey(v), InviterKey(v)}
    BY KeysDiffer DEF IInv
  <2>2. \A e \in entries' : e \in entries \/ e.key = DeletedKey(u)
    BY <1>2
  <2> QED
    BY <1>2, <2>1, <2>2 DEF Unclaimed
<1> QED
  BY <1>4, <1>6, <1>7, <1>8

-----------------------------------------------------------------------------
(* The invariant *)

\* The rest of the server: posts to rows nobody holds, and moves of the status.
LEMMA OthersHold ==
  ASSUME IInv, \/ \E p \in OtherPosts : OtherPost(p)
               \/ \E u \in Users : MoveAccount(u)
               \/ UNCHANGED vars
  PROVE  IInv'
<1>1. /\ UNCHANGED <<username, claimed, bonusClaims, referral, bonusVia, rowOwner, keyOwner, pc, req>> /\ Typed
      /\ \A u \in Users : status[u] = "deleted" => status'[u] = "deleted"
  BY DEF OtherPost, MoveAccount, Suspend, Unsuspend, Move, Post, vars, rowVars, userVars, bookVars,
    lockVars,
    IInv, Typed, AccountsTypeOK
<1>2. /\ status' \in [Users -> Statuses] /\ balance' \in [Users -> Nat]
      /\ entries' \subseteq [user : Users, key : Keys, amount : Int]
      /\ \A v \in Users : rowOwner[v] # Nobody => balance'[v] = balance[v]
      /\ \A e \in entries' : e \in entries \/ e.key \notin OwnKeys
  <2>1. ASSUME NEW p \in OtherPosts, OtherPost(p)
        PROVE  /\ status' \in [Users -> Statuses] /\ balance' \in [Users -> Nat]
               /\ entries' \subseteq [user : Users, key : Keys, amount : Int]
               /\ \A v \in Users : rowOwner[v] # Nobody => balance'[v] = balance[v]
               /\ \A e \in entries' : e \in entries \/ e.key \notin OwnKeys
    <3>1. p.user \in Users /\ p.key \in Keys /\ p.key \notin OwnKeys /\ p.amount \in Int
      BY AccountsAssumption
    <3>2. /\ rowOwner[p.user] = Nobody /\ UNCHANGED status
          /\ balance' = [balance EXCEPT ![p.user] = @ + p.amount]
          /\ entries' = entries \union {[user |-> p.user, key |-> p.key, amount |-> p.amount]}
          /\ p.amount < 0 => balance[p.user] >= -p.amount
      BY <2>1 DEF OtherPost, Post, Accepts
    <3>3. balance[p.user] + p.amount \in Nat
      BY <1>1, <3>1, <3>2 DEF Typed, AccountsTypeOK
    <3> QED
      BY <1>1, <3>1, <3>2, <3>3 DEF Typed, AccountsTypeOK
  <2>2. ASSUME NEW u \in Users, MoveAccount(u)
        PROVE  status' \in [Users -> Statuses] /\ UNCHANGED <<balance, entries>>
    BY <1>1, <2>2 DEF MoveAccount, Suspend, Unsuspend, Move, Statuses, Typed, AccountsTypeOK
  <2> QED
    BY <1>1, <2>1, <2>2 DEF vars, rowVars, userVars, bookVars, Typed, AccountsTypeOK
<1>3. Typed'
  BY <1>1, <1>2 DEF Typed, AccountsTypeOK
<1>4. ASSUME NEW q \in Requests PROVE Own(q)' /\ Held(q)'
  <2>1. \A u \in Users : RewardedBy(u)' = RewardedBy(u)
    BY <1>1 DEF RewardedBy
  <2>2. Spares(q)
    BY <1>1, <1>2, <2>1, AccountsAssumption DEF Spares
  <2> QED
    BY <1>1, <2>2, SparedHolds DEF IInv
<1>5. ASSUME NEW v \in Users PROVE Unclaimed(v)'
  <2>1. Unclaimed(v) /\ {SignupKey(v), InviteeKey(v), InviterKey(v)} \subseteq OwnKeys
    BY DEF IInv, OwnKeys
  <2> QED
    BY <1>1, <1>2, <2>1 DEF Unclaimed
<1> QED
  BY <1>3, <1>4, <1>5 DEF IInv

\* A commit that changes no row has been refused.
LEMMA CommitRefused ==
  ASSUME IInv, NEW r \in Requests, CommitClaim(r), UNCHANGED rowVars
  PROVE  Refuse(r, "refused")
<1> SUFFICES ASSUME ~Refuse(r, "refused") PROVE FALSE
  OBVIOUS
<1>1. claimed' = [claimed EXCEPT ![req[r].user] = TRUE] /\ pc[r] = "commit"
  BY DEF CommitClaim, At
<1>2. req[r].user \in Users /\ ~claimed[req[r].user] /\ claimed \in [Users -> BOOLEAN]
  BY <1>1 DEF IInv, Typed, AccountsTypeOK, Own, Held, Steps, ClaimSteps, ClaimTx
<1>3. claimed'[req[r].user]
  BY <1>1, <1>2, Zenon
<1> QED
  BY <1>2, <1>3 DEF rowVars, userVars

LEMMA NextKeeps == IInv /\ [AccountsNext]_vars => IInv'
<1> SUFFICES ASSUME IInv, [AccountsNext]_vars PROVE IInv'
  OBVIOUS
<1>1. ASSUME NEW r \in Requests, Typed', Own(r)', Held(r)', \A q \in Requests \ {r} : Spares(q),
             \A v \in Users : Unclaimed(v)'
      PROVE  IInv'
  <2>1. ASSUME NEW q \in Requests PROVE Own(q)' /\ Held(q)'
    BY <1>1, SparedHolds DEF IInv
  <2> QED
    BY <1>1, <2>1 DEF IInv
<1>2. ASSUME NEW r \in Requests, Moves(r), Own(r)', Held(r)', UNCHANGED rowVars
      PROVE  IInv'
  <2>1. Typed' /\ \A q \in Requests \ {r} : Spares(q)
    BY <1>2, QuietStep DEF IInv
  <2>2. \A v \in Users : Unclaimed(v)'
    BY <1>2 DEF IInv, Unclaimed, rowVars, userVars, bookVars
  <2> QED
    BY <1>1, <1>2, <2>1, <2>2
<1>3. ASSUME NEW r \in Requests, CommitClaim(r), UNCHANGED rowVars
      PROVE  Moves(r) /\ Own(r)' /\ Held(r)'
  <2>1. Refuse(r, "refused")
    BY <1>3, CommitRefused
  <2> QED
    BY <2>1, RefuseMoves DEF IInv, Replies
<1>4. ASSUME NEW r \in Requests, Step(r) PROVE IInv'
  <2>1. Typed /\ Own(r) /\ Held(r)
    BY DEF IInv
  <2>2. CASE ReadUser(r) \/ CheckName(r) \/ FindInviter(r) \/ Eligibility(r) \/ ReadAccount(r)
    BY <1>2, <2>1, <2>2, ReadsHold
  <2>3. CASE SetName(r) \/ TakeName(r) \/ TakeBonus(r) \/ Whose(r) \/ LockInviter(r) \/ CountReferrals(r)
    BY <1>2, <2>1, <2>3, ClaimHolds
  <2>4. CASE RenameRow(r) \/ Forfeit(r)
    BY <1>2, <2>1, <2>4, RestHolds
  <2>5. CASE CommitClaim(r)
    BY <1>1, <1>2, <1>3, <2>5, CommitHolds
  <2>6. CASE Rename(r)
    BY <1>1, <2>6, RenameHolds
  <2>7. CASE Erase(r)
    BY <1>1, <2>7, EraseHolds
  <2> QED
    BY <1>4, <2>2, <2>3, <2>4, <2>5, <2>6, <2>7 DEF Step
<1>5. ASSUME NEW r \in Requests,
             \/ \E c \in ClaimInputs : StartClaim(r, c)
             \/ \E x \in RenameInputs : StartRename(r, x)
             \/ \E u \in Users : StartDelete(r, u)
      PROVE  IInv'
  BY <1>2, <1>5, StartsHold DEF IInv
<1>6. ASSUME NEW r \in Requests, Deadlock(r) \/ Cut(r) PROVE IInv'
  BY <1>2, <1>6, RestHolds DEF IInv
<1> QED
  BY <1>4, <1>5, <1>6, OthersHold DEF AccountsNext

LEMMA InitOK == AccountsInit => IInv
<1> SUFFICES ASSUME AccountsInit PROVE IInv
  OBVIOUS
<1>1. NoReferral \in [inviter : Users \union {None},
                      outcome : {"none", "rewarded", "inviter_capped", "invitee_ineligible"}]
  BY DEF NoReferral
<1>2. NoLocals \in Locals
  BY DEF NoLocals, Locals
<1>3. Typed
  BY <1>1, <1>2 DEF AccountsInit, Init, Typed, AccountsTypeOK, Statuses, Replies
<1>4. \A r \in Requests : pc[r] = "idle"
  BY DEF AccountsInit
<1>5. \A r \in Requests : Own(r) /\ Held(r)
  BY <1>4 DEF Own, Held, Steps, ClaimSteps, ClaimTx, HasName
<1>6. \A u \in Users : Unclaimed(u)
  BY DEF AccountsInit, Init, Unclaimed
<1> QED
  BY <1>3, <1>5, <1>6 DEF IInv

-----------------------------------------------------------------------------
(* What commits give *)

\* Only the commit of a claim marks an account claimed, pays for it or counts it.
LEMMA OnlyCommitsGive ==
  ASSUME IInv, [AccountsNext]_vars, \A r \in Requests : CommitClaim(r) => UNCHANGED rowVars
  PROVE  /\ UNCHANGED <<claimed, bonusClaims, referral, bonusVia>>
         /\ entries \subseteq entries'
         /\ \A e \in entries' \ entries, u \in Users : e.key \notin {SignupKey(u), InviteeKey(u), InviterKey(u)}
<1>1. CASE UNCHANGED rowVars
  BY <1>1 DEF rowVars, userVars, bookVars
<1>2. ASSUME NEW r \in Requests, Rename(r)
      PROVE  UNCHANGED <<claimed, bonusClaims, referral, bonusVia, entries>>
  BY <1>2 DEF Rename, bookVars
<1>3. ASSUME NEW r \in Requests, Erase(r)
      PROVE  /\ UNCHANGED <<claimed, bonusClaims, referral, bonusVia>>
             /\ entries \subseteq entries'
             /\ \A e \in entries' \ entries : \E u \in Users : e.key = DeletedKey(u)
  <2>1. req[r].user \in Users
    BY <1>3 DEF Erase, At, IInv, Own, Steps
  <2> QED
    BY <1>3, <2>1 DEF Erase
<1>4. ASSUME NEW p \in OtherPosts, OtherPost(p)
      PROVE  /\ UNCHANGED <<claimed, bonusClaims, referral, bonusVia>>
             /\ entries \subseteq entries'
             /\ \A e \in entries' \ entries : e.key \notin OwnKeys
  BY <1>4, AccountsAssumption DEF OtherPost, Post
<1>5. ASSUME NEW u \in Users, MoveAccount(u)
      PROVE  UNCHANGED <<claimed, bonusClaims, referral, bonusVia, entries>>
  BY <1>5 DEF MoveAccount, Suspend, Unsuspend, Move
<1>6. \A u, v \in Users : DeletedKey(u) \notin {SignupKey(v), InviteeKey(v), InviterKey(v)}
  BY KeysDiffer
<1>7. \A v \in Users : {SignupKey(v), InviteeKey(v), InviterKey(v)} \subseteq OwnKeys
  BY DEF OwnKeys
<1>8. ASSUME NEW r \in Requests, Step(r), ~UNCHANGED rowVars PROVE Rename(r) \/ Erase(r)
  BY <1>8 DEF Step, ReadUser, CheckName, FindInviter, Eligibility, SetName, TakeName, TakeBonus,
    Whose, LockInviter,
    CountReferrals, RenameRow, ReadAccount, Forfeit
<1>9. ASSUME NEW r \in Requests,
             \/ \E c \in ClaimInputs : StartClaim(r, c)
             \/ \E x \in RenameInputs : StartRename(r, x)
             \/ \E u \in Users : StartDelete(r, u)
             \/ Deadlock(r) \/ Cut(r)
      PROVE  UNCHANGED rowVars
  BY <1>9 DEF StartClaim, StartRename, StartDelete, Deadlock, Cut
<1>10. CASE \E r \in Requests : Rename(r)
  BY <1>2, <1>10
<1>11. CASE \E r \in Requests : Erase(r)
  BY <1>3, <1>6, <1>11
<1>12. CASE \E p \in OtherPosts : OtherPost(p)
  BY <1>4, <1>7, <1>12
<1>13. CASE \E u \in Users : MoveAccount(u)
  BY <1>5, <1>13
<1> QED
  BY <1>1, <1>8, <1>9, <1>10, <1>11, <1>12, <1>13 DEF AccountsNext, vars

\* The awards a commit posts, by key.
LEMMA AwardsPosted ==
  ASSUME IInv, NEW r \in Requests, CommitClaim(r), ~UNCHANGED rowVars, NEW u, u = req[r].user
  PROVE  /\ \A e \in Awards(r) : e.key \in {SignupKey(u), InviteeKey(u), InviterKey(u)}
         /\ (\E e \in Awards(r) : e.key = SignupKey(u)) <=> req[r].bonus = "granted" /\ SignupBonus > 0
         /\ \A v : [user |-> v, key |-> InviterKey(u), amount |-> InviterCredits] \in Awards(r) <=>
              /\ v = req[r].inviter /\ req[r].inviter # None /\ req[r].outcome = "rewarded"
              /\ InviterCredits > 0
<1>1. \A e \in Awards(r) : e \in {SignupAward(r), InviteeAward(r), InviterAward(r)}
  BY CommitPosts
<1>2. SignupAward(r).key = SignupKey(u) /\ InviteeAward(r).key = InviteeKey(u) /\ InviterAward(r).key = InviterKey(u)
  BY DEF SignupAward, InviteeAward, InviterAward
<1>3. SignupAward(r) # InviteeAward(r) /\ SignupAward(r) # InviterAward(r) /\ InviteeAward(r) # InviterAward(r)
  BY <1>2, KeysDiffer
<1>4. SignupAward(r) \in Awards(r) <=> req[r].bonus = "granted" /\ SignupBonus > 0
  <2>1. SignupAward(r).amount = SignupBonus
    BY DEF SignupAward
  <2> QED
    BY <1>3, <2>1 DEF Awards
<1>5. InviterAward(r) \in Awards(r) <=>
        req[r].inviter # None /\ req[r].outcome = "rewarded" /\ InviterCredits > 0
  <2>1. InviterAward(r).amount = InviterCredits
    BY DEF InviterAward
  <2> QED
    BY <1>3, <2>1 DEF Awards, InviterPaid
<1>6. \A e \in Awards(r) : (e.key = SignupKey(u) => e = SignupAward(r)) /\ (e.key = InviterKey(u) => e = InviterAward(r))
  BY <1>1, <1>2, KeysDiffer
<1>7. \A v : [user |-> v, key |-> InviterKey(u), amount |-> InviterCredits] = InviterAward(r) <=> v = req[r].inviter
  BY DEF InviterAward
<1>8. \A v : [user |-> v, key |-> InviterKey(u), amount |-> InviterCredits].key = InviterKey(u)
  OBVIOUS
<1>9. \A v : [user |-> v, key |-> InviterKey(u), amount |-> InviterCredits] \in Awards(r) =>
               [user |-> v, key |-> InviterKey(u), amount |-> InviterCredits] = InviterAward(r)
  BY <1>6, <1>8
<1> QED
  BY <1>1, <1>2, <1>4, <1>5, <1>6, <1>7, <1>9

LEMMA BonusNext ==
  ASSUME SignupBonus > 0, IInv, KeysKept, BonusOncePerIdentity, [AccountsNext]_vars
  PROVE  KeysKept' /\ BonusOncePerIdentity'
<1>1. CASE UNCHANGED <<bonusClaims, bonusVia>>
  BY <1>1 DEF KeysKept, BonusOncePerIdentity
<1>2. ASSUME NEW r \in Requests, CommitClaim(r), ~UNCHANGED rowVars
      PROVE  KeysKept' /\ BonusOncePerIdentity'
  <2> SUFFICES ASSUME NEW u, u = req[r].user, NEW i, i = req[r].install
               PROVE  KeysKept' /\ BonusOncePerIdentity'
    OBVIOUS
  <2>1. /\ u \in Users /\ i \in Installs /\ pc[r] = "commit"
        /\ bonusClaims' = bonusClaims \union {k \in BonusKeys(r) : keyOwner[k] = r}
        /\ bonusVia' = IF req[r].bonus = "granted" THEN [bonusVia EXCEPT ![u] = i] ELSE bonusVia
    BY <1>2, CommitSets
  <2>2. CASE req[r].bonus # "granted"
    BY <2>1, <2>2 DEF KeysKept, BonusOncePerIdentity
  <2>3. CASE req[r].bonus = "granted"
    <3>1. status[u] # "deleted"
      <4>1. SignupAward(r).user = u
        BY DEF SignupAward
      <4>2. PICK e \in Awards(r) : e.key = SignupKey(u)
        BY <1>2, <2>3, AwardsPosted
      <4>3. e = SignupAward(r)
        BY <1>2, <4>2, CommitPosts, KeysDiffer DEF InviteeAward, InviterAward
      <4> QED
        BY <1>2, <4>1, <4>2, <4>3, CommitPosts
    <3>2. req[r].email
      BY <2>1, <3>1 DEF IInv, Held, Steps, ClaimSteps, ClaimTx
    <3>3. /\ keyOwner[EmailKey(u)] = r /\ EmailKey(u) \notin bonusClaims
          /\ keyOwner[InstallKey(i)] = r /\ InstallKey(i) \notin bonusClaims
      BY <2>1, <2>3, <3>2 DEF IInv, Held
    <3>4. EmailKey(u) \in bonusClaims' /\ InstallKey(i) \in bonusClaims'
      BY <2>1, <3>2, <3>3 DEF BonusKeys
    <3>5. bonusVia'[u] = i /\ \A v \in Users \ {u} : bonusVia'[v] = bonusVia[v]
      BY <2>1, <2>3 DEF IInv, Typed
    <3>6. \A v \in Users \ {u} : bonusVia[v] # None => bonusVia[v] # i /\ EmailOf[v] # EmailOf[u]
      BY <3>3 DEF KeysKept, EmailKey
    <3>7. KeysKept'
      BY <2>1, <3>4, <3>5 DEF KeysKept, EmailKey, InstallKey
    <3>8. BonusOncePerIdentity'
      BY <3>5, <3>6 DEF BonusOncePerIdentity
    <3> QED
      BY <3>7, <3>8
  <2> QED
    BY <2>2, <2>3
<1> QED
  BY <1>1, <1>2, OnlyCommitsGive

\* The invitees an inviter was paid for.
PaidFor(i) == {u \in Users : [user |-> i, key |-> InviterKey(u), amount |-> InviterCredits] \in entries}

\* An inviter's count is below the cap when a commit adds to it, because the
\* inviter's row is held from the count to the commit.
LEMMA CapNext ==
  ASSUME InviterCredits > 0, IInv, ReferralCapHolds, [AccountsNext]_vars
  PROVE  ReferralCapHolds'
<1> SUFFICES ASSUME NEW i \in Users
             PROVE  PaidFor(i)' = RewardedBy(i)' /\ Cardinality(RewardedBy(i)') <= ReferralCapCount
  BY DEF ReferralCapHolds, PaidFor
<1>1. PaidFor(i) = RewardedBy(i) /\ Cardinality(RewardedBy(i)) <= ReferralCapCount
  BY DEF ReferralCapHolds, PaidFor
<1>2. CASE \A r \in Requests : CommitClaim(r) => UNCHANGED rowVars
  <2>1. /\ UNCHANGED referral /\ entries \subseteq entries'
        /\ \A e \in entries' \ entries, u \in Users : e.key # InviterKey(u)
    BY <1>2, OnlyCommitsGive
  <2>2. RewardedBy(i)' = RewardedBy(i)
    BY <2>1 DEF RewardedBy
  <2>3. PaidFor(i)' = PaidFor(i)
    <3>1. ASSUME NEW u \in Users, NEW e, e = [user |-> i, key |-> InviterKey(u), amount |-> InviterCredits]
          PROVE  e \in entries' <=> e \in entries
      BY <2>1, <3>1
    <3> QED
      BY <3>1 DEF PaidFor, InviterKey
  <2> QED
    BY <1>1, <2>2, <2>3
<1>3. ASSUME NEW r \in Requests, CommitClaim(r), ~UNCHANGED rowVars
      PROVE  PaidFor(i)' = RewardedBy(i)' /\ Cardinality(RewardedBy(i)') <= ReferralCapCount
  <2> SUFFICES ASSUME NEW u, u = req[r].user, NEW j, j = req[r].inviter
               PROVE  PaidFor(i)' = RewardedBy(i)' /\ Cardinality(RewardedBy(i)') <= ReferralCapCount
    OBVIOUS
  <2> DEFINE more == i = j /\ req[r].outcome = "rewarded"
  <2>1. u \in Users /\ pc[r] = "commit" /\ ~claimed[u] /\ Unclaimed(u)
    BY <1>3, CommitSets
  <2>2. RewardedBy(i)' = IF more THEN RewardedBy(i) \union {u} ELSE RewardedBy(i)
    BY <1>3, CommitRewards
  <2>3. entries' = entries \union Awards(r)
    BY <1>3, CommitPosts
  <2>4. ASSUME NEW v \in Users, NEW e, e = [user |-> i, key |-> InviterKey(v), amount |-> InviterCredits]
        PROVE  e \in Awards(r) <=> v = u /\ more
    <3>1. e.key = InviterKey(v)
      BY <2>4
    <3>2. e \in Awards(r) => v = u
      BY <1>3, <3>1, AwardsPosted, KeysDiffer
    <3>3. i # None
      BY AccountsAssumption
    <3>4. v = u => (e \in Awards(r) <=> more)
      BY <1>3, <2>4, <3>3, AwardsPosted
    <3> QED
      BY <3>2, <3>4
  <2> HIDE DEF more
  <2>5. PaidFor(i)' = IF more THEN PaidFor(i) \union {u} ELSE PaidFor(i)
    <3>1. PaidFor(i)' = {v \in Users : [user |-> i, key |-> InviterKey(v), amount |-> InviterCredits] \in entries'}
      BY DEF PaidFor, InviterKey
    <3> QED
      BY <2>1, <2>3, <2>4, <3>1 DEF PaidFor
  <2>6. Cardinality(RewardedBy(i)') <= ReferralCapCount
    <3>1. CASE ~more
      BY <1>1, <2>2, <3>1
    <3>2. CASE more
      <4>1. Cardinality(RewardedBy(i)) < ReferralCapCount
        BY <2>1, <3>2 DEF more, IInv, Held
      <4>2. RewardedBy(i) \subseteq Users /\ IsFiniteSet(Users) /\ ReferralCapCount \in Nat
        BY AccountsAssumption DEF RewardedBy
      <4>3. IsFiniteSet(RewardedBy(i))
        BY <4>2, FS_Subset
      <4>4. u \notin RewardedBy(i)
        <5>1. referral[u].outcome = "none"
          BY <2>1 DEF Unclaimed, NoReferral
        <5> QED
          BY <5>1 DEF RewardedBy
      <4>5. Cardinality(RewardedBy(i) \union {u}) = Cardinality(RewardedBy(i)) + 1
        BY <4>3, <4>4, FS_AddElement
      <4>6. Cardinality(RewardedBy(i)) \in Nat
        BY <4>3, FS_CardinalityType
      <4> QED
        BY <2>2, <3>2, <4>1, <4>2, <4>5, <4>6
    <3> QED
      BY <3>1, <3>2
  <2> QED
    BY <1>1, <2>2, <2>5, <2>6
<1> QED
  BY <1>2, <1>3

\* No other statement of a request answers that its claim is made, and none
\* touches what another request has answered.
LEMMA OnlyCommitsAnswer ==
  ASSUME IInv, [AccountsNext]_vars, NEW q \in Requests, pc'[q] = "claimed"
  PROVE  \/ pc[q] = "claimed" /\ req'[q] = req[q]
         \/ CommitClaim(q) /\ ~UNCHANGED rowVars
<1>1. ASSUME NEW r \in Requests, Moves(r), r = q => pc'[r] # "claimed"
      PROVE  pc[q] = "claimed" /\ req'[q] = req[q]
  BY <1>1 DEF Moves, IInv, Typed
<1>2. \A r \in Requests : Own(r) /\ Held(r) /\ Typed
  BY DEF IInv
<1>3. ASSUME NEW r \in Requests, NEW answer \in Replies \ {"claimed"}, Refuse(r, answer)
      PROVE  pc'[r] # "claimed"
  BY <1>3 DEF Refuse, Reply, Goto, IInv, Typed
<1>4. ASSUME NEW r \in Requests, NEW step, step # "claimed", Goto(r, step) PROVE pc'[r] # "claimed"
  BY <1>4 DEF Goto, IInv, Typed
<1>5. {"refused", "ALREADY_CLAIMED", "USERNAME_TAKEN", "failed", "renamed", "gone", "idle"} \subseteq Replies \ {"claimed"}
  BY DEF Replies
<1>6. ASSUME NEW r \in Requests,
             \/ \E c \in ClaimInputs : StartClaim(r, c)
             \/ \E x \in RenameInputs : StartRename(r, x)
             \/ \E u \in Users : StartDelete(r, u)
      PROVE  pc[q] = "claimed" /\ req'[q] = req[q]
  <2>1. pc'[r] # "claimed"
    BY <1>4, <1>6 DEF StartClaim, StartRename, StartDelete
  <2> QED
    BY <1>1, <1>2, <1>6, <2>1, StartsHold
<1>7. ASSUME NEW r \in Requests,
             ReadUser(r) \/ CheckName(r) \/ FindInviter(r) \/ Eligibility(r) \/ ReadAccount(r)
      PROVE  pc[q] = "claimed" /\ req'[q] = req[q]
  <2>1. pc'[r] # "claimed"
    BY <1>3, <1>4, <1>5, <1>7 DEF ReadUser, CheckName, FindInviter, Eligibility, ReadAccount
  <2> QED
    BY <1>1, <1>2, <1>7, <2>1, ReadsHold
<1>8. ASSUME NEW r \in Requests,
             SetName(r) \/ TakeName(r) \/ TakeBonus(r) \/ Whose(r) \/ LockInviter(r) \/ CountReferrals(r)
      PROVE  pc[q] = "claimed" /\ req'[q] = req[q]
  <2>1. AfterName(r) # "claimed" /\ AfterBonus(r) # "claimed"
    BY DEF AfterName, AfterBonus
  <2>2. Violation(r) => pc'[r] # "claimed"
    BY <1>4 DEF Violation
  <2>3. pc'[r] # "claimed"
    BY <1>3, <1>4, <1>5, <1>8, <2>1, <2>2 DEF SetName, TakeName, TakeBonus, Whose, LockInviter,
      CountReferrals
  <2> QED
    BY <1>1, <1>2, <1>8, <2>3, ClaimHolds
<1>9. ASSUME NEW r \in Requests, RenameRow(r) \/ Forfeit(r) \/ Deadlock(r) \/ Cut(r)
      PROVE  pc[q] = "claimed" /\ req'[q] = req[q]
  <2>1. pc'[r] # "claimed"
    BY <1>3, <1>4, <1>5, <1>9 DEF RenameRow, Forfeit, Deadlock, Cut
  <2> QED
    BY <1>1, <1>2, <1>9, <2>1, RestHolds
<1>10. ASSUME NEW r \in Requests, Rename(r) \/ Erase(r)
       PROVE  pc[q] = "claimed" /\ req'[q] = req[q]
  <2>1. pc'[r] # "claimed"
    BY <1>3, <1>5, <1>10 DEF Rename, Erase
  <2>2. Spares(q) \/ q = r
    BY <1>10, RenameHolds, EraseHolds
  <2> QED
    BY <2>1, <2>2 DEF Spares
<1>11. ASSUME NEW r \in Requests, CommitClaim(r)
       PROVE  \/ pc[q] = "claimed" /\ req'[q] = req[q]
              \/ CommitClaim(q) /\ ~UNCHANGED rowVars
  <2>1. CASE UNCHANGED rowVars
    <3>1. Refuse(r, "refused")
      BY <1>11, <2>1, CommitRefused
    <3> QED
      BY <1>1, <1>2, <1>3, <1>5, <3>1, RefuseMoves
  <2>2. CASE ~UNCHANGED rowVars
    <3>1. Spares(q) \/ q = r
      BY <1>11, <2>2, CommitHolds
    <3> QED
      BY <1>11, <2>2, <3>1 DEF Spares
  <2> QED
    BY <2>1, <2>2
<1>12. CASE \/ \E p \in OtherPosts : OtherPost(p)
            \/ \E u \in Users : MoveAccount(u)
            \/ UNCHANGED vars
  BY <1>12 DEF OtherPost, MoveAccount, vars
<1> QED
  BY <1>6, <1>7, <1>8, <1>9, <1>10, <1>11, <1>12 DEF AccountsNext, Step

LEMMA AnswersNext ==
  ASSUME SignupBonus > 0, IInv, ClaimAnswersAreTrue, [AccountsNext]_vars
  PROVE  ClaimAnswersAreTrue'
<1> SUFFICES ASSUME NEW q \in Requests, pc'[q] = "claimed", NEW u, u = req'[q].user
             PROVE  claimed'[u] /\ (Posted(SignupKey(u))' <=> req'[q].bonus = "granted")
  BY DEF ClaimAnswersAreTrue, Posted, SignupKey
<1>1. Posted(SignupKey(u))' <=> \E e \in entries' : e.key = SignupKey(u)
  BY DEF Posted, SignupKey
<1>2. ASSUME pc[q] = "claimed", req'[q] = req[q]
      PROVE  claimed'[u] /\ (Posted(SignupKey(u))' <=> req'[q].bonus = "granted")
  <2>1. /\ u \in Users /\ claimed[u]
        /\ (\E e \in entries : e.key = SignupKey(u)) <=> req[q].bonus = "granted"
    BY <1>2 DEF ClaimAnswersAreTrue, Posted, IInv, Own
  <2>2. CASE \A r \in Requests : CommitClaim(r) => UNCHANGED rowVars
    <3>1. /\ UNCHANGED claimed /\ entries \subseteq entries'
          /\ \A e \in entries' \ entries : e.key # SignupKey(u)
      BY <2>1, <2>2, OnlyCommitsGive
    <3> QED
      BY <1>1, <1>2, <2>1, <3>1
  <2>3. ASSUME NEW r \in Requests, CommitClaim(r), ~UNCHANGED rowVars
        PROVE  claimed'[u] /\ (Posted(SignupKey(u))' <=> req'[q].bonus = "granted")
    <3> SUFFICES ASSUME NEW v, v = req[r].user
                 PROVE  claimed'[u] /\ (Posted(SignupKey(u))' <=> req'[q].bonus = "granted")
      OBVIOUS
    <3>1. v \in Users /\ ~claimed[v] /\ claimed' = [claimed EXCEPT ![v] = TRUE]
      BY <2>3, CommitSets
    <3>2. entries' = entries \union Awards(r) /\ \A e \in Awards(r) : e.key # SignupKey(u)
      BY <2>1, <2>3, <3>1, CommitPosts, AwardsPosted, KeysDiffer
    <3>3. claimed'[u]
      BY <2>1, <3>1 DEF IInv, Typed, AccountsTypeOK
    <3> QED
      BY <1>1, <1>2, <2>1, <3>2, <3>3
  <2> QED
    BY <2>2, <2>3
<1>3. ASSUME CommitClaim(q), ~UNCHANGED rowVars
      PROVE  claimed'[u] /\ (Posted(SignupKey(u))' <=> req'[q].bonus = "granted")
  <2> SUFFICES ASSUME NEW v, v = req[q].user
               PROVE  claimed'[u] /\ (Posted(SignupKey(u))' <=> req'[q].bonus = "granted")
    OBVIOUS
  <2>1. /\ v \in Users /\ ~claimed[v] /\ Unclaimed(v) /\ claimed' = [claimed EXCEPT ![v] = TRUE]
        /\ req' = req
    BY <1>3, CommitSets
  <2>2. u = v
    BY <2>1
  <2>3. claimed'[u]
    BY <2>1, <2>2 DEF IInv, Typed, AccountsTypeOK
  <2>4. /\ entries' = entries \union Awards(q) /\ \A e \in entries : e.key # SignupKey(v)
        /\ (\E e \in Awards(q) : e.key = SignupKey(v)) <=> req[q].bonus = "granted"
    BY <1>3, <2>1, CommitPosts, AwardsPosted DEF Unclaimed
  <2> QED
    BY <1>1, <2>1, <2>2, <2>3, <2>4
<1> QED
  BY <1>2, <1>3, OnlyCommitsAnswer

-----------------------------------------------------------------------------
(* The theorems *)

\* What each request has read, written and locked stays true until its commit,
\* for any number of claims, changes of names, deletions, posts, suspensions,
\* deadlocks and cuts around it.
THEOREM InvariantHolds == AccountsSpec => []IInv
<1>1. AccountsInit => IInv
  BY InitOK
<1>2. IInv /\ [AccountsNext]_vars => IInv'
  BY NextKeeps
<1> QED
  BY <1>1, <1>2, PTL DEF AccountsSpec

\* No balance goes below 0, no two accounts have one username, and only an open
\* transaction holds rows and keys.
THEOREM TypeCorrect == AccountsSpec => []AccountsTypeOK
<1>1. IInv => AccountsTypeOK
  BY DEF IInv, Typed
<1> QED
  BY <1>1, InvariantHolds, PTL

\* "The bonus is once per verified email and once per install": for all accounts
\* and installs, because a paid bonus leaves both BonusClaim keys behind.
THEOREM BonusIsOnce ==
  ASSUME SignupBonus > 0
  PROVE  AccountsSpec => []BonusOncePerIdentity
<1>1. AccountsInit => KeysKept /\ BonusOncePerIdentity
  BY DEF AccountsInit, KeysKept, BonusOncePerIdentity
<1>2. IInv /\ KeysKept /\ BonusOncePerIdentity /\ [AccountsNext]_vars => KeysKept' /\ BonusOncePerIdentity'
  BY BonusNext
<1> QED
  BY <1>1, <1>2, InvariantHolds, PTL DEF AccountsSpec

\* "One inviter's referrals in single file, so the cap holds under concurrency":
\* for any cap and any number of invitees that claim at once.
THEOREM CapIsKept ==
  ASSUME InviterCredits > 0
  PROVE  AccountsSpec => []ReferralCapHolds
<1>1. AccountsInit => ReferralCapHolds
  <2> SUFFICES ASSUME AccountsInit, NEW i \in Users
               PROVE  PaidFor(i) = RewardedBy(i) /\ Cardinality(RewardedBy(i)) <= ReferralCapCount
    BY DEF ReferralCapHolds, PaidFor
  <2>1. PaidFor(i) = {} /\ RewardedBy(i) = {}
    BY DEF AccountsInit, Init, PaidFor, RewardedBy, NoReferral
  <2>2. Cardinality(RewardedBy(i)) = 0
    BY <2>1, FS_EmptySet
  <2>3. ReferralCapCount \in Nat
    BY AccountsAssumption
  <2> QED
    BY <2>1, <2>2, <2>3
<1>2. IInv /\ ReferralCapHolds /\ [AccountsNext]_vars => ReferralCapHolds'
  BY CapNext
<1> QED
  BY <1>1, <1>2, InvariantHolds, PTL DEF AccountsSpec

\* What a claim answers about the bonus is what the ledger has, whichever other
\* claims of the account were under way.
THEOREM AnswersHold ==
  ASSUME SignupBonus > 0
  PROVE  AccountsSpec => []ClaimAnswersAreTrue
<1>1. AccountsInit => ClaimAnswersAreTrue
  BY DEF AccountsInit, ClaimAnswersAreTrue
<1>2. IInv /\ ClaimAnswersAreTrue /\ [AccountsNext]_vars => ClaimAnswersAreTrue'
  BY AnswersNext
<1> QED
  BY <1>1, <1>2, InvariantHolds, PTL DEF AccountsSpec

-----------------------------------------------------------------------------
(* The refinement of Enrolment *)

\* A claim holds the keys of a mailbox and an install only for a bonus.
Bare(r) ==
  req[r].bonus # "granted" =>
    /\ \A u \in Users : keyOwner[EmailKey(u)] # r
    /\ \A i \in Installs : keyOwner[InstallKey(i)] # r

\* The outcome a claim commits is the one its bonus, its inviter and the cap demand.
Decided(r) ==
  pc[r] = "commit" =>
    /\ req[r].outcome = "invitee_ineligible" <=> req[r].inviter = None \/ req[r].bonus # "granted"
    /\ req[r].outcome = "inviter_capped" =>
         Cardinality(RewardedBy(req[r].inviter)) >= ReferralCapCount

\* An inviter has been paid for an invitee whose Referral row says so.
Paid == \A u \in Users : Posted(InviterKey(u)) <=> referral[u].outcome = "rewarded"

Settled == Paid /\ \A r \in Requests : Bare(r) /\ Decided(r)

LEMMA BareStays ==
  ASSUME Typed, NEW r \in Requests, Bare(r),
         \/ Unlock(r)
         \/ UNCHANGED keyOwner /\ (pc[r] \notin InTransaction \/ req'[r].bonus = req[r].bonus)
         \/ req'[r].bonus = "granted"
         \/ /\ \E n \in Names : HoldKey(r, NameKey(n))
            /\ req'[r].bonus = req[r].bonus
  PROVE  Bare(r)'
<1>1. CASE Unlock(r)
  BY <1>1, KeysAreUnique, AccountsAssumption DEF Bare, Unlock, EmailKey, InstallKey
<1>2. CASE UNCHANGED keyOwner /\ req'[r].bonus = req[r].bonus
  BY <1>2 DEF Bare, EmailKey, InstallKey
<1>3. CASE UNCHANGED keyOwner /\ pc[r] \notin InTransaction
  <2>1. \A k \in UniqueKeys : keyOwner[k] # r
    BY <1>3, AccountsAssumption DEF Typed, AccountsTypeOK
  <2> QED
    BY <1>3, <2>1, KeysAreUnique DEF Bare, EmailKey, InstallKey
<1>4. CASE req'[r].bonus = "granted"
  BY <1>4 DEF Bare
<1>5. ASSUME NEW n \in Names, HoldKey(r, NameKey(n)), req'[r].bonus = req[r].bonus
      PROVE  Bare(r)'
  <2>1. ASSUME NEW k \in UniqueKeys, k # NameKey(n) PROVE keyOwner'[k] = keyOwner[k]
    BY <1>5, <2>1 DEF HoldKey, Typed, AccountsTypeOK
  <2>2. (\A u \in Users : EmailKey(u) # NameKey(n)) /\ \A i \in Installs : InstallKey(i) # NameKey(n)
    BY DEF EmailKey, InstallKey, NameKey
  <2> QED
    BY <1>5, <2>1, <2>2, KeysAreUnique DEF Bare, EmailKey, InstallKey
<1> QED
  BY <1>1, <1>2, <1>3, <1>4, <1>5

\* A statement of another request touches neither.
LEMMA SparedSettled ==
  ASSUME Typed, NEW r \in Requests, Locks(r), NEW q \in Requests \ {r},
         Own(q), Held(q), Spares(q), Bare(q), Decided(q)
  PROVE  Bare(q)' /\ Decided(q)'
<1>1. \A k \in UniqueKeys : keyOwner[k] = q <=> keyOwner'[k] = q
  BY LocksStay
<1>2. pc'[q] = pc[q] /\ req'[q] = req[q]
  BY DEF Spares
<1>3. Bare(q)'
  BY <1>1, <1>2, KeysAreUnique DEF Bare, EmailKey, InstallKey
<1>4. Decided(q)'
  <2>1. ASSUME pc[q] = "commit", req[q].outcome = "inviter_capped"
        PROVE  RewardedBy(req[q].inviter)' = RewardedBy(req[q].inviter)
    <3>1. req[q].inviter # None /\ req[q].inviter \in Users \union {None}
      BY <2>1 DEF Own, Typed, Locals
    <3>2. rowOwner[req[q].inviter] = q
      BY <2>1 DEF Held
    <3> QED
      BY <3>1, <3>2 DEF Spares
  <2> QED
    BY <1>2, <2>1 DEF Decided, RewardedBy
<1> QED
  BY <1>3, <1>4

LEMMA RefuseSettles ==
  ASSUME Typed, NEW r \in Requests, NEW answer \in Replies, Refuse(r, answer), Bare(r)
  PROVE  Bare(r)' /\ Decided(r)'
<1>1. Unlock(r) /\ pc'[r] = answer /\ answer # "commit"
  BY DEF Refuse, Reply, Goto, Typed, Replies
<1> QED
  BY <1>1, BareStays DEF Decided

\* The statements that go to no commit.
LEMMA EarlySettles ==
  ASSUME Typed, NEW r \in Requests, Bare(r),
         \/ \E c \in ClaimInputs : StartClaim(r, c)
         \/ \E x \in RenameInputs : StartRename(r, x)
         \/ \E u \in Users : StartDelete(r, u)
         \/ ReadUser(r) \/ CheckName(r) \/ FindInviter(r) \/ Eligibility(r) \/ ReadAccount(r)
         \/ SetName(r) \/ Whose(r) \/ LockInviter(r) \/ RenameRow(r) \/ Forfeit(r)
         \/ Deadlock(r) \/ Cut(r)
  PROVE  Bare(r)' /\ Decided(r)'
<1> USE DEF Goto, At
<1>1. ASSUME NEW answer \in Replies, Refuse(r, answer) PROVE Bare(r)' /\ Decided(r)'
  BY <1>1, RefuseSettles
<1>2. ASSUME UNCHANGED keyOwner, pc[r] \notin InTransaction \/ req' = req, pc'[r] # "commit"
      PROVE  Bare(r)' /\ Decided(r)'
  BY <1>2, BareStays DEF Decided
<1>3. ASSUME NEW step, pc' = [pc EXCEPT ![r] = step] PROVE pc'[r] = step
  BY <1>3 DEF Typed
<1>4. {"refused", "ALREADY_CLAIMED", "USERNAME_TAKEN", "failed", "idle"} \subseteq Replies
  BY DEF Replies
<1>5. \A step \in Replies : step \notin InTransaction
  BY DEF Replies, InTransaction
<1>6. CASE \/ \E c \in ClaimInputs : StartClaim(r, c)
           \/ \E x \in RenameInputs : StartRename(r, x)
           \/ \E u \in Users : StartDelete(r, u)
  BY <1>2, <1>3, <1>5, <1>6 DEF StartClaim, StartRename, StartDelete, lockVars
<1>7. CASE ReadUser(r) \/ CheckName(r) \/ FindInviter(r) \/ Eligibility(r) \/ ReadAccount(r)
  <2>1. pc[r] \notin InTransaction
    BY <1>7 DEF ReadUser, CheckName, FindInviter, Eligibility, ReadAccount, InTransaction
  <2> QED
    BY <1>1, <1>2, <1>3, <1>4, <1>7, <2>1
       DEF ReadUser, CheckName, FindInviter, Eligibility, ReadAccount, lockVars
<1>8. CASE SetName(r) \/ Whose(r) \/ LockInviter(r) \/ RenameRow(r) \/ Forfeit(r)
  <2>1. Whose(r) => pc[r] \notin InTransaction
    BY DEF Whose, InTransaction
  <2> QED
    BY <1>1, <1>2, <1>3, <1>4, <1>8, <2>1
       DEF SetName, Whose, LockInviter, RenameRow, Forfeit, lockVars
<1>9. CASE Deadlock(r) \/ Cut(r)
  BY <1>1, <1>4, <1>9 DEF Deadlock, Cut
<1> QED
  BY <1>6, <1>7, <1>8, <1>9

\* The statements after which a claim may commit.
LEMMA LateSettles ==
  ASSUME Typed, NEW r \in Requests, Own(r), Held(r), Bare(r),
         TakeName(r) \/ TakeBonus(r) \/ CountReferrals(r)
  PROVE  Bare(r)' /\ Decided(r)'
<1> USE DEF Goto, At
<1>1. ASSUME Violation(r) PROVE Bare(r)' /\ Decided(r)'
  <2>1. Unlock(r) /\ pc'[r] # "commit"
    BY <1>1 DEF Violation, Typed
  <2> QED
    BY <2>1, BareStays DEF Decided
<1>2. CASE TakeName(r) /\ ~NameTaken(r)
  <2>1. /\ pc[r] = "takeName" /\ pc' = [pc EXCEPT ![r] = AfterName(r)] /\ UNCHANGED <<req, referral>>
        /\ HoldKey(r, NextKey(r))
    BY <1>2 DEF TakeName, rowVars
  <2>2. NextKey(r) = NameKey(req[r].name) /\ req[r].name \in Names
    BY <2>1 DEF NextKey, Own, ClaimSteps, ClaimTx
  <2>3. Bare(r)'
    BY <2>1, <2>2, BareStays
  <2>4. pc'[r] = "commit" => req[r].bonus # "granted"
    BY <2>1 DEF AfterName, Typed
  <2>5. req[r].outcome = "invitee_ineligible"
    BY <2>1 DEF Own, Steps, ClaimSteps, ClaimTx
  <2> QED
    BY <2>1, <2>3, <2>4, <2>5 DEF Decided
<1>3. CASE TakeBonus(r) /\ ~BonusTaken(r)
  <2>1. /\ pc[r] \in {"takeEmail", "takeInstall"} /\ UNCHANGED req
        /\ pc' = [pc EXCEPT ![r] = IF pc[r] = "takeEmail" THEN "takeInstall" ELSE AfterBonus(r)]
    BY <1>3 DEF TakeBonus
  <2>2. req[r].bonus = "granted" /\ req[r].outcome = "invitee_ineligible"
    BY <2>1 DEF Own, Steps, ClaimSteps, ClaimTx
  <2>3. Bare(r)'
    BY <2>1, <2>2, BareStays
  <2>4. pc'[r] = "commit" => req[r].inviter = None
    BY <2>1, <2>2 DEF AfterBonus, Typed
  <2> QED
    BY <2>1, <2>2, <2>3, <2>4 DEF Decided
<1>4. CASE CountReferrals(r)
  <2> SUFFICES ASSUME NEW i, i = req[r].inviter PROVE Bare(r)' /\ Decided(r)'
    OBVIOUS
  <2> DEFINE o == IF Cardinality(RewardedBy(i)) >= ReferralCapCount THEN "inviter_capped" ELSE "rewarded"
  <2>1. /\ pc[r] = "count" /\ UNCHANGED <<keyOwner, referral>>
        /\ req' = [req EXCEPT ![r].outcome = o]
    BY <1>4 DEF CountReferrals, lockVars, rowVars
  <2>2. /\ req'[r].outcome = o /\ req'[r].inviter = i /\ req'[r].bonus = req[r].bonus
    BY <2>1 DEF Typed, Locals
  <2>3. req[r].bonus = "granted" /\ i # None
    BY <2>1 DEF Own
  <2>4. Bare(r)'
    BY <2>2, <2>3, BareStays
  <2>5. RewardedBy(i)' = RewardedBy(i)
    BY <2>1 DEF RewardedBy
  <2> QED
    BY <2>2, <2>3, <2>4, <2>5 DEF Decided
<1> QED
  BY <1>1, <1>2, <1>3, <1>4 DEF TakeName, TakeBonus

\* What a commit leaves behind, by key: a bonus takes both keys of the identity,
\* and all three posts of a claim go with the bonus.
LEMMA CommitGives ==
  ASSUME SignupBonus > 0, InviteeCredits > 0, InviterCredits > 0, IInv,
         NEW r \in Requests, Bare(r), Decided(r), CommitClaim(r), ~UNCHANGED rowVars,
         NEW u, u = req[r].user, NEW i, i = req[r].inviter, NEW j, j = req[r].install
  PROVE  /\ req[r].bonus = "granted" =>
              /\ {EmailKey(u), InstallKey(j)} \intersect bonusClaims = {}
              /\ bonusClaims' = bonusClaims \union {EmailKey(u), InstallKey(j)}
         /\ req[r].bonus # "granted" => bonusClaims' = bonusClaims
         /\ \A v : Posted(SignupKey(v))' <=> Posted(SignupKey(v)) \/ (v = u /\ req[r].bonus = "granted")
         /\ \A v : Posted(InviteeKey(v))' <=>
              Posted(InviteeKey(v)) \/ (v = u /\ req[r].bonus = "granted" /\ i # None)
         /\ \A v : Posted(InviterKey(v))' <=>
              Posted(InviterKey(v)) \/ (v = u /\ i # None /\ req[r].outcome = "rewarded")
<1>1. /\ u \in Users /\ j \in Installs /\ pc[r] = "commit" /\ Own(r) /\ Held(r)
      /\ bonusClaims' = bonusClaims \union {k \in BonusKeys(r) : keyOwner[k] = r}
  BY CommitSets DEF IInv
<1>2. /\ entries' = entries \union Awards(r)
      /\ \A e \in Awards(r) : e \in {SignupAward(r), InviteeAward(r), InviterAward(r)}
      /\ \A e \in Awards(r) : status[e.user] # "deleted"
  BY CommitPosts
<1>3. /\ SignupAward(r).key = SignupKey(u) /\ SignupAward(r).amount = SignupBonus /\ SignupAward(r).user = u
      /\ InviteeAward(r).key = InviteeKey(u) /\ InviteeAward(r).amount = InviteeCredits
      /\ InviterAward(r).key = InviterKey(u) /\ InviterAward(r).amount = InviterCredits
  BY DEF SignupAward, InviteeAward, InviterAward
<1>4. SignupAward(r) # InviteeAward(r) /\ SignupAward(r) # InviterAward(r) /\ InviteeAward(r) # InviterAward(r)
  BY <1>3, KeysDiffer
<1>5. /\ SignupAward(r) \in Awards(r) <=> req[r].bonus = "granted"
      /\ InviteeAward(r) \in Awards(r) <=> i # None /\ req[r].outcome # "invitee_ineligible"
      /\ InviterAward(r) \in Awards(r) <=> i # None /\ req[r].outcome = "rewarded"
  BY <1>3, <1>4 DEF Awards, InviterPaid
<1>6. i # None /\ req[r].outcome # "invitee_ineligible" <=> req[r].bonus = "granted" /\ i # None
  BY <1>1 DEF Decided
<1>7. ASSUME NEW v
      PROVE  /\ Posted(SignupKey(v))' <=> Posted(SignupKey(v)) \/ (v = u /\ req[r].bonus = "granted")
             /\ Posted(InviteeKey(v))' <=>
                  Posted(InviteeKey(v)) \/ (v = u /\ req[r].bonus = "granted" /\ i # None)
             /\ Posted(InviterKey(v))' <=>
                  Posted(InviterKey(v)) \/ (v = u /\ i # None /\ req[r].outcome = "rewarded")
  <2>1. ASSUME NEW k
        PROVE  (\E e \in entries' : e.key = k) <=> Posted(k) \/ \E e \in Awards(r) : e.key = k
    BY <1>2 DEF Posted
  <2>2. (\E e \in Awards(r) : e.key = SignupKey(v)) <=> v = u /\ SignupAward(r) \in Awards(r)
    BY <1>2, <1>3, KeysDiffer
  <2>3. (\E e \in Awards(r) : e.key = InviteeKey(v)) <=> v = u /\ InviteeAward(r) \in Awards(r)
    BY <1>2, <1>3, KeysDiffer
  <2>4. (\E e \in Awards(r) : e.key = InviterKey(v)) <=> v = u /\ InviterAward(r) \in Awards(r)
    BY <1>2, <1>3, KeysDiffer
  <2>5. /\ Posted(SignupKey(v))' <=> \E e \in entries' : e.key = SignupKey(v)
        /\ Posted(InviteeKey(v))' <=> \E e \in entries' : e.key = InviteeKey(v)
        /\ Posted(InviterKey(v))' <=> \E e \in entries' : e.key = InviterKey(v)
    BY DEF Posted, SignupKey, InviteeKey, InviterKey
  <2> QED
    BY <1>5, <1>6, <2>1, <2>2, <2>3, <2>4, <2>5
<1>8. ASSUME req[r].bonus = "granted"
      PROVE  /\ {EmailKey(u), InstallKey(j)} \intersect bonusClaims = {}
             /\ bonusClaims' = bonusClaims \union {EmailKey(u), InstallKey(j)}
  <2>1. req[r].email
    BY <1>1, <1>2, <1>3, <1>5, <1>8 DEF Held, Steps, ClaimSteps, ClaimTx
  <2>2. /\ keyOwner[EmailKey(u)] = r /\ EmailKey(u) \notin bonusClaims
        /\ keyOwner[InstallKey(j)] = r /\ InstallKey(j) \notin bonusClaims
    BY <1>1, <1>8, <2>1 DEF Held
  <2>3. BonusKeys(r) = {EmailKey(u), InstallKey(j)}
    BY <2>1 DEF BonusKeys
  <2> QED
    BY <1>1, <2>2, <2>3
<1>9. ASSUME req[r].bonus # "granted" PROVE bonusClaims' = bonusClaims
  <2>1. BonusKeys(r) \subseteq {EmailKey(u), InstallKey(j)}
    BY DEF BonusKeys
  <2>2. keyOwner[EmailKey(u)] # r /\ keyOwner[InstallKey(j)] # r
    BY <1>1, <1>9 DEF Bare
  <2> QED
    BY <1>1, <2>1, <2>2
<1> QED
  BY <1>7, <1>8, <1>9

LEMMA PaidNext ==
  ASSUME SignupBonus > 0, InviteeCredits > 0, InviterCredits > 0, IInv, Settled, [AccountsNext]_vars
  PROVE  Paid'
<1> SUFFICES ASSUME NEW v \in Users
             PROVE  Posted(InviterKey(v))' <=> referral'[v].outcome = "rewarded"
  BY DEF Paid, InviterKey, Posted
<1>1. Posted(InviterKey(v)) <=> referral[v].outcome = "rewarded"
  BY DEF Settled, Paid
<1>2. CASE \A r \in Requests : CommitClaim(r) => UNCHANGED rowVars
  <2>1. /\ UNCHANGED referral /\ entries \subseteq entries'
        /\ \A e \in entries' \ entries : e.key # InviterKey(v)
    BY <1>2, OnlyCommitsGive
  <2>2. Posted(InviterKey(v))' <=> Posted(InviterKey(v))
    BY <2>1 DEF Posted, InviterKey
  <2> QED
    BY <1>1, <2>1, <2>2
<1>3. ASSUME NEW r \in Requests, CommitClaim(r), ~UNCHANGED rowVars
      PROVE  Posted(InviterKey(v))' <=> referral'[v].outcome = "rewarded"
  <2> SUFFICES ASSUME NEW u, u = req[r].user, NEW i, i = req[r].inviter
               PROVE  Posted(InviterKey(v))' <=> referral'[v].outcome = "rewarded"
    OBVIOUS
  <2>1. Posted(InviterKey(v))' <=> Posted(InviterKey(v)) \/ (v = u /\ i # None /\ req[r].outcome = "rewarded")
    BY <1>3, CommitGives DEF Settled
  <2>2. /\ u \in Users /\ referral[u] = NoReferral
        /\ referral' = IF i = None THEN referral ELSE
             [referral EXCEPT ![u] = [inviter |-> i, outcome |-> req[r].outcome]]
    BY <1>3, CommitSets DEF Unclaimed
  <2>3. v # u => referral'[v] = referral[v]
    BY <2>2 DEF IInv, Typed, AccountsTypeOK
  <2>4. v = u => (referral'[v].outcome = "rewarded" <=> i # None /\ req[r].outcome = "rewarded")
                 /\ referral[v].outcome = "none"
    BY <2>2 DEF NoReferral, IInv, Typed, AccountsTypeOK
  <2> QED
    BY <1>1, <2>1, <2>3, <2>4
<1> QED
  BY <1>2, <1>3

LEMMA SettledNext ==
  ASSUME SignupBonus > 0, InviteeCredits > 0, InviterCredits > 0, IInv, Settled, [AccountsNext]_vars
  PROVE  Settled'
<1>1. \A q \in Requests : Own(q) /\ Held(q) /\ Bare(q) /\ Decided(q) /\ Typed
  BY DEF IInv, Settled
<1>2. ASSUME NEW r \in Requests, Locks(r), \A q \in Requests \ {r} : Spares(q), Bare(r)' /\ Decided(r)'
      PROVE  Settled'
  BY <1>1, <1>2, SparedSettled, PaidNext DEF Settled
<1>3. ASSUME NEW r \in Requests, Moves(r), UNCHANGED rowVars, Bare(r)' /\ Decided(r)'
      PROVE  Settled'
  BY <1>1, <1>2, <1>3, QuietStep DEF Moves
<1>4. ASSUME NEW r \in Requests,
             \/ \E c \in ClaimInputs : StartClaim(r, c)
             \/ \E x \in RenameInputs : StartRename(r, x)
             \/ \E u \in Users : StartDelete(r, u)
      PROVE  Settled'
  BY <1>1, <1>3, <1>4, StartsHold, EarlySettles
<1>5. ASSUME NEW r \in Requests,
             ReadUser(r) \/ CheckName(r) \/ FindInviter(r) \/ Eligibility(r) \/ ReadAccount(r)
      PROVE  Settled'
  BY <1>1, <1>3, <1>5, ReadsHold, EarlySettles
<1>6. ASSUME NEW r \in Requests,
             SetName(r) \/ TakeName(r) \/ TakeBonus(r) \/ Whose(r) \/ LockInviter(r) \/ CountReferrals(r)
      PROVE  Settled'
  <2>1. Moves(r) /\ UNCHANGED rowVars
    BY <1>1, <1>6, ClaimHolds
  <2>2. Bare(r)' /\ Decided(r)'
    BY <1>1, <1>6, EarlySettles, LateSettles
  <2> QED
    BY <1>3, <2>1, <2>2
<1>7. ASSUME NEW r \in Requests, RenameRow(r) \/ Forfeit(r) \/ Deadlock(r) \/ Cut(r)
      PROVE  Settled'
  BY <1>1, <1>3, <1>7, RestHolds, EarlySettles
<1>8. ASSUME NEW r \in Requests, Rename(r) \/ Erase(r) PROVE Settled'
  <2>1. \A q \in Requests \ {r} : Spares(q)
    BY <1>8, RenameHolds, EraseHolds
  <2>2. Refuse(r, "USERNAME_TAKEN") \/ Refuse(r, "renamed") \/ Refuse(r, "gone")
    BY <1>8 DEF Rename, Erase
  <2>3. Bare(r)' /\ Decided(r)'
    BY <1>1, <2>2, RefuseSettles DEF Replies
  <2>4. Locks(r)
    BY <2>2 DEF Refuse, Reply, Locks
  <2> QED
    BY <1>2, <2>1, <2>3, <2>4
<1>9. ASSUME NEW r \in Requests, CommitClaim(r) PROVE Settled'
  <2>1. CASE UNCHANGED rowVars
    <3>1. Refuse(r, "refused") /\ "refused" \in Replies \ {"claimed"}
      BY <1>9, <2>1, CommitRefused DEF Replies
    <3> QED
      BY <1>1, <1>3, <2>1, <3>1, RefuseMoves, RefuseSettles
  <2>2. CASE ~UNCHANGED rowVars
    <3>1. \A q \in Requests \ {r} : Spares(q)
      BY <1>9, <2>2, CommitHolds
    <3>2. Unlock(r) /\ pc'[r] = "claimed"
      BY <1>1, <1>9, <2>2, CommitSets DEF Typed
    <3>3. Bare(r)' /\ Decided(r)'
      BY <1>1, <3>2, BareStays DEF Decided
    <3> QED
      BY <1>2, <3>1, <3>2, <3>3 DEF Locks
  <2> QED
    BY <2>1, <2>2
<1>10. CASE \/ \E p \in OtherPosts : OtherPost(p)
            \/ \E u \in Users : MoveAccount(u)
            \/ UNCHANGED vars
  <2>1. UNCHANGED <<pc, req, keyOwner, referral>>
    BY <1>10 DEF OtherPost, MoveAccount, vars, rowVars, lockVars
  <2>2. \A q \in Requests : Bare(q)' /\ Decided(q)'
    <3> SUFFICES ASSUME NEW q \in Requests PROVE Bare(q)' /\ Decided(q)'
      OBVIOUS
    <3>1. RewardedBy(req[q].inviter)' = RewardedBy(req[q].inviter)
      BY <2>1 DEF RewardedBy
    <3> QED
      BY <1>1, <2>1, <3>1 DEF Bare, Decided, EmailKey, InstallKey
  <2> QED
    BY <2>2, PaidNext DEF Settled
<1> QED
  BY <1>4, <1>5, <1>6, <1>7, <1>8, <1>9, <1>10 DEF AccountsNext, Step

\* A step of Enrolment, or none.
Enrols == [Register!Next]_(Register!enrolmentVars)

\* What Enrolment sees is unchanged when the rows, and the ledger under the keys
\* of claims, are.
LEMMA SameEnrols ==
  ASSUME UNCHANGED <<username, claimed, bonusClaims, referral>>, entries \subseteq entries',
         \A e \in entries' \ entries, u \in Users : e.key \notin {SignupKey(u), InviteeKey(u), InviterKey(u)}
  PROVE  Enrols
<1>1. \A u \in Users : /\ Posted(SignupKey(u))' <=> Posted(SignupKey(u))
                       /\ Posted(InviteeKey(u))' <=> Posted(InviteeKey(u))
                       /\ Posted(InviterKey(u))' <=> Posted(InviterKey(u))
  BY DEF Posted, SignupKey, InviteeKey, InviterKey
<1> QED
  BY <1>1 DEF Enrols, Register!enrolmentVars, Mailboxes, EmailKey, InstallKey

LEMMA CommitEnrols ==
  ASSUME SignupBonus > 0, InviteeCredits > 0, InviterCredits > 0, IInv, Settled,
         NEW r \in Requests, CommitClaim(r), ~UNCHANGED rowVars
  PROVE  Enrols
<1> SUFFICES ASSUME NEW u, u = req[r].user, NEW i, i = req[r].inviter, NEW j, j = req[r].install,
                    NEW n, n = req[r].name, NEW g \in BOOLEAN, g <=> req[r].bonus = "granted"
             PROVE  Enrols
  OBVIOUS
<1>1. /\ u \in Users /\ i \in Users \union {None} /\ i # u /\ n \in Names /\ j \in Installs
      /\ pc[r] = "commit" /\ ~claimed[u] /\ Unclaimed(u)
      /\ username' = [username EXCEPT ![u] = n]
      /\ claimed' = [claimed EXCEPT ![u] = TRUE]
      /\ referral' = IF i = None THEN referral ELSE
           [referral EXCEPT ![u] = [inviter |-> i, outcome |-> req[r].outcome]]
  BY CommitSets
<1>2. Typed /\ Own(r) /\ Held(r) /\ Decided(r) /\ Bare(r) /\ Paid
  BY DEF IInv, Settled
<1>3. /\ g => /\ {EmailKey(u), InstallKey(j)} \intersect bonusClaims = {}
              /\ bonusClaims' = bonusClaims \union {EmailKey(u), InstallKey(j)}
      /\ ~g => bonusClaims' = bonusClaims
      /\ \A v : Posted(SignupKey(v))' <=> Posted(SignupKey(v)) \/ (v = u /\ g)
      /\ \A v : Posted(InviteeKey(v))' <=> Posted(InviteeKey(v)) \/ (v = u /\ g /\ i # None)
      /\ \A v : Posted(InviterKey(v))' <=>
           Posted(InviterKey(v)) \/ (v = u /\ i # None /\ req[r].outcome = "rewarded")
  BY <1>2, CommitGives
<1>4. \A v \in Users \ {u} : username[v] # n
  BY <1>1, <1>2 DEF Held, HasName
<1>5. u \notin {v \in Users : claimed[v]} /\ {v \in Users : claimed'[v]} = {v \in Users : claimed[v]} \union {u}
  BY <1>1, <1>2 DEF Typed, AccountsTypeOK
<1>6. g => EmailOf[u] \notin Mailboxes /\ j \notin {x \in Installs : InstallKey(x) \in bonusClaims}
  BY <1>3 DEF Mailboxes, EmailKey
<1>7. Mailboxes' = Register!With(Mailboxes, EmailOf[u], g)
  <2>1. ASSUME g, NEW v \in Users PROVE EmailKey(v) \in bonusClaims' <=> EmailKey(v) \in bonusClaims \/ EmailOf[v] = EmailOf[u]
    BY <1>3, <2>1 DEF EmailKey, InstallKey
  <2>2. Mailboxes' = {EmailOf[v] : v \in {w \in Users : EmailKey(w) \in bonusClaims'}}
    BY DEF Mailboxes, EmailKey
  <2>3. CASE g
    <3>1. Mailboxes' = Mailboxes \union {EmailOf[u]}
      BY <1>1, <2>1, <2>2, <2>3 DEF Mailboxes
    <3> QED
      BY <2>3, <3>1 DEF Register!With
  <2>4. CASE ~g
    BY <1>3, <2>2, <2>4 DEF Mailboxes, Register!With
  <2> QED
    BY <2>3, <2>4
<1>8. {x \in Installs : InstallKey(x) \in bonusClaims'} =
        Register!With({x \in Installs : InstallKey(x) \in bonusClaims}, j, g)
  <2>1. ASSUME g, NEW x \in Installs PROVE InstallKey(x) \in bonusClaims' <=> InstallKey(x) \in bonusClaims \/ x = j
    BY <1>3, <2>1 DEF EmailKey, InstallKey
  <2>2. CASE g
    BY <1>1, <2>1, <2>2 DEF Register!With
  <2>3. CASE ~g
    BY <1>3, <2>3 DEF Register!With
  <2> QED
    BY <2>2, <2>3
<1>9. {v \in Users : Posted(SignupKey(v))'} = Register!With({v \in Users : Posted(SignupKey(v))}, u, g)
  BY <1>1, <1>3 DEF Register!With
<1>10. {v \in Users : Posted(InviteeKey(v))'} =
         Register!With({v \in Users : Posted(InviteeKey(v))}, u, g /\ i # None)
  BY <1>1, <1>3 DEF Register!With
<1>11. [v \in Users |-> referral'[v].inviter] = [[v \in Users |-> referral[v].inviter] EXCEPT ![u] = i]
  <2>1. referral[u].inviter = None
    BY <1>1 DEF Unclaimed, NoReferral
  <2> QED
    BY <1>1, <1>2, <2>1 DEF Typed, AccountsTypeOK
<1>12. i # None => Register!PaidFor(i) = RewardedBy(i)
  <2>1. ASSUME NEW v \in Users
        PROVE  Posted(InviterKey(v)) /\ referral[v].inviter = i <=> referral[v] = [inviter |-> i, outcome |-> "rewarded"]
    <3>1. referral[v] \in [inviter : Users \union {None},
                           outcome : {"none", "rewarded", "inviter_capped", "invitee_ineligible"}]
      BY <1>2 DEF Typed, AccountsTypeOK
    <3> QED
      BY <1>2, <3>1 DEF Paid
  <2> QED
    BY <2>1 DEF Register!PaidFor, RewardedBy
<1>13. i # None /\ req[r].outcome = "rewarded" <=>
         g /\ i # None /\ Cardinality(Register!PaidFor(i)) < ReferralCapCount
  <2>1. CASE i # None /\ g
    <3>1. req[r].outcome \in {"rewarded", "inviter_capped"}
      BY <1>1, <1>2, <2>1 DEF Decided, Typed, Locals
    <3>2. req[r].outcome = "rewarded" => Cardinality(RewardedBy(i)) < ReferralCapCount
      BY <1>1, <1>2 DEF Held
    <3>3. req[r].outcome = "inviter_capped" => Cardinality(RewardedBy(i)) >= ReferralCapCount
      BY <1>1, <1>2 DEF Decided
    <3>4. RewardedBy(i) \subseteq Users
      BY DEF RewardedBy
    <3>5. Cardinality(RewardedBy(i)) \in Nat
      BY <3>4, AccountsAssumption, FS_Subset, FS_CardinalityType
    <3>6. Cardinality(RewardedBy(i)) >= ReferralCapCount <=> ~(Cardinality(RewardedBy(i)) < ReferralCapCount)
      BY <3>5, AccountsAssumption
    <3> QED
      BY <1>12, <2>1, <3>1, <3>2, <3>3, <3>6
  <2>2. CASE i = None \/ ~g
    BY <1>1, <1>2, <2>2 DEF Decided
  <2> QED
    BY <2>1, <2>2
<1>14. {v \in Users : Posted(InviterKey(v))'} =
         Register!With({v \in Users : Posted(InviterKey(v))}, u,
                       g /\ i # None /\ Cardinality(Register!PaidFor(i)) < ReferralCapCount)
  BY <1>1, <1>3, <1>13 DEF Register!With
<1>15. Register!Claim(u, n, j, i, g)
  <2>1. Register!Free(n, u)
    BY <1>4 DEF Register!Free
  <2>2. {x \in Installs : InstallKey(x) \in bonusClaims}' =
          Register!With({x \in Installs : InstallKey(x) \in bonusClaims}, j, g)
    BY <1>8 DEF InstallKey
  <2>3. {v \in Users : Posted(SignupKey(v))}' = Register!With({v \in Users : Posted(SignupKey(v))}, u, g)
    BY <1>9 DEF SignupKey, Posted
  <2>4. {v \in Users : Posted(InviteeKey(v))}' =
          Register!With({v \in Users : Posted(InviteeKey(v))}, u, g /\ i # None)
    BY <1>10 DEF InviteeKey, Posted
  <2>5. {v \in Users : Posted(InviterKey(v))}' =
          Register!With({v \in Users : Posted(InviterKey(v))}, u,
                        g /\ i # None /\ Register!Cardinality(Register!PaidFor(i)) < ReferralCapCount)
    <3>1. Register!Cardinality(Register!PaidFor(i)) = Cardinality(Register!PaidFor(i))
      BY Zenon DEF Register!Cardinality, Cardinality
    <3> QED
      BY <1>14, <3>1 DEF InviterKey, Posted
  <2> QED
    BY <1>1, <1>5, <1>6, <1>7, <1>11, <2>1, <2>2, <2>3, <2>4, <2>5, Zenon DEF Register!Claim
<1> QED
  BY <1>1, <1>15 DEF Enrols, Register!Next

LEMMA RenameEnrols ==
  ASSUME IInv, NEW r \in Requests, Rename(r)
  PROVE  Enrols
<1> SUFFICES ASSUME NEW u, u = req[r].user, NEW n, n = req[r].name PROVE Enrols
  OBVIOUS
<1>1. /\ pc[r] = "rename" /\ UNCHANGED <<entries, claimed, bonusClaims, referral>>
      /\ \/ UNCHANGED username
         \/ username' = [username EXCEPT ![u] = n] /\ \A v \in Users \ {u} : username[v] # n
  BY DEF Rename, At, NameTaken, HolderOf, bookVars
<1>2. u \in Users /\ n \in Names
  BY <1>1 DEF IInv, Own, Steps
<1>3. CASE UNCHANGED username
  BY <1>1, <1>3, SameEnrols
<1>4. CASE ~UNCHANGED username
  <2>1. Register!Rename(u, n)
    BY <1>1, <1>4 DEF Register!Rename, Register!Free, Mailboxes, Posted, EmailKey, InstallKey,
      SignupKey, InviteeKey, InviterKey
  <2> QED
    BY <1>2, <2>1 DEF Enrols, Register!Next
<1> QED
  BY <1>3, <1>4

LEMMA EraseEnrols ==
  ASSUME IInv, NEW r \in Requests, Erase(r)
  PROVE  Enrols
<1> SUFFICES ASSUME NEW u, u = req[r].user PROVE Enrols
  OBVIOUS
<1>1. /\ pc[r] = "erase" /\ UNCHANGED <<claimed, bonusClaims, referral>>
      /\ username' = [username EXCEPT ![u] = None] /\ entries \subseteq entries'
      /\ \A e \in entries' \ entries : e.key = DeletedKey(u)
  BY DEF Erase, At
<1>2. u \in Users
  BY <1>1 DEF IInv, Own, Steps
<1>3. \A v \in Users : /\ Posted(SignupKey(v))' <=> Posted(SignupKey(v))
                       /\ Posted(InviteeKey(v))' <=> Posted(InviteeKey(v))
                       /\ Posted(InviterKey(v))' <=> Posted(InviterKey(v))
  BY <1>1 DEF Posted, SignupKey, InviteeKey, InviterKey, DeletedKey
<1>4. Register!Erase(u)
  BY <1>1, <1>3 DEF Register!Erase, Mailboxes, EmailKey, InstallKey
<1> QED
  BY <1>2, <1>4 DEF Enrols, Register!Next

\* Only commits, changes of names and deletions write what Enrolment sees.
LEMMA OthersEnrol ==
  ASSUME IInv, [AccountsNext]_vars, \A r \in Requests : CommitClaim(r) => UNCHANGED rowVars,
         ~ \E r \in Requests : Rename(r) \/ Erase(r)
  PROVE  Enrols
<1>1. UNCHANGED username
  BY DEF AccountsNext, Step, StartClaim, StartRename, StartDelete, ReadUser, CheckName, FindInviter,
    Eligibility, SetName, TakeName, TakeBonus, Whose, LockInviter, CountReferrals, RenameRow,
    ReadAccount, Forfeit, Deadlock, Cut, OtherPost, MoveAccount, vars, rowVars, userVars
<1> QED
  BY <1>1, OnlyCommitsGive, SameEnrols

\* Claims, changes of names and deletions look as if made one at a time: what a
\* claim is given is due to it when it commits, whatever it had read, waited for
\* and found taken before.
THEOREM ImplementsEnrolment ==
  ASSUME SignupBonus > 0, InviteeCredits > 0, InviterCredits > 0
  PROVE  AccountsSpec => EnrolmentSpec
<1>1. AccountsInit => Register!Init /\ Settled
  <2>1. AccountsInit => Register!Init
    BY DEF AccountsInit, Init, Register!Init, Mailboxes, Posted, NoReferral
  <2>2. AccountsInit => Settled
    BY DEF AccountsInit, Init, Settled, Paid, Bare, Decided, Posted, NoReferral, NoLocals
  <2> QED
    BY <2>1, <2>2
<1>2. IInv /\ Settled /\ [AccountsNext]_vars => Enrols
  BY CommitEnrols, RenameEnrols, EraseEnrols, OthersEnrol
<1>3. IInv /\ Settled /\ [AccountsNext]_vars => Settled'
  BY SettledNext
<1>4. AccountsSpec => Register!Init /\ [][Enrols]_(Register!enrolmentVars)
  BY <1>1, <1>2, <1>3, InvariantHolds, PTL DEF AccountsSpec
<1> QED
  BY <1>4, PTL DEF EnrolmentSpec, Register!Spec, Enrols

-----------------------------------------------------------------------------
(* Codes *)

Command == {"idle", "hit", "ttl", "expire", "code", "attempts", "cooldown", "guess", "delete"}

CallType == [at : Command, hits : 0..(PerHour + 1)]

\* A request's step leaves the others as they are.
LEMMA OneCalls ==
  ASSUME call \in [Callers -> CallType], NEW c \in Callers, NEW s \in CallType,
         call' = [call EXCEPT ![c] = s]
  PROVE  call' \in [Callers -> CallType]
  OBVIOUS

LEMMA StepsType ==
  ASSUME PerHour \in Nat, call \in [Callers -> CallType], NEW c \in Callers,
         Ends(c) \/ \E step \in Command : Then(c, step)
  PROVE  call' \in [Callers -> CallType]
<1>1. CASE Ends(c)
  <2>1. Rest \in CallType
    BY DEF Rest, CallType, Command
  <2> QED
    BY <1>1, <2>1, OneCalls DEF Ends
<1>2. ASSUME NEW step \in Command, Then(c, step) PROVE call' \in [Callers -> CallType]
  <2>1. call' = [call EXCEPT ![c].at = step]
    BY <1>2 DEF Then
  <2> QED
    BY <2>1 DEF CallType
<1> QED
  BY <1>1, <1>2

\* A counter stops at the first number above its limit.
LEMMA IncrementedBound ==
  ASSUME NEW limit \in Nat, NEW n \in 0..(limit + 1)
  PROVE  Incremented(n, limit) \in 0..(limit + 1) /\ Incremented(n, limit) > 0
  BY DEF Incremented

\* The window that Redis keeps for a counter ends with it: no expiry is set on a
\* counter that is gone, however the commands of requests interleave.
THEOREM CodesTyped ==
  ASSUME PerHour \in Nat, MaxAttempts \in Nat
  PROVE  CodesSpec => []CodesTypeOK
<1> USE DEF CodesTypeOK
<1>c. CallType = [at : {"idle", "hit", "ttl", "expire", "code", "attempts", "cooldown", "guess", "delete"},
                  hits : 0..(PerHour + 1)]
  BY DEF CallType, Command
<1>1. CodesInit => CodesTypeOK
  <2>1. Rest \in CallType
    BY DEF Rest, CallType, Command
  <2>2. CodesInit => call \in [Callers -> CallType]
    BY <2>1 DEF CodesInit
  <2>3. CodesInit => count = 0 /\ window = FALSE /\ code = FALSE /\ attempts = 0 /\ cooldown = FALSE
    BY DEF CodesInit
  <2>4. 0 \in 0..(PerHour + 1) /\ 0 \in 0..(MaxAttempts + 1)
    OBVIOUS
  <2> QED
    BY <1>c, <2>2, <2>3, <2>4
<1>2. CodesTypeOK /\ [CodesNext]_codeVars => CodesTypeOK'
  <2> SUFFICES ASSUME CodesTypeOK, [CodesNext]_codeVars PROVE CodesTypeOK'
    OBVIOUS
  <2>c. call \in [Callers -> CallType]
    BY <1>c
  <2>k. ASSUME call' \in [Callers -> CallType], count' \in 0..(PerHour + 1), window' \in BOOLEAN,
               window' => count' > 0, code' \in BOOLEAN, attempts' \in 0..(MaxAttempts + 1),
               cooldown' \in BOOLEAN
        PROVE  CodesTypeOK'
    BY <1>c, <2>k
  <2>1. ASSUME NEW c \in Callers, AskCode(c) \/ CheckWindow(c) \/ ReadCode(c) \/ CallDies(c) \/ SetCooldown(c)
        PROVE  CodesTypeOK'
    <3>1. Ends(c) \/ \E step \in Command : Then(c, step)
      BY <2>1 DEF AskCode, CheckWindow, ReadCode, CallDies, SetCooldown, Allowed, Command
    <3>2. UNCHANGED <<count, window, code, attempts>> /\ (cooldown' = cooldown \/ cooldown' = TRUE)
      BY <2>1 DEF AskCode, CheckWindow, ReadCode, CallDies, SetCooldown, limiter, codes
    <3> QED
      BY <2>c, <2>k, <3>1, <3>2, StepsType
  <2>2. ASSUME NEW c \in Callers, Hit(c) PROVE CodesTypeOK'
    <3>1. count' \in 0..(PerHour + 1) /\ count' > 0
      BY <2>2, IncrementedBound DEF Hit
    <3>2. call' \in [Callers -> CallType]
      <4>1. [at |-> "ttl", hits |-> count'] \in CallType
        BY <3>1 DEF CallType, Command
      <4> QED
        BY <2>2, <2>c, <4>1, OneCalls DEF Hit
    <3>3. UNCHANGED <<window, code, attempts, cooldown>>
      BY <2>2 DEF Hit, codes
    <3> QED
      BY <2>k, <3>1, <3>2, <3>3
  <2>3. ASSUME NEW c \in Callers, OpenWindow(c) PROVE CodesTypeOK'
    <3>1. Ends(c) \/ \E step \in Command : Then(c, step)
      BY <2>3 DEF OpenWindow, Allowed, Command
    <3>2. UNCHANGED <<count, code, attempts, cooldown>> /\ window' = (count > 0)
      BY <2>3 DEF OpenWindow, codes
    <3> QED
      BY <2>c, <2>k, <3>1, <3>2, StepsType
  <2>4. ASSUME NEW c \in Callers, SetCode(c) \/ SetAttempts(c) \/ DeleteCode(c) PROVE CodesTypeOK'
    <3>1. Ends(c) \/ \E step \in Command : Then(c, step)
      BY <2>4 DEF SetCode, SetAttempts, DeleteCode, Command
    <3>2. /\ UNCHANGED <<count, window, cooldown>> /\ code' \in BOOLEAN
          /\ attempts' = attempts \/ attempts' = 0
      BY <2>4 DEF SetCode, SetAttempts, DeleteCode, limiter
    <3> QED
      BY <2>c, <2>k, <3>1, <3>2, StepsType
  <2>5. ASSUME NEW c \in Callers, Guess(c) PROVE CodesTypeOK'
    <3>1. Ends(c) \/ \E step \in Command : Then(c, step)
      BY <2>5 DEF Guess, Command
    <3>2. UNCHANGED <<count, window, code, cooldown>> /\ attempts' \in 0..(MaxAttempts + 1)
      BY <2>5, IncrementedBound DEF Guess, limiter
    <3> QED
      BY <2>c, <2>k, <3>1, <3>2, StepsType
  <2>6. CASE WindowEnds \/ CodeExpires \/ AttemptsExpire \/ CooldownEnds \/ UNCHANGED codeVars
    <3>1. /\ call' = call /\ code' \in {code, FALSE} /\ attempts' \in {attempts, 0}
          /\ cooldown' \in {cooldown, FALSE}
          /\ UNCHANGED <<count, window>> \/ (count' = 0 /\ window' = FALSE)
      BY <2>6 DEF WindowEnds, CodeExpires, AttemptsExpire, CooldownEnds, codeVars, limiter, codes
    <3>2. attempts' \in 0..(MaxAttempts + 1) /\ count' \in 0..(PerHour + 1)
      BY <3>1
    <3>3. window' \in BOOLEAN /\ code' \in BOOLEAN /\ cooldown' \in BOOLEAN
      BY <3>1
    <3>4. window' => count' > 0
      BY <3>1
    <3> QED
      BY <2>c, <2>k, <3>1, <3>2, <3>3, <3>4
  <2> QED
    BY <2>1, <2>2, <2>3, <2>4, <2>5, <2>6 DEF CodesNext
<1> QED
  BY <1>1, <1>2, PTL DEF CodesSpec

=============================================================================
