---------------------------- MODULE RewardsProofs ----------------------------
(***************************************************************************)
(* Proofs about Rewards for any users, sessions, callbacks, requests, caps *)
(* and intervals.  What carries them is that a request inside its          *)
(* transaction has the User row (Locked), so that what it read of the      *)
(* user's entries before it posts still holds when it does (Checked).      *)
(***************************************************************************)
EXTENDS Rewards, FiniteSetTheorems, TLAPS

InTransaction == {"count", "post", "lastClaim"}

\* The local variables of a request have the types the code gives them.
Call == [user : Users, about : Callbacks \union {None}, now : 0..MaxClock,
         last : 0..MaxClock, status : {None, "granted", "capped", "rejected"}]

\* A callback that got as far as the lock is about its user's own session.
About(r) ==
  /\ stage[r] \in {"read", "count", "write"} => req[r].about # None
  /\ stage[r] = "lastClaim" => req[r].about = None
  /\ stage[r] \in {"read", "lock", "lastClaim"} => req[r].last = 0
  /\ stage[r] = "write" => req[r].status \in {"granted", "capped", "rejected"}
  /\ stage[r] \in {"lock", "count", "post", "write"} /\ req[r].about # None =>
       OwnerOf[req[r].about.nonce] = req[r].about.user

\* A request inside its transaction has the row of its user.
Locked(r) == stage[r] \in InTransaction => rowOwner[req[r].user] = r

\* What a request found before it posts: the user is below the cap, or the claim
\* it makes is the next one and its interval has passed.
Checked(r) ==
  stage[r] = "post" =>
    IF req[r].about = None
    THEN /\ Claims(req[r].user) = 0..(req[r].last - 1)
         /\ \A m \in Claims(req[r].user) :
              createdAt[ClaimKey(req[r].user, m)] + ClaimTicks <= req[r].now
    ELSE AdsUsedToday(req[r].user) < AdDailyCap

\* The status a callback is about to write is `granted' only when it was paid.
Truthful(r) ==
  stage[r] = "write" /\ req[r].status = "granted" => Posted(AdKey(req[r].about.txn))

RequestOK(r) ==
  About(r) /\ Locked(r) /\ Checked(r) /\ Truthful(r) /\ req[r].now <= clock

\* The entries are finitely many and none is from the future.
Dated == IsFiniteSet(entries) /\ \A k \in Keys : createdAt[k] <= clock

\* A user's claims are numbered without a gap, and one is made a tick.
Chained ==
  \A u \in Users : /\ \E n \in 0..(MaxClock + 1) : Claims(u) = 0..(n - 1)
                   /\ \A n \in Claims(u) : createdAt[ClaimKey(u, n)] >= n

IInv ==
  /\ RewardsTypeOK /\ req \in [Requests -> Call]
  /\ \A r \in Requests : RequestOK(r)
  /\ Dated /\ Chained
  /\ CapHolds /\ ClaimsAreSpaced /\ ShownIsPaid

-----------------------------------------------------------------------------
(* Days and sets *)

\* Later ticks are of the same day or of a later one.
LEMMA DaysGrow ==
  ASSUME NEW s \in Nat, NEW t \in Nat, s <= t
  PROVE  Day(s) \in Nat /\ Day(t) \in Nat /\ Day(s) <= Day(t)
<1>1. DayTicks \in Nat /\ DayTicks > 0
  BY RewardsAssumption
<1> QED
  BY <1>1 DEF Day

\* The initial state has the invariant.
LEMMA NoLocalsTyped == NoLocals \in Call /\ NoLocals.now = 0
  BY RewardsAssumption DEF NoLocals, Locals, Call

LEMMA InitOK == RewardsInit => IInv
<1> SUFFICES ASSUME RewardsInit PROVE IInv
  OBVIOUS
<1> USE DEF RewardsInit, Init
<1>1. MaxClock \in Nat /\ AdDailyCap \in Nat /\ ClaimTicks \in Nat
  BY RewardsAssumption
<1>2. \A k : ~Posted(k)
  BY DEF Posted
<1>3. \A u : Claims(u) = {} /\ AdEntries(u) = {}
  BY <1>2 DEF Claims, AdEntries
<1>4. RewardsTypeOK
  BY <1>1 DEF RewardsTypeOK, Statuses, Done
<1>5. req \in [Requests -> Call]
  BY NoLocalsTyped
<1>6. \A r \in Requests : RequestOK(r)
  BY NoLocalsTyped DEF RequestOK, About, Locked, Checked, Truthful, InTransaction
<1>7. Dated
  BY FS_EmptySet DEF Dated
<1>8. Chained
  <2>1. 0..(0 - 1) = {} /\ 0 \in 0..(MaxClock + 1)
    BY <1>1
  <2> QED
    BY <1>3, <2>1 DEF Chained
<1>9. CapHolds
  <2>1. Cardinality({}) <= AdDailyCap
    BY <1>1, FS_EmptySet
  <2>2. ASSUME NEW u, NEW d
        PROVE  {e \in AdEntries(u) : Day(createdAt[e.key]) = d} = {}
    BY <1>3, Zenon
  <2> QED
    BY <2>1, <2>2, ZenonT(30) DEF CapHolds
<1>10. ClaimsAreSpaced
  BY <1>3 DEF ClaimsAreSpaced
<1>11. ShownIsPaid
  BY DEF ShownIsPaid
<1> QED
  BY <1>4, <1>5, <1>6, <1>7, <1>8, <1>9, <1>10, <1>11 DEF IInv

-----------------------------------------------------------------------------
(* Types *)

\* A step that takes no row and leaves the request inside its transaction only
\* where it was, or lets go of its rows, keeps rows locked by whom they should be.
LEMMA KeepsOwners ==
  ASSUME RewardsTypeOK, NEW r \in Requests,
         \A q \in Requests \ {r} : stage'[q] = stage[q] /\ req'[q] = req[q],
         \/ Unlock(r)
         \/ UNCHANGED rowOwner /\ stage'[r] \in InTransaction /\ req'[r].user = req[r].user
         \/ UNCHANGED rowOwner /\ stage[r] \notin InTransaction
  PROVE  /\ rowOwner' \in [Users -> Requests \union {Nobody}]
         /\ \A u \in Users : rowOwner'[u] # Nobody =>
              stage'[rowOwner'[u]] \in InTransaction /\ req'[rowOwner'[u]].user = u
         /\ \A u \in Users : rowOwner'[u] = rowOwner[u] \/ rowOwner[u] \in {r, Nobody}
  BY RewardsAssumption DEF RewardsTypeOK, Unlock, InTransaction

\* What a request writes to its own variables is typed.
LEMMA Typed ==
  ASSUME RewardsTypeOK, NEW r \in Requests,
         stage' \in [Requests -> Done \union InTransaction \union {"read", "lock", "write"}],
         req' \in [Requests -> Call],
         \A q \in Requests \ {r} : stage'[q] = stage[q] /\ req'[q] = req[q],
         \/ Unlock(r)
         \/ UNCHANGED rowOwner /\ stage'[r] \in InTransaction /\ req'[r].user = req[r].user
         \/ UNCHANGED rowOwner /\ stage[r] \notin InTransaction,
         session' \in [Nonces -> {"unused", "pending", "granted", "capped", "rejected", "gone"}],
         answered' \subseteq Callbacks,
         UNCHANGED <<status, clock>>,
         balance' \in [Users -> Nat], entries' \subseteq Entry, createdAt' \in [Keys -> 0..MaxClock]
  PROVE  RewardsTypeOK'
  BY KeepsOwners DEF RewardsTypeOK, InTransaction

\* What a post does: nothing to a key that was posted, or one entry of now.
LEMMA Paying ==
  ASSUME RewardsTypeOK, NEW u \in Users, NEW k \in Keys, NEW a \in {AdCredits, ClaimCredits},
         Pay(u, k, a)
  PROVE  /\ balance' \in [Users -> Nat] /\ entries' \subseteq Entry
         /\ createdAt' \in [Keys -> 0..MaxClock] /\ status' = status
         /\ Posted(k)'
         /\ \/ Posted(k) /\ UNCHANGED <<entries, createdAt>>
            \/ /\ ~Posted(k) /\ entries' = entries \union {[user |-> u, key |-> k, amount |-> a]}
               /\ createdAt' = [createdAt EXCEPT ![k] = clock]
<1> USE RewardsAssumption DEF RewardsTypeOK
<1>1. CASE Posted(k)
  BY <1>1 DEF Pay, bookVars, Posted
<1>2. CASE ~Posted(k)
  <2>1. /\ a \in Amounts /\ a \in Nat /\ [user |-> u, key |-> k, amount |-> a] \in Entry
    BY DEF Entry
  <2>2. /\ balance' = [balance EXCEPT ![u] = balance[u] + a] /\ UNCHANGED status
        /\ entries' = entries \union {[user |-> u, key |-> k, amount |-> a]}
        /\ createdAt' = [createdAt EXCEPT ![k] = clock]
    BY <1>2 DEF Pay, Post
  <2>3. Posted(k)'
    <3> DEFINE e == [user |-> u, key |-> k, amount |-> a]
    <3>1. e \in entries' /\ e.key = k
      BY <2>2
    <3> QED
      BY <3>1 DEF Posted
  <2> QED
    BY <1>2, <2>1, <2>2, <2>3
<1> QED
  BY <1>1, <1>2

\* The latest claim is the one the code takes, and the one after it is numbered
\* before the clock.
LEMMA NextClaimFits ==
  ASSUME RewardsTypeOK, Chained, NEW u \in Users, Claims(u) # {},
         NEW last, last = CHOOSE n \in Claims(u) : \A m \in Claims(u) : n >= m,
         NEW t \in 0..MaxClock, Ready(t, createdAt[ClaimKey(u, last)])
  PROVE  /\ last \in Claims(u) /\ Claims(u) = 0..last /\ last + 1 \in 0..MaxClock
<1>1. PICK n \in 0..(MaxClock + 1) : Claims(u) = 0..(n - 1)
  BY DEF Chained
<1>2. MaxClock \in Nat /\ ClaimTicks \in Nat /\ ClaimTicks > 0
  BY RewardsAssumption
<1>3. n > 0 /\ n - 1 \in Claims(u) /\ \A m \in Claims(u) : n - 1 >= m
  BY <1>1, <1>2
<1>4. last \in Claims(u) /\ \A m \in Claims(u) : last >= m
  BY <1>3
<1>5. last = n - 1
  BY <1>1, <1>2, <1>3, <1>4
<1>6. ClaimKey(u, last) \in Keys /\ createdAt[ClaimKey(u, last)] >= last
      /\ createdAt[ClaimKey(u, last)] \in Int
  BY <1>4, <1>2, RewardsAssumption DEF Claims, Chained, RewardsTypeOK
<1>7. t >= last + 1
  BY <1>2, <1>4, <1>6 DEF Ready, Claims
<1> QED
  BY <1>1, <1>2, <1>4, <1>5, <1>7

LEMMA StepTyped ==
  ASSUME RewardsTypeOK, req \in [Requests -> Call], \A r \in Requests : RequestOK(r), Chained,
         [RewardsNext]_rewardVars
  PROVE  RewardsTypeOK' /\ req' \in [Requests -> Call]
<1> USE DEF Proceed
<1>t. stage \in [Requests -> Done \union InTransaction \union {"read", "lock", "write"}]
  BY DEF RewardsTypeOK, InTransaction
<1>b. /\ balance \in [Users -> Nat] /\ entries \subseteq Entry /\ createdAt \in [Keys -> 0..MaxClock]
      /\ session \in [Nonces -> {"unused", "pending", "granted", "capped", "rejected", "gone"}]
      /\ answered \subseteq Callbacks /\ clock \in 0..MaxClock
  BY DEF RewardsTypeOK
<1>1. ASSUME NEW n \in Nonces, StartAd(n) \/ Expire(n)
      PROVE  RewardsTypeOK' /\ req' \in [Requests -> Call]
  BY <1>1 DEF StartAd, Expire, RewardsTypeOK, bookVars
<1>2. ASSUME NEW r \in Requests, NEW c \in Callbacks, Deliver(r, c)
      PROVE  RewardsTypeOK' /\ req' \in [Requests -> Call]
  <2>1. Locals(c.user, c, 0) \in Call
    BY RewardsAssumption DEF Locals, Call
  <2>2. /\ stage' \in [Requests -> Done \union InTransaction \union {"read", "lock", "write"}]
        /\ req' \in [Requests -> Call]
    BY <1>2, <1>t, <2>1 DEF Deliver
  <2> QED
    BY <1>2, <1>b, <2>2, Typed, RewardsAssumption DEF Deliver, bookVars, InTransaction, Done
<1>3. ASSUME NEW r \in Requests, NEW u \in Users, Claim(r, u)
      PROVE  RewardsTypeOK' /\ req' \in [Requests -> Call]
  <2>1. Locals(u, None, clock) \in Call
    BY RewardsAssumption, <1>b DEF Locals, Call
  <2>2. /\ stage' \in [Requests -> Done \union InTransaction \union {"read", "lock", "write"}]
        /\ req' \in [Requests -> Call]
    BY <1>3, <1>t, <2>1 DEF Claim, Done
  <2> QED
    BY <1>3, <1>b, <2>2, Typed, RewardsAssumption DEF Claim, bookVars, InTransaction, Done
<1>4. ASSUME NEW r \in Requests, ReadSession(r) PROVE RewardsTypeOK' /\ req' \in [Requests -> Call]
  <2>1. req[r].about \in Callbacks
    BY <1>4 DEF ReadSession, RequestOK, About, Call
  <2>2. /\ stage' \in [Requests -> Done \union InTransaction \union {"read", "lock", "write"}]
        /\ req' \in [Requests -> Call]
    BY <1>4, <1>t, NoLocalsTyped DEF ReadSession, Answer, Done
  <2>3. /\ answered' \subseteq Callbacks
        /\ session' \in [Nonces -> {"unused", "pending", "granted", "capped", "rejected", "gone"}]
    BY <1>4, <1>b, <2>1 DEF ReadSession, Answer
  <2> QED
    BY <1>4, <1>b, <2>2, <2>3, Typed DEF ReadSession, Answer, bookVars, InTransaction
<1>5. ASSUME NEW r \in Requests, Lock(r) PROVE RewardsTypeOK' /\ req' \in [Requests -> Call]
  BY <1>5 DEF Lock, RowFree, RewardsTypeOK, bookVars, Call, InTransaction
<1>6. ASSUME NEW r \in Requests, CountAds(r) PROVE RewardsTypeOK' /\ req' \in [Requests -> Call]
  <2>1. req' \in [Requests -> Call] /\ req'[r].user = req[r].user
    BY <1>6 DEF CountAds, Outcome, Call
  <2>2. stage' \in [Requests -> Done \union InTransaction \union {"read", "lock", "write"}]
    BY <1>6, <1>t DEF CountAds, InTransaction
  <2> QED
    BY <1>6, <1>b, <2>1, <2>2, Typed DEF CountAds, Outcome, bookVars, InTransaction
<1>7. ASSUME NEW r \in Requests, PostAd(r) PROVE RewardsTypeOK' /\ req' \in [Requests -> Call]
  <2>1. /\ req[r].about \in Callbacks /\ AdKey(req[r].about.txn) \in Keys /\ req[r].user \in Users
    BY <1>7, RewardsAssumption DEF PostAd, Call
  <2>2. /\ stage' \in [Requests -> Done \union InTransaction \union {"read", "lock", "write"}]
        /\ req' \in [Requests -> Call]
    BY ZenonT(60), <1>7, <1>t DEF PostAd, Outcome, Rejected, Call
  <2>3. /\ balance' \in [Users -> Nat] /\ entries' \subseteq Entry
        /\ createdAt' \in [Keys -> 0..MaxClock] /\ status' = status
    BY <1>7, <1>b, <2>1, Paying DEF PostAd, bookVars
  <2> QED
    BY <1>7, <1>b, <2>2, <2>3, Typed DEF PostAd, Outcome, Rejected
<1>8. ASSUME NEW r \in Requests, WriteSession(r) PROVE RewardsTypeOK' /\ req' \in [Requests -> Call]
  <2>1. req[r].about \in Callbacks
    BY <1>8 DEF WriteSession, RequestOK, About, Call
  <2>2. /\ stage' \in [Requests -> Done \union InTransaction \union {"read", "lock", "write"}]
        /\ req' \in [Requests -> Call]
    BY <1>8, <1>t, NoLocalsTyped DEF WriteSession, Answer, Done
  <2>3. /\ answered' \subseteq Callbacks
        /\ session' \in [Nonces -> {"unused", "pending", "granted", "capped", "rejected", "gone"}]
    BY <1>8, <1>b, <2>1 DEF WriteSession, Answer, RequestOK, About
  <2> QED
    BY <1>8, <1>b, <2>2, <2>3, Typed DEF WriteSession, Answer, bookVars, InTransaction
<1>9. ASSUME NEW r \in Requests, LastClaim(r) PROVE RewardsTypeOK' /\ req' \in [Requests -> Call]
  <2>1. req' \in [Requests -> Call] /\ req'[r].user = req[r].user
    <3> DEFINE u == req[r].user
               last == CHOOSE n \in Claims(u) : \A m \in Claims(u) : n >= m
    <3>1. u \in Users /\ req[r].now \in 0..MaxClock
      BY DEF Call
    <3>2. CASE UNCHANGED req
      BY <3>2
    <3>3. CASE ~UNCHANGED req
      <4>1. /\ Claims(u) # {} /\ Ready(req[r].now, createdAt[ClaimKey(u, last)])
            /\ req' = [req EXCEPT ![r].last = last + 1]
        BY <1>9, <3>3 DEF LastClaim
      <4>2. last + 1 \in 0..MaxClock
        BY <3>1, <4>1, NextClaimFits
      <4> HIDE DEF last
      <4> QED
        BY <4>1, <4>2 DEF Call
    <3> QED
      BY <3>2, <3>3
  <2>2. stage' \in [Requests -> Done \union InTransaction \union {"read", "lock", "write"}]
    BY <1>9, <1>t DEF LastClaim, InTransaction, Done
  <2> QED
    BY <1>9, <1>b, <2>1, <2>2, Typed DEF LastClaim, bookVars, InTransaction
<1>10. ASSUME NEW r \in Requests, PostClaim(r) PROVE RewardsTypeOK' /\ req' \in [Requests -> Call]
  <2>1. ClaimKey(req[r].user, req[r].last) \in Keys /\ req[r].user \in Users
    BY RewardsAssumption DEF Call
  <2>2. stage' \in [Requests -> Done \union InTransaction \union {"read", "lock", "write"}]
    BY <1>10, <1>t DEF PostClaim, Done
  <2>3. /\ balance' \in [Users -> Nat] /\ entries' \subseteq Entry
        /\ createdAt' \in [Keys -> 0..MaxClock] /\ status' = status
    BY <1>10, <1>b, <2>1, Paying DEF PostClaim, bookVars
  <2> QED
    BY <1>10, <1>b, <2>2, <2>3, Typed DEF PostClaim
<1>11. ASSUME NEW r \in Requests, Interrupted(r) PROVE RewardsTypeOK' /\ req' \in [Requests -> Call]
  <2>1. /\ stage' \in [Requests -> Done \union InTransaction \union {"read", "lock", "write"}]
        /\ req' \in [Requests -> Call]
    BY <1>11, <1>t, NoLocalsTyped DEF Interrupted, Done
  <2> QED
    BY <1>11, <1>b, <2>1, Typed DEF Interrupted, bookVars
<1>12. ASSUME NEW u \in Users, MoveAccount(u) PROVE RewardsTypeOK' /\ req' \in [Requests -> Call]
  BY <1>12 DEF MoveAccount, Suspend, Unsuspend, Move, RewardsTypeOK, Statuses
<1>13. CASE Tick
  BY <1>13, RewardsAssumption DEF Tick, RewardsTypeOK, bookVars
<1>14. CASE UNCHANGED rewardVars
  BY <1>14 DEF rewardVars, RewardsTypeOK, bookVars
<1> QED
  BY <1>1, <1>2, <1>3, <1>4, <1>5, <1>6, <1>7, <1>8, <1>9, <1>10, <1>11, <1>12, <1>13, <1>14
  DEF RewardsNext, Step

-----------------------------------------------------------------------------
(* Steps that leave the entries and the clock alone *)

\* Nothing that is said of the entries changes then.
LEMMA SameBook ==
  ASSUME UNCHANGED <<entries, createdAt, clock>>
  PROVE  /\ \A k : Posted(k)' <=> Posted(k)
         /\ \A u : Claims(u)' = Claims(u) /\ AdsUsedToday(u)' = AdsUsedToday(u)
         /\ Dated => Dated'
         /\ Chained => Chained'
         /\ CapHolds => CapHolds'
         /\ ClaimsAreSpaced => ClaimsAreSpaced'
<1>1. \A k : Posted(k)' <=> Posted(k)
  BY DEF Posted
<1>2. \A u : Claims(u)' = Claims(u) /\ AdEntries(u)' = AdEntries(u)
  BY <1>1 DEF Claims, AdEntries
<1>3. \A u : AdsUsedToday(u)' = AdsUsedToday(u)
  BY <1>2 DEF AdsUsedToday
<1> QED
  BY <1>1, <1>2, <1>3 DEF Dated, Chained, CapHolds, ClaimsAreSpaced

\* One request moves: the others keep their rows, and what is said of them.
LEMMA Quiet ==
  ASSUME IInv, RewardsTypeOK', req' \in [Requests -> Call],
         NEW r \in Requests, UNCHANGED <<entries, createdAt, clock>>,
         \A q \in Requests \ {r} : stage'[q] = stage[q] /\ req'[q] = req[q],
         \A u \in Users : rowOwner'[u] = rowOwner[u] \/ rowOwner[u] \in {r, Nobody},
         RequestOK(r)', ShownIsPaid'
  PROVE  IInv'
<1>1. ASSUME NEW q \in Requests \ {r} PROVE RequestOK(q)'
  <2>1. RequestOK(q) /\ stage'[q] = stage[q] /\ req'[q] = req[q] /\ req[q].user \in Users
    BY DEF IInv, Call
  <2>2. About(q)' /\ Truthful(q)' /\ Checked(q)' /\ req'[q].now <= clock'
    BY <2>1, SameBook DEF RequestOK, About, Truthful, Checked
  <2>3. Locked(q)'
    BY <2>1, RewardsAssumption DEF RequestOK, Locked
  <2> QED
    BY <2>2, <2>3 DEF RequestOK
<1> QED
  BY <1>1, SameBook DEF IInv

\* What a session shows was paid, if the step writes nothing to it.
LEMMA SameSessions ==
  ASSUME ShownIsPaid, UNCHANGED <<entries, session>>
  PROVE  ShownIsPaid'
  BY DEF ShownIsPaid, Posted

LEMMA QuietSteps ==
  ASSUME IInv, RewardsTypeOK', req' \in [Requests -> Call], NEW r \in Requests,
         \/ \E c \in Callbacks : Deliver(r, c)
         \/ \E u \in Users : Claim(r, u)
         \/ ReadSession(r) \/ Lock(r) \/ CountAds(r) \/ WriteSession(r) \/ LastClaim(r) \/ Interrupted(r)
  PROVE  IInv'
<1> USE DEF Proceed, RequestOK, InTransaction
<1>t. /\ stage \in [Requests -> Done \union InTransaction \union {"read", "lock", "write"}]
      /\ req \in [Requests -> Call] /\ RequestOK(r) /\ ShownIsPaid /\ clock \in 0..MaxClock
      /\ req[r].user \in Users /\ req[r].about \in Callbacks \union {None}
      /\ rowOwner \in [Users -> Requests \union {Nobody}]
  BY DEF IInv, RewardsTypeOK, Call
<1>1. ASSUME NEW c \in Callbacks, Deliver(r, c) PROVE IInv'
  <2>1. RequestOK(r)'
    BY <1>1, <1>t, RewardsAssumption DEF Deliver, Locals, About, Locked, Checked, Truthful
  <2> QED
    BY <1>1, <1>t, <2>1, Quiet, SameSessions DEF Deliver, bookVars
<1>2. ASSUME NEW u \in Users, Claim(r, u) PROVE IInv'
  <2>1. RequestOK(r)'
    BY <1>2, <1>t DEF Claim, Locals, About, Locked, Checked, Truthful
  <2> QED
    BY <1>2, <1>t, <2>1, Quiet, SameSessions DEF Claim, bookVars
<1>3. CASE ReadSession(r)
  <2>1. RequestOK(r)'
    BY <1>3, <1>t, NoLocalsTyped DEF ReadSession, Answer, About, Locked, Checked, Truthful
  <2>2. ShownIsPaid'
    BY <1>3, <1>t DEF ReadSession, ShownIsPaid, Posted, bookVars, IInv, RewardsTypeOK
  <2> QED
    BY <1>3, <1>t, <2>1, <2>2, Quiet DEF ReadSession, Answer, bookVars
<1>4. CASE Lock(r)
  <2>1. RequestOK(r)'
    BY <1>4, <1>t DEF Lock, RowFree, About, Locked, Checked, Truthful
  <2>2. \A u \in Users : rowOwner'[u] = rowOwner[u] \/ rowOwner[u] \in {r, Nobody}
    BY <1>4, <1>t DEF Lock, RowFree
  <2> QED
    BY <1>4, <1>t, <2>1, <2>2, Quiet, SameSessions DEF Lock, bookVars
<1>5. CASE CountAds(r)
  <2>1. UNCHANGED <<entries, createdAt, clock, session>>
    BY <1>5 DEF CountAds, bookVars
  <2>2. RequestOK(r)'
    <3>1. About(r)' /\ Locked(r)' /\ req'[r].now <= clock'
      BY SMTT(30), <1>5, <1>t DEF CountAds, Outcome, About, Locked, Call
    <3>2. Checked(r)'
      BY <1>5, <1>t, <2>1, SameBook DEF CountAds, Outcome, Checked, About
    <3>3. Truthful(r)'
      BY <1>5, <1>t, <2>1, SameBook DEF CountAds, Outcome, Truthful, Replay, Call
    <3> QED
      BY <3>1, <3>2, <3>3
  <2>3. \A u \in Users : rowOwner'[u] = rowOwner[u] \/ rowOwner[u] \in {r, Nobody}
    BY <1>5, <1>t DEF CountAds, Unlock
  <2> QED
    BY <1>5, <1>t, <2>1, <2>2, <2>3, Quiet, SameSessions DEF CountAds, Outcome
<1>6. CASE WriteSession(r)
  <2>1. RequestOK(r)'
    BY <1>6, <1>t, NoLocalsTyped DEF WriteSession, Answer, About, Locked, Checked, Truthful
  <2>2. ShownIsPaid'
    <3>1. /\ req[r].about \in Callbacks
          /\ OwnerOf[req[r].about.nonce] = req[r].about.user
          /\ req[r].status = "granted" => Posted(AdKey(req[r].about.txn))
      BY <1>6, <1>t DEF WriteSession, About, Truthful
    <3>2. session' = [session EXCEPT ![req[r].about.nonce] = req[r].status]
          /\ UNCHANGED <<entries, createdAt, clock>>
      BY <1>6 DEF WriteSession, bookVars
    <3>3. \A k : Posted(k)' <=> Posted(k)
      BY <3>2, SameBook
    <3> QED
      BY <1>t, <3>1, <3>2, <3>3 DEF ShownIsPaid, IInv, RewardsTypeOK
  <2> QED
    BY <1>6, <1>t, <2>1, <2>2, Quiet DEF WriteSession, Answer, bookVars
<1>7. CASE LastClaim(r)
  <2> DEFINE u == req[r].user
             last == CHOOSE n \in Claims(u) : \A m \in Claims(u) : n >= m
  <2>1. UNCHANGED <<entries, createdAt, clock, session>> /\ stage[r] = "lastClaim" /\ req[r].about = None
    BY <1>7, <1>t DEF LastClaim, bookVars, About
  <2>2. CASE Claims(u) = {}
    <3>1. stage' = [stage EXCEPT ![r] = "post"] /\ UNCHANGED <<req, rowOwner>>
      BY <1>7, <2>2 DEF LastClaim
    <3>2. Checked(r)'
      <4>1. req[r].last = 0 /\ 0..(0 - 1) = {}
        BY <2>1, <1>t DEF About
      <4>2. \A v : Claims(v)' = Claims(v)
        BY <2>1, SameBook
      <4> QED
        BY <3>1, <4>1, <4>2, <2>1, <2>2 DEF Checked
    <3>3. RequestOK(r)'
      BY <3>1, <3>2, <2>1, <1>t DEF About, Locked, Truthful
    <3> QED
      BY <3>1, <3>3, <2>1, <1>t, Quiet, SameSessions
  <2>3. CASE Claims(u) # {} /\ Ready(req[r].now, createdAt[ClaimKey(u, last)])
    <3>1. /\ stage' = [stage EXCEPT ![r] = "post"] /\ req' = [req EXCEPT ![r].last = last + 1]
          /\ UNCHANGED rowOwner
      BY <1>7, <2>3 DEF LastClaim
    <3>2. Claims(u) = 0..last /\ last \in Claims(u) /\ last \in Nat
      BY <2>3, <1>t, NextClaimFits DEF IInv, Claims, Call
    <3>3. Checked(r)'
      <4>1. /\ ClaimTicks \in Nat /\ req[r].now \in 0..MaxClock
            /\ \A m \in Claims(u) : m \in Nat /\ createdAt[ClaimKey(u, m)] \in Int
        BY RewardsAssumption, <1>t DEF Claims, IInv, RewardsTypeOK, Call
      <4>2. \A m \in Claims(u) : m <= last
        BY <3>2
      <4>3. ASSUME NEW m \in Claims(u) PROVE createdAt[ClaimKey(u, m)] + ClaimTicks <= req[r].now
        <5>1. m < last => createdAt[ClaimKey(u, last)] >= createdAt[ClaimKey(u, m)] + ClaimTicks
          BY <3>2, <1>t DEF IInv, ClaimsAreSpaced
        <5> QED
          BY <5>1, <4>1, <4>2, <3>2, <2>3 DEF Ready
      <4>4. \A v : Claims(v)' = Claims(v)
        BY <2>1, SameBook
      <4> HIDE DEF last
      <4>5. /\ req'[r].user = u /\ req'[r].about = None /\ req'[r].now = req[r].now
            /\ req'[r].last = last + 1
        BY <3>1, <2>1, <1>t DEF Call
      <4>6. Claims(u) = 0..((last + 1) - 1)
        BY <3>2
      <4> QED
        BY <4>3, <4>4, <4>5, <4>6, <2>1 DEF Checked
    <3>4. RequestOK(r)'
      BY <3>1, <3>3, <2>1, <1>t DEF About, Locked, Truthful, Call
    <3> QED
      BY <3>1, <3>4, <2>1, <1>t, Quiet, SameSessions
  <2>4. CASE Claims(u) # {} /\ ~Ready(req[r].now, createdAt[ClaimKey(u, last)])
    <3>1. stage' = [stage EXCEPT ![r] = "notReady"] /\ Unlock(r) /\ UNCHANGED req
      BY <1>7, <2>4 DEF LastClaim
    <3>2. RequestOK(r)'
      BY <3>1, <2>1, <1>t DEF About, Locked, Checked, Truthful
    <3>3. \A v \in Users : rowOwner'[v] = rowOwner[v] \/ rowOwner[v] \in {r, Nobody}
      BY <3>1, <1>t DEF Unlock
    <3> QED
      BY <3>1, <3>2, <3>3, <2>1, <1>t, Quiet, SameSessions
  <2> QED
    BY <2>2, <2>3, <2>4
<1>8. CASE Interrupted(r)
  <2>1. RequestOK(r)'
    BY <1>8, <1>t, NoLocalsTyped DEF Interrupted, Done, About, Locked, Checked, Truthful
  <2>2. \A u \in Users : rowOwner'[u] = rowOwner[u] \/ rowOwner[u] \in {r, Nobody}
    BY <1>8, <1>t DEF Interrupted, Unlock
  <2> QED
    BY <1>8, <1>t, <2>1, <2>2, Quiet, SameSessions DEF Interrupted, bookVars
<1> QED
  BY <1>1, <1>2, <1>3, <1>4, <1>5, <1>6, <1>7, <1>8

-----------------------------------------------------------------------------
(* Posting an entry *)

\* What an entry of now, under a new key, leaves as it was.
LEMMA NewEntry ==
  ASSUME RewardsTypeOK, Dated, NEW u \in Users, NEW k \in Keys, NEW a, ~Posted(k), UNCHANGED clock,
         entries' = entries \union {[user |-> u, key |-> k, amount |-> a]},
         createdAt' = [createdAt EXCEPT ![k] = clock]
  PROVE  /\ \A l : Posted(l)' <=> Posted(l) \/ l = k
         /\ \A v : (v = u /\ k[1] = "rewarded_ad") \/
              /\ AdEntries(v)' = AdEntries(v) /\ AdsUsedToday(v)' = AdsUsedToday(v)
         /\ \A e \in entries : e.key # k /\ e.key \in Keys /\ createdAt'[e.key] = createdAt[e.key]
         /\ \A l \in Keys \ {k} : createdAt'[l] = createdAt[l]
         /\ createdAt'[k] = clock
         /\ Dated'
<1> DEFINE e0 == [user |-> u, key |-> k, amount |-> a]
<1>1. \A e \in entries : e.key # k /\ e.key \in Keys /\ createdAt'[e.key] = createdAt[e.key]
  BY DEF Posted, RewardsTypeOK, Entry
<1>2. e0.user = u /\ e0.key = k
  OBVIOUS
<1>3. \A l : Posted(l)' <=> Posted(l) \/ l = k
  BY <1>2 DEF Posted
<1>4. ASSUME NEW v, ~(v = u /\ k[1] = "rewarded_ad")
      PROVE  AdEntries(v)' = AdEntries(v) /\ AdsUsedToday(v)' = AdsUsedToday(v)
  <2>1. AdEntries(v)' = AdEntries(v)
    BY <1>2, <1>4 DEF AdEntries
  <2>2. {e \in AdEntries(v)' : Day(createdAt'[e.key]) = Day(clock)}
          = {e \in AdEntries(v) : Day(createdAt[e.key]) = Day(clock)}
    BY <1>1, <2>1 DEF AdEntries
  <2>3. AdsUsedToday(v)' = Cardinality({e \in AdEntries(v)' : Day(createdAt'[e.key]) = Day(clock)})
    BY DEF AdsUsedToday, Day
  <2> QED
    BY <2>1, <2>2, <2>3 DEF AdsUsedToday
<1>5. Dated'
  <2>1. IsFiniteSet(entries')
    BY FS_AddElement DEF Dated
  <2>2. \A l \in Keys : createdAt'[l] <= clock'
    BY DEF Dated, RewardsTypeOK
  <2> QED
    BY <2>1, <2>2 DEF Dated
<1>6. \A l \in Keys \ {k} : createdAt'[l] = createdAt[l]
  BY DEF RewardsTypeOK
<1>7. createdAt'[k] = clock
  BY DEF RewardsTypeOK
<1> QED
  BY <1>1, <1>3, <1>4, <1>5, <1>6, <1>7

\* A request that has a user's row is the only one between its reads and its
\* post: the others keep what they know.
LEMMA OthersKnow ==
  ASSUME IInv, NEW r \in Requests, NEW u \in Users, u = req[r].user, stage[r] \in InTransaction,
         NEW k \in Keys, NEW a, ~Posted(k), UNCHANGED clock,
         entries' = entries \union {[user |-> u, key |-> k, amount |-> a]},
         createdAt' = [createdAt EXCEPT ![k] = clock],
         \A v \in Users \ {u} : \A n : k # ClaimKey(v, n),
         Unlock(r), \A q \in Requests \ {r} : stage'[q] = stage[q] /\ req'[q] = req[q]
  PROVE  /\ \A q \in Requests \ {r} : RequestOK(q)'
         /\ \A v \in Users \ {u} : /\ Claims(v)' = Claims(v)
                                   /\ \A n \in Claims(v) :
                                        createdAt'[ClaimKey(v, n)] = createdAt[ClaimKey(v, n)]
<1>1. ASSUME NEW v \in Users \ {u}
      PROVE /\ Claims(v)' = Claims(v)
            /\ \A n \in Claims(v) : createdAt'[ClaimKey(v, n)] = createdAt[ClaimKey(v, n)]
            /\ AdsUsedToday(v)' = AdsUsedToday(v)
  <2>1. /\ \A l : Posted(l)' <=> Posted(l) \/ l = k
        /\ AdsUsedToday(v)' = AdsUsedToday(v)
        /\ \A l \in Keys \ {k} : createdAt'[l] = createdAt[l]
    BY ZenonT(40), NewEntry DEF IInv
  <2>2. \A n \in 0..MaxClock : ClaimKey(v, n) \in Keys \ {k}
    BY RewardsAssumption
  <2>3. Claims(v)' = Claims(v)
    BY <2>1, <2>2 DEF Claims
  <2>4. \A n \in Claims(v) : n \in 0..MaxClock
    BY DEF Claims
  <2> QED
    BY <2>1, <2>2, <2>3, <2>4
<1>2. ASSUME NEW q \in Requests \ {r} PROVE RequestOK(q)'
  <2>1. RequestOK(q) /\ stage'[q] = stage[q] /\ req'[q] = req[q] /\ req[q].user \in Users
    BY DEF IInv, Call
  <2>2. rowOwner[u] = r
    BY DEF IInv, RequestOK, Locked
  <2>3. Locked(q)'
    BY <2>1, <2>2 DEF RequestOK, Locked, Unlock, IInv, RewardsTypeOK
  <2>4. stage[q] = "post" => req[q].user # u
    BY <2>1, <2>2 DEF RequestOK, Locked, InTransaction
  <2>5. Checked(q)'
    BY <2>1, <2>4, <1>1 DEF RequestOK, Checked
  <2>6. About(q)' /\ req'[q].now <= clock'
    BY <2>1 DEF RequestOK, About
  <2>7. Truthful(q)'
    BY <2>1, NewEntry DEF RequestOK, Truthful, IInv
  <2> QED
    BY <2>3, <2>5, <2>6, <2>7 DEF RequestOK
<1> QED
  BY <1>1, <1>2

\* The ads of a user of one UTC day.
AdsOfDay(u, d) == {e \in AdEntries(u) : Day(createdAt[e.key]) = d}

LEMMA CountsAreNumbers ==
  ASSUME Dated, NEW u, NEW d
  PROVE  IsFiniteSet(AdsOfDay(u, d)) /\ Cardinality(AdsOfDay(u, d)) \in Nat
<1>1. AdsOfDay(u, d) \subseteq entries
  BY DEF AdsOfDay, AdEntries
<1> QED
  BY <1>1, FS_Subset, FS_CardinalityType DEF Dated

\* The cap holds after an entry that is no ad, or an ad of a user below it.
LEMMA CapAfter ==
  ASSUME RewardsTypeOK, Dated, CapHolds,
         NEW u \in Users, NEW k \in Keys, NEW a, ~Posted(k), UNCHANGED clock,
         entries' = entries \union {[user |-> u, key |-> k, amount |-> a]},
         createdAt' = [createdAt EXCEPT ![k] = clock],
         k[1] = "rewarded_ad" => AdsUsedToday(u) < AdDailyCap
  PROVE  CapHolds'
<1> DEFINE e0 == [user |-> u, key |-> k, amount |-> a]
<1>1. \A e \in entries : e.key # k /\ createdAt'[e.key] = createdAt[e.key]
  BY NewEntry
<1>2. e0.user = u /\ e0.key = k /\ createdAt'[k] = clock /\ e0 \notin entries
  BY <1>1, NewEntry
<1>3. AdDailyCap \in Nat
  BY RewardsAssumption
<1>4. ASSUME NEW v \in Users, NEW d \in 0..Day(MaxClock)
      PROVE  Cardinality(AdsOfDay(v, d)') <= AdDailyCap
  <2>1. Cardinality(AdsOfDay(v, d)) <= AdDailyCap
    BY DEF CapHolds, AdsOfDay
  <2>2. CASE v = u /\ k[1] = "rewarded_ad" /\ d = Day(clock)
    <3>1. AdsOfDay(v, d)' = AdsOfDay(v, d) \union {e0}
      BY <1>1, <1>2, <2>2 DEF AdsOfDay, AdEntries, Day
    <3>2. Cardinality(AdsOfDay(v, d)) < AdDailyCap
      BY <2>2 DEF AdsUsedToday, AdsOfDay
    <3>3. e0 \notin AdsOfDay(v, d)
      BY <1>2 DEF AdsOfDay, AdEntries
    <3> QED
      <4>1. Cardinality(AdsOfDay(v, d) \union {e0}) = Cardinality(AdsOfDay(v, d)) + 1
        BY <3>3, FS_AddElement, CountsAreNumbers
      <4> QED
        BY <3>1, <3>2, <4>1, <1>3, CountsAreNumbers
  <2>3. CASE ~(v = u /\ k[1] = "rewarded_ad" /\ d = Day(clock))
    <3>1. AdsOfDay(v, d)' = AdsOfDay(v, d)
      BY <1>1, <1>2, <2>3 DEF AdsOfDay, AdEntries, Day
    <3> QED
      BY <3>1, <2>1
  <2> QED
    BY <2>2, <2>3
<1> QED
  BY <1>4 DEF CapHolds, AdsOfDay, Day

\* Posting an ad.
LEMMA PostAdKeeps ==
  ASSUME IInv, RewardsTypeOK', req' \in [Requests -> Call], NEW r \in Requests, PostAd(r),
         NEW u, u = req[r].user, NEW k, k = AdKey(req[r].about.txn)
  PROVE  IInv'
<1>t. /\ stage \in [Requests -> Done \union InTransaction \union {"read", "lock", "write"}]
      /\ req \in [Requests -> Call] /\ RequestOK(r) /\ u \in Users
      /\ rowOwner \in [Users -> Requests \union {Nobody}] /\ clock \in 0..MaxClock
  BY DEF IInv, RewardsTypeOK, Call, InTransaction
<1>1. /\ stage[r] = "post" /\ req[r].about \in Callbacks /\ req[r].about # None /\ k \in Keys /\ k[1] = "rewarded_ad"
      /\ \A v, n : k # ClaimKey(v, n)
  BY <1>t, RewardsAssumption DEF PostAd, Call, AdKey, ClaimKey
<1>2. /\ Unlock(r) /\ stage' = [stage EXCEPT ![r] = "write"] /\ UNCHANGED <<clock, session>>
      /\ \A v \in Users : rowOwner'[v] = rowOwner[v] \/ rowOwner[v] \in {r, Nobody}
      /\ \A q \in Requests \ {r} : stage'[q] = stage[q] /\ req'[q] = req[q]
  BY <1>t DEF PostAd, Proceed, Unlock, Outcome, Rejected
<1>3. CASE Pay(u, k, AdCredits) /\ Outcome(r, "granted")
  <2>1. /\ Posted(k)'
        /\ \/ Posted(k) /\ UNCHANGED <<entries, createdAt>>
           \/ /\ ~Posted(k) /\ entries' = entries \union {[user |-> u, key |-> k, amount |-> AdCredits]}
              /\ createdAt' = [createdAt EXCEPT ![k] = clock]
    BY <1>t, <1>1, <1>3, Paying DEF IInv
  <2>2. req' = [req EXCEPT ![r].status = "granted"]
    BY <1>3 DEF Outcome
  <2>3. RequestOK(r)'
    <3>1. /\ req'[r].about = req[r].about /\ req'[r].now = req[r].now
          /\ req'[r].status = "granted" /\ stage'[r] = "write"
      BY <2>2, <1>2, <1>t DEF Call
    <3>2. Truthful(r)'
      BY <2>1, <3>1 DEF Truthful, Posted
    <3>3. About(r)' /\ Locked(r)' /\ Checked(r)'
      BY <3>1, <1>1, <1>t DEF RequestOK, About, Locked, Checked, InTransaction
    <3>4. req'[r].now <= clock'
      BY <3>1, <1>2, <1>t DEF RequestOK
    <3> QED
      BY <3>2, <3>3, <3>4 DEF RequestOK
  <2>4. CASE UNCHANGED <<entries, createdAt>>
    BY <2>3, <2>4, <1>2, <1>t, Quiet, SameSessions DEF IInv
  <2>5. CASE ~UNCHANGED <<entries, createdAt>>
    <3>1. /\ ~Posted(k) /\ createdAt' = [createdAt EXCEPT ![k] = clock]
          /\ entries' = entries \union {[user |-> u, key |-> k, amount |-> AdCredits]}
      BY <2>1, <2>5
    <3>2. stage[r] \in InTransaction /\ \A v \in Users \ {u} : \A n : k # ClaimKey(v, n)
      BY <1>1 DEF InTransaction
    <3>3. \A q \in Requests \ {r} : RequestOK(q)'
      <4>1. UNCHANGED clock /\ Unlock(r) /\ stage[r] \in InTransaction
            /\ \A q \in Requests \ {r} : stage'[q] = stage[q] /\ req'[q] = req[q]
        BY <1>2, <3>2
      <4> QED
        BY ZenonT(60), <3>1, <3>2, <1>1, <1>t, <4>1, OthersKnow
    <3>4. AdsUsedToday(u) < AdDailyCap
      BY <1>1, <1>t, RewardsAssumption DEF RequestOK, Checked
    <3>5. CapHolds'
      BY <3>1, <3>4, <1>1, <1>2, <1>t, CapAfter DEF IInv
    <3>6. /\ \A l : Posted(l)' <=> Posted(l) \/ l = k
          /\ \A l \in Keys \ {k} : createdAt'[l] = createdAt[l]
          /\ Dated'
      BY <3>1, <1>1, <1>2, <1>t, NewEntry DEF IInv
    <3>7. /\ \A v : Claims(v)' = Claims(v)
          /\ \A v \in Users : \A n \in Claims(v) :
               createdAt'[ClaimKey(v, n)] = createdAt[ClaimKey(v, n)]
      BY <3>6, <1>1, RewardsAssumption DEF Claims
    <3>8. Chained' /\ ClaimsAreSpaced'
      BY <3>7 DEF IInv, Chained, ClaimsAreSpaced
    <3>9. ShownIsPaid'
      BY <3>6, <1>2 DEF IInv, ShownIsPaid
    <3> QED
      BY <2>3, <3>3, <3>5, <3>6, <3>8, <3>9 DEF IInv
  <2> QED
    BY <2>4, <2>5
<1>4. CASE Rejected(r) /\ UNCHANGED <<bookVars, createdAt>>
  <2>1. req' = [req EXCEPT ![r].status = "rejected"] /\ UNCHANGED <<entries, createdAt>>
    BY <1>4 DEF Rejected, Outcome, bookVars
  <2>2. RequestOK(r)'
    <3>1. /\ req'[r].about = req[r].about /\ req'[r].now = req[r].now
          /\ req'[r].status = "rejected" /\ stage'[r] = "write"
      BY <2>1, <1>2, <1>t DEF Call
    <3>2. About(r)' /\ Locked(r)' /\ Checked(r)' /\ Truthful(r)'
      BY <3>1, <1>1, <1>t DEF RequestOK, About, Locked, Checked, Truthful, InTransaction
    <3> QED
      BY <3>1, <3>2, <1>2, <1>t DEF RequestOK
  <2> QED
    BY <2>1, <2>2, <1>2, <1>t, Quiet, SameSessions DEF IInv
<1> QED
  BY <1>3, <1>4 DEF PostAd

\* Posting a claim.
LEMMA PostClaimKeeps ==
  ASSUME IInv, RewardsTypeOK', req' \in [Requests -> Call], NEW r \in Requests, PostClaim(r),
         NEW u, u = req[r].user, NEW k, k = ClaimKey(u, req[r].last)
  PROVE  IInv'
<1>t. /\ stage \in [Requests -> Done \union InTransaction \union {"read", "lock", "write"}]
      /\ req \in [Requests -> Call] /\ RequestOK(r) /\ u \in Users
      /\ req[r].last \in 0..MaxClock /\ req[r].now \in 0..MaxClock /\ MaxClock \in Nat
      /\ rowOwner \in [Users -> Requests \union {Nobody}] /\ clock \in 0..MaxClock
      /\ createdAt \in [Keys -> 0..MaxClock]
  BY RewardsAssumption DEF IInv, RewardsTypeOK, Call, InTransaction
<1>1. /\ stage[r] = "post" /\ req[r].about = None /\ k \in Keys /\ k[1] # "rewarded_ad"
      /\ \A v, n : ClaimKey(v, n) = k => v = u /\ n = req[r].last
  BY <1>t, RewardsAssumption DEF PostClaim, ClaimKey
<1>2. /\ Unlock(r) /\ UNCHANGED <<clock, session, req>>
      /\ stage'[r] \in {"claimed", "refused"}
      /\ \A v \in Users : rowOwner'[v] = rowOwner[v] \/ rowOwner[v] \in {r, Nobody}
      /\ \A q \in Requests \ {r} : stage'[q] = stage[q] /\ req'[q] = req[q]
  BY <1>t DEF PostClaim, Proceed, Unlock
<1>3. RequestOK(r)'
  BY <1>2, <1>t DEF RequestOK, About, Locked, Checked, Truthful, InTransaction
<1>4. CASE UNCHANGED <<entries, createdAt>>
  BY <1>2, <1>3, <1>4, Quiet, SameSessions DEF IInv
<1>5. CASE ~UNCHANGED <<entries, createdAt>>
  <2>1. /\ ~Posted(k) /\ createdAt' = [createdAt EXCEPT ![k] = clock]
        /\ entries' = entries \union {[user |-> u, key |-> k, amount |-> ClaimCredits]}
    <3>1. Pay(u, k, ClaimCredits)
      BY <1>5 DEF PostClaim, bookVars
    <3> QED
      BY <1>5, <1>t, <1>1, <3>1, Paying DEF IInv
  <2>2. \A v \in Users \ {u} : \A n : k # ClaimKey(v, n)
    BY <1>1
  <2>3. /\ \A q \in Requests \ {r} : RequestOK(q)'
        /\ \A v \in Users \ {u} : /\ Claims(v)' = Claims(v)
                                  /\ \A n \in Claims(v) :
                                       createdAt'[ClaimKey(v, n)] = createdAt[ClaimKey(v, n)]
    <3>1. /\ UNCHANGED clock /\ Unlock(r) /\ stage[r] \in InTransaction
          /\ \A q \in Requests \ {r} : stage'[q] = stage[q] /\ req'[q] = req[q]
          /\ u \in Users /\ k \in Keys
      BY <1>1, <1>2, <1>t DEF InTransaction
    <3>2. \A q \in Requests \ {r} : RequestOK(q)'
      BY <2>1, <2>2, <3>1, OthersKnow, ZenonT(90)
    <3>3. ASSUME NEW v \in Users \ {u}
          PROVE  /\ Claims(v)' = Claims(v)
                 /\ \A n \in Claims(v) : createdAt'[ClaimKey(v, n)] = createdAt[ClaimKey(v, n)]
      BY <2>1, <2>2, <3>1, OthersKnow
    <3> QED
      BY <3>2, <3>3
  <2>4. CapHolds'
    BY <2>1, <1>1, <1>2, <1>t, CapAfter DEF IInv
  <2>5. /\ \A l : Posted(l)' <=> Posted(l) \/ l = k
        /\ \A l \in Keys \ {k} : createdAt'[l] = createdAt[l]
        /\ createdAt'[k] = clock /\ Dated'
    BY <2>1, <1>1, <1>2, <1>t, NewEntry DEF IInv
  <2>6. /\ Claims(u) = 0..(req[r].last - 1)
        /\ \A m \in Claims(u) : createdAt[ClaimKey(u, m)] + ClaimTicks <= req[r].now
        /\ req[r].now <= clock
    BY <1>1, <1>t DEF RequestOK, Checked
  <2>7. Claims(u)' = 0..req[r].last
    BY <2>5, <2>6, <1>1, <1>t DEF Claims
  <2>8. ASSUME NEW m \in Claims(u)
        PROVE  /\ m < req[r].last /\ m \in Nat /\ createdAt'[ClaimKey(u, m)] = createdAt[ClaimKey(u, m)]
               /\ createdAt[ClaimKey(u, m)] \in Nat
    <3>1. m \in 0..MaxClock /\ m < req[r].last /\ ClaimKey(u, m) \in Keys
      BY <2>6, <1>t, RewardsAssumption DEF Claims
    <3> QED
      BY <3>1, <2>5, <1>1, <1>t
  <2>9. ClaimTicks \in Nat /\ ClaimTicks > 0
    BY RewardsAssumption
  <2>10. Chained'
    <3>1. clock >= req[r].last
      <4>1. CASE req[r].last = 0
        BY <4>1, <1>t
      <4>2. CASE req[r].last > 0
        <5>1. req[r].last - 1 \in Claims(u)
          BY <4>2, <2>6, <1>t
        <5>2. createdAt[ClaimKey(u, req[r].last - 1)] >= req[r].last - 1
          BY <5>1, <1>t DEF IInv, Chained
        <5> QED
          BY <5>1, <5>2, <2>6, <2>8, <2>9, <1>t
      <4> QED
        BY <4>1, <4>2, <1>t
    <3>2. ASSUME NEW n \in 0..req[r].last PROVE createdAt'[ClaimKey(u, n)] >= n
      <4>1. CASE n = req[r].last
        BY <3>1, <4>1, <2>5, <1>t
      <4>2. CASE n # req[r].last
        <5>1. n \in Claims(u)
          BY <4>2, <2>6, <1>t
        <5> QED
          BY <5>1, <2>8, <1>t DEF IInv, Chained
      <4> QED
        BY <4>1, <4>2
    <3>3. ASSUME NEW v \in Users
          PROVE  /\ \E n \in 0..(MaxClock + 1) : Claims(v)' = 0..(n - 1)
                 /\ \A n \in Claims(v)' : createdAt'[ClaimKey(v, n)] >= n
      <4>1. CASE v = u
        <5>1. req[r].last + 1 \in 0..(MaxClock + 1) /\ Claims(u)' = 0..((req[r].last + 1) - 1)
          BY <2>7, <1>t
        <5> QED
          BY <4>1, <5>1, <2>7, <3>2
      <4>2. CASE v # u
        BY <4>2, <2>3 DEF IInv, Chained
      <4> QED
        BY <4>1, <4>2
    <3> QED
      BY <3>3 DEF Chained
  <2>11. ClaimsAreSpaced'
    <3>1. ASSUME NEW m \in 0..req[r].last, NEW n \in 0..req[r].last, m < n
          PROVE  createdAt'[ClaimKey(u, n)] >= createdAt'[ClaimKey(u, m)] + ClaimTicks
      <4>1. m \in Claims(u)
        BY <3>1, <2>6, <1>t
      <4>2. CASE n = req[r].last
        BY <4>1, <4>2, <2>5, <2>6, <2>8, <2>9, <1>t
      <4>3. CASE n # req[r].last
        <5>1. n \in Claims(u)
          BY <4>3, <2>6, <1>t
        <5> QED
          BY <3>1, <4>1, <5>1, <2>8, <1>t DEF IInv, ClaimsAreSpaced
      <4> QED
        BY <4>2, <4>3
    <3>2. ASSUME NEW v \in Users, NEW m \in Claims(v)', NEW n \in Claims(v)', m < n
          PROVE  createdAt'[ClaimKey(v, n)] >= createdAt'[ClaimKey(v, m)] + ClaimTicks
      <4>1. CASE v = u
        BY <4>1, <3>1, <3>2, <2>7
      <4>2. CASE v # u
        BY <4>2, <3>2, <2>3 DEF IInv, ClaimsAreSpaced
      <4> QED
        BY <4>1, <4>2
    <3> QED
      BY <3>2 DEF ClaimsAreSpaced
  <2>12. ShownIsPaid'
    BY <2>5, <1>2 DEF IInv, ShownIsPaid
  <2> QED
    BY <1>3, <2>3, <2>4, <2>5, <2>10, <2>11, <2>12 DEF IInv
<1> QED
  BY <1>4, <1>5

-----------------------------------------------------------------------------
(* The other steps *)

\* Steps of no request: a session is opened or lost, an account is suspended.
LEMMA OutsideKeeps ==
  ASSUME IInv, RewardsTypeOK',
         \/ \E n \in Nonces : StartAd(n) \/ Expire(n)
         \/ \E u \in Users : MoveAccount(u)
         \/ UNCHANGED rewardVars
  PROVE  IInv'
<1>1. UNCHANGED <<entries, createdAt, clock, stage, req, rowOwner>>
  BY DEF StartAd, Expire, MoveAccount, Suspend, Unsuspend, Move, rewardVars, bookVars
<1>2. \A n \in Nonces : session'[n] = "granted" => session[n] = "granted"
  BY DEF StartAd, Expire, MoveAccount, rewardVars, IInv, RewardsTypeOK
<1>3. ShownIsPaid'
  BY <1>1, <1>2 DEF IInv, ShownIsPaid, Posted
<1>4. \A r \in Requests : RequestOK(r)'
  BY <1>1, SameBook DEF IInv, RequestOK, About, Locked, Checked, Truthful
<1> QED
  BY <1>1, <1>3, <1>4, SameBook DEF IInv

\* A new day starts without ads.
LEMMA TickKeeps ==
  ASSUME IInv, RewardsTypeOK', Tick
  PROVE  IInv'
<1>1. /\ clock \in Nat /\ clock' = clock + 1 /\ createdAt \in [Keys -> Nat]
      /\ \A e \in entries : e.key \in Keys /\ createdAt[e.key] <= clock
      /\ UNCHANGED <<entries, createdAt, session, stage, req, rowOwner>>
  BY DEF Tick, IInv, RewardsTypeOK, Dated, bookVars, Entry
<1>2. /\ \A k : Posted(k)' <=> Posted(k)
      /\ \A u : Claims(u)' = Claims(u) /\ AdEntries(u)' = AdEntries(u)
  BY <1>1 DEF Posted, Claims, AdEntries
<1>3. ASSUME NEW u, AdsUsedToday(u) < AdDailyCap PROVE AdsUsedToday(u)' < AdDailyCap
  <2>1. AdsUsedToday(u) = Cardinality(AdsOfDay(u, Day(clock)))
    BY DEF AdsUsedToday, AdsOfDay
  <2>2. AdsUsedToday(u)' = Cardinality(AdsOfDay(u, Day(clock')))
    BY <1>1, <1>2 DEF AdsUsedToday, AdsOfDay, Day
  <2>3. CASE Day(clock') = Day(clock)
    BY <2>1, <2>2, <2>3, <1>3
  <2>4. CASE Day(clock') # Day(clock)
    <3>1. \A e \in entries : Day(createdAt[e.key]) <= Day(clock) /\ Day(createdAt[e.key]) \in Nat
      BY <1>1, DaysGrow
    <3>2. Day(clock) <= Day(clock') /\ Day(clock) \in Nat /\ Day(clock') \in Nat
      BY <1>1, DaysGrow
    <3>3. AdsOfDay(u, Day(clock')) = {}
      BY <2>4, <3>1, <3>2 DEF AdsOfDay, AdEntries
    <3>4. 0 < AdDailyCap
      BY <1>3, <2>1, CountsAreNumbers, RewardsAssumption DEF IInv
    <3> QED
      BY <2>2, <3>3, <3>4, FS_EmptySet
  <2> QED
    BY <2>3, <2>4
<1>4. \A r \in Requests : RequestOK(r)'
  <2>1. ASSUME NEW r \in Requests PROVE RequestOK(r)'
    <3>1. RequestOK(r) /\ req[r].now \in Nat
      BY RewardsAssumption DEF IInv, Call
    <3>2. About(r)' /\ Locked(r)' /\ req'[r].now <= clock'
      BY <3>1, <1>1 DEF RequestOK, About, Locked
    <3>3. Checked(r)'
      BY <3>1, <1>1, <1>2, <1>3 DEF RequestOK, Checked
    <3>4. Truthful(r)'
      BY <3>1, <1>1 DEF RequestOK, Truthful, Posted
    <3> QED
      BY <3>2, <3>3, <3>4 DEF RequestOK
  <2> QED
    BY <2>1
<1>5. CapHolds'
  BY <1>1, <1>2 DEF IInv, CapHolds, Day
<1>6. Dated' /\ Chained' /\ ClaimsAreSpaced' /\ ShownIsPaid'
  BY <1>1, <1>2 DEF IInv, Dated, Chained, ClaimsAreSpaced, ShownIsPaid
<1> QED
  BY <1>1, <1>4, <1>5, <1>6 DEF IInv

-----------------------------------------------------------------------------
(* The theorems *)

LEMMA NextKeeps == IInv /\ [RewardsNext]_rewardVars => IInv'
<1> SUFFICES ASSUME IInv, [RewardsNext]_rewardVars PROVE IInv'
  OBVIOUS
<1>1. RewardsTypeOK' /\ req' \in [Requests -> Call]
  BY StepTyped DEF IInv
<1>2. ASSUME NEW r \in Requests, PostAd(r) PROVE IInv'
  BY <1>1, <1>2, PostAdKeeps
<1>3. ASSUME NEW r \in Requests, PostClaim(r) PROVE IInv'
  BY <1>1, <1>3, PostClaimKeeps
<1>4. CASE Tick
  BY <1>1, <1>4, TickKeeps
<1>5. ASSUME NEW r \in Requests,
             \/ \E c \in Callbacks : Deliver(r, c)
             \/ \E u \in Users : Claim(r, u)
             \/ ReadSession(r) \/ Lock(r) \/ CountAds(r) \/ WriteSession(r) \/ LastClaim(r) \/ Interrupted(r)
      PROVE  IInv'
  BY <1>1, <1>5, QuietSteps
<1>6. CASE \/ \E n \in Nonces : StartAd(n) \/ Expire(n)
           \/ \E u \in Users : MoveAccount(u)
           \/ UNCHANGED rewardVars
  BY <1>1, <1>6, OutsideKeeps
<1> QED
  BY <1>2, <1>3, <1>4, <1>5, <1>6 DEF RewardsNext, Step

\* The inductive invariant: rows locked by whom they should be, and what a request
\* read under the lock, still true when it posts (the transactions of AdRewardService
\* and DailyRewardService).
THEOREM InvariantHolds == RewardsSpec => []IInv
<1>1. RewardsInit => IInv
  BY InitOK
<1>2. IInv /\ [RewardsNext]_rewardVars => IInv'
  BY NextKeeps
<1> QED
  BY <1>1, <1>2, PTL DEF RewardsSpec

\* Every variable holds a value the code can store.
THEOREM TypeCorrect == RewardsSpec => []RewardsTypeOK
<1>1. IInv => RewardsTypeOK
  BY DEF IInv
<1> QED
  BY <1>1, InvariantHolds, PTL

\* The daily cap holds for any number of callbacks at once, also of ads counted
\* before midnight and paid after it (AdRewardService, its transaction).
THEOREM AdsStayUnderCap == RewardsSpec => []CapHolds
<1>1. IInv => CapHolds
  BY DEF IInv
<1> QED
  BY <1>1, InvariantHolds, PTL

\* Claims of a user keep their interval, whatever requests overlap and however long
\* they wait for the row (DailyRewardService.claim).
THEOREM ClaimsKeepInterval == RewardsSpec => []ClaimsAreSpaced
<1>1. IInv => ClaimsAreSpaced
  BY DEF IInv
<1> QED
  BY <1>1, InvariantHolds, PTL

\* A session that shows `granted' belongs to the user of an ad that was paid
\* (AdRewardService, the SET after the transaction).
THEOREM GrantedWasPaid == RewardsSpec => []ShownIsPaid
<1>1. IInv => ShownIsPaid
  BY DEF IInv
<1> QED
  BY <1>1, InvariantHolds, PTL
=============================================================================
