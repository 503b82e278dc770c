------------------------------- MODULE Rewards -------------------------------
(***************************************************************************)
(* Credits a user earns (src/src/modules/rewards): rewarded ads, granted   *)
(* when AdMob's callback arrives, at most so many a UTC day; and a claim   *)
(* every so many days.  Both run in a transaction that first locks the     *)
(* User row, so a user's rewards go in single file; the ledger is the book *)
(* of CreditBook, and a post inside such a transaction is atomic in it     *)
(* because the row it changes is locked.                                   *)
(*                                                                         *)
(* `clock' ticks DayTicks times a UTC day.  Prisma stamps createdAt when   *)
(* it sends the INSERT.  AdMob is external: it repeats a callback until it *)
(* is answered 200.                                                        *)
(***************************************************************************)
EXTENDS CreditBook, FiniteSets, Absent

CONSTANTS Requests,
          Nonces,        \* ad sessions the app may start
          Callbacks,     \* what AdMob may send: [txn, user, nonce]
          OwnerOf,       \* the user of each nonce
          AdDailyCap, AdCredits, ClaimCredits, ClaimTicks, DayTicks,
          DailyRewardEnabled,
          MaxClock,      \* bound: when time stops
          MaxCuts,       \* bound: requests that die
          Nobody

AdKey(txn) == <<"rewarded_ad", txn>>
\* `first:<user>' or `after:<id of the n-th claim>'.
ClaimKey(u, n) == <<"daily_reward", u, n>>

ASSUME RewardsAssumption ==
  /\ Users # {} /\ OwnerOf \in [Nonces -> Users]
  /\ Callbacks \subseteq [txn : STRING, user : Users, nonce : Nonces] /\ None \notin Callbacks
  /\ {AdKey(c.txn) : c \in Callbacks} \subseteq Keys
  /\ {ClaimKey(u, n) : u \in Users, n \in 0..MaxClock} \subseteq Keys
  /\ {AdCredits, ClaimCredits} \subseteq Amounts
  /\ {AdCredits, ClaimCredits, DayTicks, ClaimTicks} \subseteq Nat \ {0}
  /\ {AdDailyCap, MaxClock, MaxCuts} \subseteq Nat
  /\ DailyRewardEnabled \in BOOLEAN
  /\ Nobody \notin Requests

VARIABLES
  clock,
  createdAt,    \* of the entry under each key
  rowOwner,     \* who holds a User row FOR UPDATE
  session,      \* Redis: ad:session:<nonce>
  answered,     \* AdMob: callbacks answered 200
  stage, req,   \* each request: its step or reply, and its local variables
  cuts          \* requests that died

rewardVars == <<bookVars, clock, createdAt, rowOwner, session, answered, stage, req, cuts>>

\* About a callback or, with about = None, a claim; `now' is when it was called,
\* `last' the number of the claim it would make.
Locals(u, c, t) == [user |-> u, about |-> c, now |-> t, last |-> 0, status |-> None]

NoLocals == Locals(CHOOSE u \in Users : TRUE, None, 0)

Done == {"idle", "claimed", "refused", "notReady", "answered"}

RewardsInit ==
  /\ Init
  /\ clock = 0
  /\ createdAt = [k \in Keys |-> 0]
  /\ rowOwner = [u \in Users |-> Nobody]
  /\ session = [n \in Nonces |-> "unused"]
  /\ answered = {}
  /\ stage = [r \in Requests |-> "idle"]
  /\ req = [r \in Requests |-> NoLocals]
  /\ cuts = 0

-----------------------------------------------------------------------------

Proceed(r, step) == stage' = [stage EXCEPT ![r] = step]

Outcome(r, value) == req' = [req EXCEPT ![r].status = value]

Unlock(r) == rowOwner' = [u \in Users |-> IF rowOwner[u] = r THEN Nobody ELSE rowOwner[u]]

Day(t) == t \div DayTicks

AdEntries(u) == {e \in entries : e.user = u /\ e.key[1] = "rewarded_ad"}

\* adsUsedToday, which computes `today' when it is called.
AdsUsedToday(u) == Cardinality({e \in AdEntries(u) : Day(createdAt[e.key]) = Day(clock)})

\* POST /rewards/ads/session: only a hint, the callback decides.
StartAd(n) ==
  /\ session[n] = "unused"
  /\ status[OwnerOf[n]] = "active"
  /\ AdsUsedToday(OwnerOf[n]) < AdDailyCap
  /\ session' = [session EXCEPT ![n] = "pending"]
  /\ UNCHANGED <<bookVars, clock, createdAt, rowOwner, answered, stage, req, cuts>>

\* The session's time to live ends; its nonce is random and not used again.
Expire(n) ==
  /\ session[n] \notin {"unused", "gone"}
  /\ session' = [session EXCEPT ![n] = "gone"]
  /\ UNCHANGED <<bookVars, clock, createdAt, rowOwner, answered, stage, req, cuts>>

Deliver(r, c) ==
  /\ stage[r] \in Done
  /\ session[c.nonce] # "unused"
  /\ c \notin answered
  /\ req' = [req EXCEPT ![r] = Locals(c.user, c, 0)]
  /\ Proceed(r, "read")
  /\ UNCHANGED <<bookVars, clock, createdAt, rowOwner, session, answered, cuts>>

Answer(r) ==
  /\ Proceed(r, "answered")
  /\ answered' = answered \union {req[r].about}
  /\ req' = [req EXCEPT ![r] = NoLocals]

ReadSession(r) ==
  LET c == req[r].about IN
  /\ stage[r] = "read"
  /\ \/ session[c.nonce] = "gone" /\ Answer(r) /\ UNCHANGED session
     \/ /\ session[c.nonce] # "gone" /\ OwnerOf[c.nonce] # c.user
        /\ session' = [session EXCEPT ![c.nonce] = "rejected"] /\ Answer(r)
     \/ /\ session[c.nonce] # "gone" /\ OwnerOf[c.nonce] = c.user
        /\ Proceed(r, "lock") /\ UNCHANGED <<session, answered, req>>
  /\ UNCHANGED <<bookVars, clock, createdAt, rowOwner, cuts>>

\* POST /rewards/daily/claim.
Claim(r, u) ==
  /\ stage[r] \in Done
  /\ status[u] # "deleted"
  /\ req' = [req EXCEPT ![r] = Locals(u, None, clock)]
  /\ Proceed(r, IF DailyRewardEnabled THEN "lock" ELSE "refused")
  /\ UNCHANGED <<bookVars, clock, createdAt, rowOwner, session, answered, cuts>>

\* Mutant: the transaction does not lock the User row.
NoLock(r) == TRUE

\* SELECT ... FOR UPDATE: "in single file".
RowFree(r) == rowOwner[req[r].user] = Nobody

Lock(r) ==
  /\ stage[r] = "lock"
  /\ RowFree(r)
  /\ rowOwner' = [rowOwner EXCEPT ![req[r].user] = r]
  /\ Proceed(r, IF req[r].about = None THEN "lastClaim" ELSE "count")
  /\ UNCHANGED <<bookVars, clock, createdAt, session, answered, req, cuts>>
-----------------------------------------------------------------------------
(* An ad: replay, cap, post, commit; then the session's status *)

\* Mutant: the cap is looked at before the replay.
ReplayUnderCap(r) ==
  Posted(AdKey(req[r].about.txn)) /\ AdsUsedToday(req[r].user) < AdDailyCap

Replay(r) == Posted(AdKey(req[r].about.txn))

CountAds(r) ==
  /\ stage[r] = "count"
  /\ \/ /\ Replay(r)
        /\ Outcome(r, "granted") /\ Proceed(r, "write") /\ Unlock(r)
     \/ /\ ~Replay(r) /\ AdsUsedToday(req[r].user) >= AdDailyCap
        /\ Outcome(r, "capped") /\ Proceed(r, "write") /\ Unlock(r)
     \/ /\ ~Replay(r) /\ AdsUsedToday(req[r].user) < AdDailyCap
        /\ Proceed(r, "post") /\ UNCHANGED <<req, rowOwner>>
  /\ UNCHANGED <<bookVars, clock, createdAt, session, answered, cuts>>

\* LedgerService.post: a replay returns the entry there is.
Pay(u, k, amount) ==
  IF Posted(k)
  THEN UNCHANGED <<bookVars, createdAt>>
  ELSE Post(u, k, amount, TRUE) /\ createdAt' = [createdAt EXCEPT ![k] = clock]

\* Mutant: the status says granted although nothing was paid.
GrantedAnyway(r) == Outcome(r, "granted")

Rejected(r) == Outcome(r, "rejected")

\* Suspended or deleted since: rolled back, "nothing for AdMob to retry".
PostAd(r) ==
  LET u == req[r].user  k == AdKey(req[r].about.txn) IN
  /\ stage[r] = "post" /\ req[r].about # None
  /\ \/ Pay(u, k, AdCredits) /\ Outcome(r, "granted")
     \/ /\ ~Posted(k) /\ ~Accepts(u, AdCredits, TRUE)
        /\ Rejected(r)
        /\ UNCHANGED <<bookVars, createdAt>>
  /\ Unlock(r)
  /\ Proceed(r, "write")
  /\ UNCHANGED <<clock, session, answered, cuts>>

\* SET: an expired session comes back with its outcome.
WriteSession(r) ==
  /\ stage[r] = "write"
  /\ session' = [session EXCEPT ![req[r].about.nonce] = req[r].status]
  /\ Answer(r)
  /\ UNCHANGED <<bookVars, clock, createdAt, rowOwner, cuts>>
-----------------------------------------------------------------------------
(* A claim *)

Claims(u) == {n \in 0..MaxClock : Posted(ClaimKey(u, n))}

\* Mutant: a claim one tick early.
ReadyEarly(now, at) == now + 1 >= at + ClaimTicks

Ready(now, at) == now >= at + ClaimTicks

\* Claims are chained, so the latest has the highest number.
LastClaim(r) ==
  /\ stage[r] = "lastClaim"
  /\ LET made == Claims(req[r].user)
         last == CHOOSE n \in made : \A m \in made : n >= m
     IN \/ /\ made = {}
           /\ Proceed(r, "post") /\ UNCHANGED <<req, rowOwner>>
        \/ /\ made # {} /\ Ready(req[r].now, createdAt[ClaimKey(req[r].user, last)])
           /\ req' = [req EXCEPT ![r].last = last + 1] /\ Proceed(r, "post") /\ UNCHANGED rowOwner
        \/ /\ made # {} /\ ~Ready(req[r].now, createdAt[ClaimKey(req[r].user, last)])
           /\ Proceed(r, "notReady") /\ Unlock(r) /\ UNCHANGED req
  /\ UNCHANGED <<bookVars, clock, createdAt, session, answered, cuts>>

\* The key names the claim before it; a replay of that key, or a unique
\* violation on it, cannot happen while the row is locked.
PostClaim(r) ==
  LET u == req[r].user  k == ClaimKey(u, req[r].last) IN
  /\ stage[r] = "post" /\ req[r].about = None
  /\ \/ Pay(u, k, ClaimCredits) /\ Proceed(r, "claimed")
     \/ /\ ~Posted(k) /\ ~Accepts(u, ClaimCredits, TRUE)
        /\ Proceed(r, "refused")
        /\ UNCHANGED <<bookVars, createdAt>>
  /\ Unlock(r)
  /\ UNCHANGED <<clock, session, answered, req, cuts>>
-----------------------------------------------------------------------------

\* The process or a connection dies: a transaction rolls back, no answer is sent.
Interrupted(r) ==
  /\ stage[r] \notin Done
  /\ cuts < MaxCuts
  /\ cuts' = cuts + 1
  /\ Unlock(r)
  /\ Proceed(r, "idle")
  /\ req' = [req EXCEPT ![r] = NoLocals]
  /\ UNCHANGED <<bookVars, clock, createdAt, session, answered>>

Tick ==
  /\ clock < MaxClock
  /\ clock' = clock + 1
  /\ UNCHANGED <<bookVars, createdAt, rowOwner, session, answered, stage, req, cuts>>

\* An administrator's UPDATE of the row waits for the lock.
MoveAccount(u) ==
  /\ rowOwner[u] = Nobody
  /\ Suspend(u) \/ Unsuspend(u)
  /\ UNCHANGED <<clock, createdAt, rowOwner, session, answered, stage, req, cuts>>

Step(r) ==
  ReadSession(r) \/ Lock(r) \/ CountAds(r) \/ PostAd(r) \/ WriteSession(r)
    \/ LastClaim(r) \/ PostClaim(r)

RewardsNext ==
  \/ \E n \in Nonces : StartAd(n) \/ Expire(n)
  \/ \E r \in Requests : \/ \E c \in Callbacks : Deliver(r, c)
                         \/ \E u \in Users : Claim(r, u)
                         \/ Step(r)
                         \/ Interrupted(r)
  \/ \E u \in Users : MoveAccount(u)
  \/ Tick

RewardsSpec == RewardsInit /\ [][RewardsNext]_rewardVars

\* Requests go on, and AdMob repeats a callback that was not answered.
FairRewardsSpec ==
  /\ RewardsSpec
  /\ \A r \in Requests : WF_rewardVars(Step(r)) /\ SF_rewardVars(Lock(r))
  /\ \A c \in Callbacks : SF_rewardVars(\E r \in Requests : Deliver(r, c))
-----------------------------------------------------------------------------
\* Every variable holds a value the code can store, and a row is locked only by a
\* request inside its transaction.
RewardsTypeOK ==
  /\ status \in [Users -> Statuses] /\ balance \in [Users -> Nat] /\ entries \subseteq Entry
  /\ clock \in 0..MaxClock
  /\ createdAt \in [Keys -> 0..MaxClock]
  /\ rowOwner \in [Users -> Requests \union {Nobody}]
  /\ session \in [Nonces -> {"unused", "pending", "granted", "capped", "rejected", "gone"}]
  /\ answered \subseteq Callbacks
  /\ stage \in [Requests -> Done \union {"read", "lock", "count", "post", "write", "lastClaim"}]
  /\ \A u \in Users : rowOwner[u] # Nobody =>
        stage[rowOwner[u]] \in {"count", "post", "lastClaim"} /\ req[rowOwner[u]].user = u

\* "The daily cap holds under concurrent callbacks", across midnight too: no UTC
\* day has more rewarded ads of a user than the cap.
CapHolds ==
  \A u \in Users : \A d \in 0..Day(MaxClock) :
    Cardinality({e \in AdEntries(u) : Day(createdAt[e.key]) = d}) <= AdDailyCap

\* "Once every 1, 7 or 30 days from their last claim": two claims of a user are
\* at least the interval apart, however long they waited for the row.
ClaimsAreSpaced ==
  \A u \in Users : \A m, n \in Claims(u) :
    m < n => createdAt[ClaimKey(u, n)] >= createdAt[ClaimKey(u, m)] + ClaimTicks

\* The app is told an ad was granted only when an ad of that session was paid.
ShownIsPaid ==
  \A n \in Nonces : session[n] = "granted" =>
    \E c \in Callbacks : c.nonce = n /\ c.user = OwnerOf[n] /\ Posted(AdKey(c.txn))

\* A paid ad of an account that stays active is shown as granted in the end,
\* unless its session expires: a callback cut off after the commit is repeated
\* and finds the entry.  (Were the account suspended while two deliveries of one
\* callback overlap, the slower one could write its `rejected' last.)
PaidIsShown ==
  \A c \in Callbacks :
    [](status[c.user] = "active") =>
      (Posted(AdKey(c.txn)) ~> session[c.nonce] \in {"granted", "gone"})
=============================================================================
