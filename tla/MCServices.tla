----------------------------- MODULE MCServices -----------------------------
(***************************************************************************)
(* Small instances of what users ask the server for: captions, sessions,   *)
(* ad rewards and emailed codes.  In these instances they share no row and *)
(* no key: one run explores the four, each behaviour being of one of them. *)
(***************************************************************************)
EXTENDS MCCaptionJobs, FiniteSets

CONSTANTS u2, n1, n2, None, Nobody

VARIABLES part,
          \* UserTokens
          deleted, userSession, token, sessionLock, tokenLock, tokenPc, tokenReq,
          \* Rewards
          adStatus, adBalance, adEntries, clock, createdAt, rowOwner, adSession, answered, adPc, adReq, cuts,
          \* Codes
          count, window, code, attempts, cooldown, call

\* One session, a token and its successor.
Tokens == INSTANCE UserTokens WITH
  Users <- {u1}, Sessions <- {"s1"}, Tokens <- {"t1", "t2"}, Requests <- {r1, r2},
  session <- userSession, pc <- tokenPc, req <- tokenReq

\* One ad, and a callback for it that names another user's session.
Owners == [n \in {n1, n2} |-> IF n = n1 THEN u1 ELSE u2]
AdOf == [r \in {r1, r2} |-> [txn |-> IF r = r1 THEN "a" ELSE "b", user |-> u1,
                             nonce |-> IF r = r1 THEN n1 ELSE n2]]

Ads == INSTANCE Rewards WITH
  Users <- {u1, u2}, Requests <- {r1, r2}, Nonces <- {n1, n2}, OwnerOf <- Owners,
  Callbacks <- {AdOf[r1], AdOf[r2]},
  Keys <- {<<"rewarded_ad", x>> : x \in {"a", "b"}} \union {<<"daily_reward", u, 0>> : u \in {u1, u2}},
  Amounts <- {1, 2}, AdDailyCap <- 1, AdCredits <- 2, ClaimCredits <- 1, ClaimTicks <- 2, DayTicks <- 2,
  DailyRewardEnabled <- FALSE, MaxClock <- 0, MaxCuts <- 1,
  status <- adStatus, balance <- adBalance, entries <- adEntries,
  session <- adSession, stage <- adPc, req <- adReq

Codes == INSTANCE Codes WITH Callers <- {r1, r2}, PerHour <- 1, MaxAttempts <- 2

tokenVars == <<deleted, userSession, token, sessionLock, tokenLock, tokenPc, tokenReq>>
adVars == <<adStatus, adBalance, adEntries, clock, createdAt, rowOwner, adSession, answered, adPc, adReq, cuts>>
codeVars == <<count, window, code, attempts, cooldown, call>>
others == <<tokenVars, adVars, codeVars>>
all == <<part, vars, others>>

MCInit ==
  /\ part \in {"captions", "tokens", "ads", "codes"}
  /\ CaptionInit /\ Tokens!Init /\ Ads!RewardsInit /\ Codes!CodesInit

InTokens == part = "tokens" /\ UNCHANGED <<adVars, codeVars>>
InAds == part = "ads" /\ UNCHANGED <<tokenVars, codeVars>>
InCodes == part = "codes" /\ UNCHANGED <<tokenVars, adVars>>

CaptionsPart == part = "captions" /\ CaptionNext /\ UNCHANGED <<part, others>>
TokensPart == InTokens /\ Tokens!Calm /\ UNCHANGED <<part, vars>>
AdsPart == InAds /\ Ads!RewardsNext /\ UNCHANGED <<part, vars>>
CodesPart == InCodes /\ Codes!CodesNext /\ UNCHANGED <<part, vars>>

\* Tokens and ads of these instances are used up; captions and codes never are.
Over == part \in {"tokens", "ads"} /\ UNCHANGED all

MCNext == CaptionsPart \/ TokensPart \/ AdsPart \/ CodesPart \/ Over

Revoking(r) == Tokens!EndSession(r) \/ Tokens!EndTokens(r) \/ Tokens!DeleteSessions(r)

\* The fairness of FairCaptionSpec, UserTokens!FairSpec and FairRewardsSpec, and of
\* Codes: a process does not die at the same command every time, windows end.  A
\* behaviour is of one part, so one condition can speak of a step of each.
MCSpec ==
  /\ MCInit /\ [][MCNext]_all
  /\ \A j \in Jobs : /\ WF_vars(part = "captions" /\ Take(j))
                     /\ WF_vars(part = "captions" /\ Work(j))
                     /\ WF_vars(part = "captions" /\ Stalled(j))
                     /\ WF_vars(part = "captions" /\ Age(j))
                     /\ WF_vars(part = "captions" /\ SweepCheck(j))
                     /\ WF_vars(part = "captions" /\ SweepDelete(j))
  /\ \A r \in Uploads : WF_vars(part = "captions" /\ Serve(r))
  /\ WF_others(\/ InTokens /\ \E r \in {r1, r2} : Tokens!Deadlock(r)
               \/ InCodes /\ Codes!WindowEnds)
  /\ \A r \in {r1, r2} :
       /\ WF_others((InTokens /\ Tokens!Step(r)) \/ (InAds /\ Ads!Step(r)))
       /\ SF_others(\/ InTokens /\ Revoking(r)
                    \/ InAds /\ Ads!Lock(r)
                    \/ InCodes /\ Codes!CheckWindow(r))
       /\ SF_others(\/ InAds /\ \E q \in {r1, r2} : Ads!Deliver(q, AdOf[r])
                    \/ InCodes /\ Codes!OpenWindow(r))

-----------------------------------------------------------------------------
\* The properties of the parts, where they are stated in words.

\* A replaced token that is presented again ends its session (rotate).
ReuseEndsSession == Tokens!ReuseEndsSession

\* A paid ad is shown as granted in the end (AdRewardService's callback).
PaidIsShown == Ads!PaidIsShown

\* "No one is limited for good" (RateLimiter.increment).
WindowsEnd == Codes!WindowsEnd
=============================================================================
