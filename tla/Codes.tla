-------------------------------- MODULE Codes --------------------------------
(***************************************************************************)
(* Emailed one-time codes (src/src/modules/accounts/otp.service.ts) of one *)
(* address and purpose, and the fixed-window counter in Redis that limits  *)
(* them (RateLimiter; the limits per IP and install are two more counters  *)
(* of the same kind).  Every command to Redis is a step, requests overlap, *)
(* and their process may die between any two.                              *)
(*                                                                         *)
(* The code compares counters only with 1 and with their limit, so a       *)
(* counter above its limit stands for all larger ones, and one that is     *)
(* absent counts as 0.  A guess is right or wrong.                         *)
(***************************************************************************)
EXTENDS Naturals

CONSTANTS Callers,
          PerHour,       \* otpPerEmailPerHour
          MaxAttempts    \* otpMaxAttempts

VARIABLES
  count, window,     \* the limiter's counter, and whether it has an expiry
  code,              \* whether the code's key is there
  attempts,          \* the attempts key
  cooldown,          \* whether the cooldown key is there
  call               \* each request: its next command, and what INCR answered it

codeVars == <<count, window, code, attempts, cooldown, call>>

Rest == [at |-> "idle", hits |-> 0]

CodesInit ==
  /\ count = 0 /\ window = FALSE
  /\ code = FALSE /\ attempts = 0 /\ cooldown = FALSE
  /\ call = [c \in Callers |-> Rest]

-----------------------------------------------------------------------------
limiter == <<count, window>>
codes == <<code, attempts>>

Incremented(n, limit) == IF n > limit THEN n ELSE n + 1

Then(c, step) == call' = [call EXCEPT ![c].at = step]

Ends(c) == call' = [call EXCEPT ![c] = Rest]

\* send: the TTL of the cooldown key.
AskCode(c) ==
  /\ call[c].at = "idle" /\ ~cooldown
  /\ Then(c, "hit")
  /\ UNCHANGED <<limiter, codes, cooldown>>

\* RateLimiter.increment: INCR keeps the expiry of a counter that has one.
Hit(c) ==
  /\ call[c].at = "hit"
  /\ count' = Incremented(count, PerHour)
  /\ call' = [call EXCEPT ![c] = [at |-> "ttl", hits |-> count']]
  /\ UNCHANGED <<window, codes, cooldown>>

Allowed(c) == IF call[c].hits <= PerHour THEN Then(c, "code") ELSE Ends(c)

\* Mutant: the first hit opens the window, and no other repairs it.
OpensFirst(c) == call[c].hits = 1

\* count === 1, or the TTL says the counter has no expiry.
OpensWindow(c) == call[c].hits = 1 \/ (count > 0 /\ ~window)

CheckWindow(c) ==
  /\ call[c].at = "ttl"
  /\ IF OpensWindow(c) THEN Then(c, "expire") ELSE Allowed(c)
  /\ UNCHANGED <<limiter, codes, cooldown>>

OpenWindow(c) ==
  /\ call[c].at = "expire"
  /\ window' = (count > 0)
  /\ Allowed(c)
  /\ UNCHANGED <<count, codes, cooldown>>

\* send goes on: three SETs, each with an expiry.
SetCode(c) ==
  /\ call[c].at = "code"
  /\ code' = TRUE
  /\ Then(c, "attempts")
  /\ UNCHANGED <<limiter, attempts, cooldown>>

SetAttempts(c) ==
  /\ call[c].at = "attempts"
  /\ attempts' = 0
  /\ Then(c, "cooldown")
  /\ UNCHANGED <<limiter, code, cooldown>>

SetCooldown(c) ==
  /\ call[c].at = "cooldown"
  /\ cooldown' = TRUE
  /\ Ends(c)
  /\ UNCHANGED <<limiter, codes>>

-----------------------------------------------------------------------------
\* verify: the stored code is read, then the attempt counted, then compared.
ReadCode(c) ==
  /\ call[c].at = "idle" /\ code
  /\ Then(c, "guess")
  /\ UNCHANGED <<limiter, codes, cooldown>>

\* A right guess within the limit takes the code away, and so does the last wrong one.
Guess(c) ==
  /\ call[c].at = "guess"
  /\ attempts' = Incremented(attempts, MaxAttempts)
  /\ \/ attempts' <= MaxAttempts /\ Then(c, "delete")
     \/ IF attempts' >= MaxAttempts THEN Then(c, "delete") ELSE Ends(c)
  /\ UNCHANGED <<limiter, code, cooldown>>

\* DEL of both keys, whatever code is stored by now.
DeleteCode(c) ==
  /\ call[c].at = "delete"
  /\ code' = FALSE /\ attempts' = 0
  /\ Ends(c)
  /\ UNCHANGED <<limiter, cooldown>>

-----------------------------------------------------------------------------
\* Redis: keys expire.
WindowEnds ==
  /\ window
  /\ count' = 0 /\ window' = FALSE
  /\ UNCHANGED <<codes, cooldown, call>>

CodeExpires == code /\ code' = FALSE /\ UNCHANGED <<limiter, attempts, cooldown, call>>

AttemptsExpire ==
  attempts > 0 /\ attempts' = 0 /\ UNCHANGED <<limiter, code, cooldown, call>>

CooldownEnds == cooldown /\ cooldown' = FALSE /\ UNCHANGED <<limiter, codes, call>>

CallDies(c) == call[c].at # "idle" /\ Ends(c) /\ UNCHANGED <<limiter, codes, cooldown>>

CodesNext ==
  \/ \E c \in Callers :
       \/ AskCode(c) \/ Hit(c) \/ CheckWindow(c) \/ OpenWindow(c)
       \/ SetCode(c) \/ SetAttempts(c) \/ SetCooldown(c)
       \/ ReadCode(c) \/ Guess(c) \/ DeleteCode(c) \/ CallDies(c)
  \/ WindowEnds \/ CodeExpires \/ AttemptsExpire \/ CooldownEnds

CodesSpec == CodesInit /\ [][CodesNext]_codeVars

-----------------------------------------------------------------------------
\* The counters are in their ranges, and a window is that of a counter.
CodesTypeOK ==
  /\ count \in 0..(PerHour + 1) /\ window \in BOOLEAN /\ (window => count > 0)
  /\ code \in BOOLEAN /\ attempts \in 0..(MaxAttempts + 1) /\ cooldown \in BOOLEAN
  /\ call \in [Callers -> [at : {"idle", "hit", "ttl", "expire", "code", "attempts", "cooldown",
                                 "guess", "delete"},
                           hits : 0..(PerHour + 1)]]

\* "No one is limited for good" (rate-limiter.ts:16-17): an address whose owner
\* keeps asking finds the counter gone, again and again, although requests die
\* between INCR and EXPIRE.
WindowsEnd == (\E c \in Callers : []<>(call[c].at = "ttl")) => []<>(count = 0)
=============================================================================
