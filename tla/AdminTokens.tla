------------------------------ MODULE AdminTokens ------------------------------
(***************************************************************************)
(* Administrator sign-in (src/src/modules/auth/): logins of one account    *)
(* under a budget of failures kept in Redis, and lineages (familyId) of    *)
(* refresh tokens, which token.service.ts rotates in separate statements.  *)
(* Passwords are right or wrong; a lineage and a token are values not used *)
(* before.  No code disables an administrator, so rotate's branch for a    *)
(* disabled one is left out.                                               *)
(***************************************************************************)
EXTENDS Naturals, FiniteSets, Absent

CONSTANTS Families, AdminTokenIds, Clients,
          MaxAttempts,    \* AUTH_LOGIN_MAX_ATTEMPTS
          MaxFailures     \* bound: passwords that are found wrong

ASSUME AdminAssumption ==
  /\ IsFiniteSet(Clients) /\ MaxAttempts \in Nat \ {0} /\ MaxFailures \in Nat
  /\ None \notin Families

VARIABLES
  refresh,    \* RefreshToken rows: the lineage, and absent, live or revoked
  ended,      \* lineages that were revoked as a whole, kept for the properties
  failures,   \* the Redis counter of failed logins, 0 when it is absent
  expires,    \* whether the counter has an expiry
  guesses,    \* passwords found wrong since the counter was last absent
  wrong,      \* and since the beginning
  unsaid,     \* of guesses, those whose request died before it counted them
  client      \* each request: its next step, its token and lineage

adminVars == <<refresh, ended, failures, expires, guesses, wrong, unsaid, client>>

Free == [at |-> "idle", token |-> None, family |-> None]

AdminInit ==
  /\ refresh = [t \in AdminTokenIds |-> [family |-> None, state |-> "absent"]]
  /\ ended = {}
  /\ failures = 0 /\ expires = FALSE /\ guesses = 0 /\ wrong = 0 /\ unsaid = 0
  /\ client = [c \in Clients |-> Free]

-----------------------------------------------------------------------------
budget == <<failures, expires, guesses, wrong, unsaid>>

Move(c, step) == client' = [client EXCEPT ![c].at = step]

Reply(c) == client' = [client EXCEPT ![c] = Free]

\* Mutant: off by one.
LockedOutLate == failures > MaxAttempts

\* assertNotLockedOut, from the counter it reads.
LockedOut == failures >= MaxAttempts

\* login goes on unless it is locked out.
AskLogin(c) ==
  /\ client[c].at = "idle" /\ ~LockedOut
  /\ Move(c, "password")
  /\ UNCHANGED <<refresh, ended, budget>>

\* findFirst and the comparison with the stored hash.
WrongPassword(c) ==
  /\ client[c].at = "password" /\ wrong < MaxFailures
  /\ guesses' = guesses + 1
  /\ wrong' = wrong + 1
  /\ Move(c, "incr")
  /\ UNCHANGED <<refresh, ended, failures, expires, unsaid>>

RightPassword(c) ==
  /\ client[c].at = "password"
  /\ Move(c, "clear")
  /\ UNCHANGED <<refresh, ended, budget>>

\* recordFailure: INCR makes a counter without an expiry or keeps the one it has;
\* EXPIRE, a second command, does nothing if the counter is gone.
CountFailure(c) ==
  /\ client[c].at = "incr"
  /\ failures' = failures + 1
  /\ expires' = (expires /\ failures > 0)
  /\ Move(c, "expire")
  /\ UNCHANGED <<refresh, ended, guesses, wrong, unsaid>>

SetExpiry(c) ==
  /\ client[c].at = "expire"
  /\ expires' = (failures > 0)
  /\ Reply(c)
  /\ UNCHANGED <<refresh, ended, failures, guesses, wrong, unsaid>>

NoCounter == failures' = 0 /\ expires' = FALSE /\ guesses' = 0 /\ unsaid' = 0 /\ wrong' = wrong

\* A login that succeeds clears the counter, and is issued a lineage of its own.
ClearFailures(c) ==
  /\ client[c].at = "clear"
  /\ NoCounter
  /\ \E f \in Families :
       /\ \A t \in AdminTokenIds : refresh[t].family # f
       /\ \A d \in Clients : client[d].family # f
       /\ client' = [client EXCEPT ![c] = [at |-> "issue", token |-> None, family |-> f]]
  /\ UNCHANGED <<refresh, ended>>

\* The lockout window is over.
WindowEnds ==
  /\ expires /\ NoCounter
  /\ UNCHANGED <<refresh, ended, client>>

-----------------------------------------------------------------------------
\* refresh and logout: findUnique, and what the row decides.
AskRotate(c, t) ==
  /\ client[c].at = "idle" /\ refresh[t].state # "absent"
  /\ client' = [client EXCEPT ![c] =
       [at |-> IF refresh[t].state = "revoked" THEN "revoke" ELSE "retire",
        token |-> t, family |-> refresh[t].family]]
  /\ UNCHANGED <<refresh, ended, budget>>

AskLogout(c, t) ==
  /\ client[c].at = "idle" /\ refresh[t].state # "absent"
  /\ client' = [client EXCEPT ![c] = [at |-> "revoke", token |-> t, family |-> refresh[t].family]]
  /\ UNCHANGED <<refresh, ended, budget>>

\* rotate retires the token it has read, whatever has become of it meanwhile.
Retire(c) ==
  /\ client[c].at = "retire"
  /\ refresh' = [refresh EXCEPT ![client[c].token].state = "revoked"]
  /\ Move(c, "issue")
  /\ UNCHANGED <<ended, budget>>

\* issuePair inserts the next token of the lineage.
IssuePair(c) ==
  /\ client[c].at = "issue"
  /\ \E t \in AdminTokenIds :
       /\ refresh[t].state = "absent"
       /\ refresh' = [refresh EXCEPT ![t] = [family |-> client[c].family, state |-> "live"]]
  /\ Reply(c)
  /\ UNCHANGED <<ended, budget>>

\* revokeFamily, of a token that was used before or on logout.
RevokeFamily(c) ==
  /\ client[c].at = "revoke"
  /\ refresh' = [t \in AdminTokenIds |->
       IF refresh[t].family = client[c].family THEN [refresh[t] EXCEPT !.state = "revoked"] ELSE refresh[t]]
  /\ ended' = ended \union {client[c].family}
  /\ Reply(c)
  /\ UNCHANGED budget

\* The process dies, or a call of Redis or Postgres fails.  (After CountFailure the
\* counter may be left without an expiry: see the README.)
ClientEnds(c) ==
  /\ client[c].at # "idle"
  /\ unsaid' = IF client[c].at = "incr" THEN unsaid + 1 ELSE unsaid
  /\ Reply(c)
  /\ UNCHANGED <<refresh, ended, failures, expires, guesses, wrong>>

AdminStep(c) ==
  \/ WrongPassword(c) \/ RightPassword(c) \/ CountFailure(c) \/ SetExpiry(c) \/ ClearFailures(c)
  \/ Retire(c) \/ IssuePair(c) \/ RevokeFamily(c)

AdminNext ==
  \/ \E c \in Clients :
       \/ AskLogin(c)
       \/ \E t \in AdminTokenIds : AskRotate(c, t) \/ AskLogout(c, t)
       \/ AdminStep(c)
       \/ ClientEnds(c)
  \/ WindowEnds

AdminSpec == AdminInit /\ [][AdminNext]_adminVars

-----------------------------------------------------------------------------
\* The types, and a token is absent or of a lineage.
AdminTypeOK ==
  /\ refresh \in [AdminTokenIds -> [family : Families \union {None}, state : {"absent", "live", "revoked"}]]
  /\ \A t \in AdminTokenIds : refresh[t].state = "absent" <=> refresh[t].family = None
  /\ ended \subseteq Families
  /\ failures \in 0..wrong /\ guesses \in 0..wrong /\ unsaid \in 0..wrong /\ wrong \in 0..MaxFailures
  /\ expires \in BOOLEAN
  /\ \A c \in Clients :
       /\ client[c].at \in {"idle", "password", "incr", "expire", "clear", "retire", "issue", "revoke"}
       /\ client[c].token \in AdminTokenIds \union {None}
       /\ client[c].family \in Families \union {None}

\* "Counts failed logins per email and locks the email out": between two clears of
\* the counter no more passwords are tried than the budget, those that were being
\* compared when it was used up, and those whose count was lost.
LoginBudget == guesses <= MaxAttempts + (Cardinality(Clients) - 1) + unsaid

\* "Reuse of an already-revoked token means the token was stolen. Kill the whole
\* lineage so neither party keeps a working session" (token.service.ts:77-78):
\* a lineage that was revoked, for reuse or on logout, has no token that works.
EndedLineagesAreDead == \A t \in AdminTokenIds : refresh[t].state = "live" => refresh[t].family \notin ended
=============================================================================
