------------------------------ MODULE UserTokens ------------------------------
(***************************************************************************)
(* App-user sessions (src/src/modules/accounts/user-tokens.service.ts): a  *)
(* session has a chain of single-use refresh tokens.  Requests sign in,    *)
(* refresh, log out and delete accounts at once; each step is one          *)
(* statement.  revokeSession locks the session row and then its tokens,    *)
(* deleteAccount the tokens and then the sessions, so they can wait for    *)
(* each other, and Postgres aborts one of the two.                         *)
(*                                                                         *)
(* Access tokens carry their session's id; the guard's predicate           *)
(* (user-auth.guard.ts) is Authorised.                                     *)
(***************************************************************************)
EXTENDS Naturals, FiniteSets, Absent

CONSTANTS Users, Sessions, Tokens, Requests

\* None is no user, session, token or lock owner.
ASSUME UserTokensAssumption ==
  None \notin Users \union Sessions \union Tokens \union Requests

VARIABLES
  deleted,    \* users whose accountStatus is deleted
  session,    \* UserSession rows: the user, and absent, live or revoked
  token,      \* UserRefreshToken rows, with two facts kept for the properties:
              \* the token it replaced, and whether it was issued too late
  sessionLock, tokenLock,     \* row locks of open transactions
  pc, req     \* each request: its next statement or reply, and what it is about

vars == <<deleted, session, token, sessionLock, tokenLock, pc, req>>

States == {"absent", "live", "revoked"}

Replies == {"idle", "issued", "refused", "done", "aborted"}

Init ==
  /\ deleted = {}
  /\ session = [s \in Sessions |-> [user |-> None, state |-> "absent"]]
  /\ token = [t \in Tokens |-> [session |-> None, state |-> "absent", from |-> None, late |-> FALSE]]
  /\ sessionLock = [s \in Sessions |-> None]
  /\ tokenLock = [t \in Tokens |-> None]
  /\ pc = [r \in Requests |-> "idle"]
  /\ req = [r \in Requests |-> [user |-> None, session |-> None, token |-> None]]

-----------------------------------------------------------------------------

Goto(r, step) == pc' = [pc EXCEPT ![r] = step]

rows == <<deleted, session, token>>
locks == <<sessionLock, tokenLock>>

\* UserAuthGuard lets a request with this session's access token through.
Authorised(s) == session[s].state = "live" /\ session[s].user \notin deleted

\* issue(): the INSERT of a refresh token, for a new or a rotated session.
Issue(r) ==
  /\ pc[r] = "issue"
  /\ \E t \in Tokens :
       /\ token[t].state = "absent"
       /\ token' = [token EXCEPT ![t] =
            [session |-> req[r].session, state |-> "live",
             from |-> req[r].token, late |-> ~Authorised(req[r].session)]]
  /\ Goto(r, "issued")
  /\ UNCHANGED <<deleted, session, locks, req>>

\* verifyEmail or signInWithGoogle found the account; deletion unlinks the email
\* and the Google id, so a deleted one is not found.
SignIn(r, u) ==
  /\ pc[r] \in Replies
  /\ u \notin deleted
  /\ req' = [req EXCEPT ![r] = [user |-> u, session |-> None, token |-> None]]
  /\ Goto(r, "create")
  /\ UNCHANGED <<rows, locks>>

StartSession(r) ==
  /\ pc[r] = "create"
  /\ \E s \in Sessions :
       /\ session[s].state = "absent"
       /\ session' = [session EXCEPT ![s] = [user |-> req[r].user, state |-> "live"]]
       /\ req' = [req EXCEPT ![r].session = s]
  /\ Goto(r, "issue")
  /\ UNCHANGED <<deleted, token, locks>>
-----------------------------------------------------------------------------
(* rotate: three reads (the row, its session, its user), a claim, an update
   and an insert.  A token without a row is refused and changes nothing. *)

Present(r, t, step) ==
  /\ pc[r] \in Replies
  /\ token[t].state # "absent"
  /\ req' = [req EXCEPT ![r] = [user |-> session[token[t].session].user,
                                session |-> token[t].session, token |-> t]]
  /\ Goto(r, step)
  /\ UNCHANGED <<rows, locks>>

Refresh(r, t) == Present(r, t, "readToken")

\* Mutant: a token that comes back is only refused.
AfterReuseRefuse == "refused"

\* "A rotated token came back: someone else holds a copy. End the whole session."
AfterReuse == "endSession"

ReadToken(r) ==
  /\ pc[r] = "readToken"
  /\ Goto(r, IF token[req[r].token].state = "revoked" THEN AfterReuse ELSE "readSession")
  /\ UNCHANGED <<rows, locks, req>>

\* Mutant: trusts the token's own revokedAt.
SessionEndedIgnored(r) == FALSE

SessionEnded(r) == session[req[r].session].state = "revoked"

ReadSession(r) ==
  /\ pc[r] = "readSession"
  /\ Goto(r, IF SessionEnded(r) THEN AfterReuse ELSE "readUser")
  /\ UNCHANGED <<rows, locks, req>>

\* The row may have expired; that is checked before the account's status.
ReadUser(r) ==
  /\ pc[r] = "readUser"
  /\ \/ Goto(r, "refused")
     \/ Goto(r, IF req[r].user \in deleted THEN "endSession" ELSE "claim")
  /\ UNCHANGED <<rows, locks, req>>

\* Mutant: the update does not ask for revokedAt: null.
ClaimableAlways(r) == TRUE

Claimable(r) == token[req[r].token].state = "live"

\* An UPDATE waits for the lock of a row that matches its WHERE clause.
Claim(r) ==
  LET t == req[r].token IN
  /\ pc[r] = "claim"
  /\ Claimable(r) => tokenLock[t] = None
  /\ IF Claimable(r)
       THEN token' = [token EXCEPT ![t].state = "revoked"] /\ Goto(r, "touch")
       ELSE Goto(r, AfterReuse) /\ UNCHANGED token
  /\ UNCHANGED <<deleted, session, locks, req>>

\* lastUsedAt: nothing else reads it, but the UPDATE waits for the row.
Touch(r) ==
  /\ pc[r] = "touch"
  /\ sessionLock[req[r].session] = None
  /\ Goto(r, "issue")
  /\ UNCHANGED <<rows, locks, req>>
-----------------------------------------------------------------------------
(* revokeSession, on its own (logout) or from rotate *)

Logout(r, t) == Present(r, t, "endSession")

EndSession(r) ==
  LET s == req[r].session IN
  /\ pc[r] = "endSession"
  /\ IF session[s].state = "live"
       THEN sessionLock[s] = None /\ sessionLock' = [sessionLock EXCEPT ![s] = r]
       ELSE UNCHANGED sessionLock
  /\ Goto(r, "endTokens")
  /\ UNCHANGED <<rows, tokenLock, req>>

\* What the statement finds: the live tokens of the session, or of the user.
LiveTokens(r) ==
  {t \in Tokens : token[t].state = "live" /\
     IF pc[r] = "endTokens" THEN token[t].session = req[r].session
                            ELSE session[token[t].session].user = req[r].user}

LockTokens(r) ==
  /\ \A t \in LiveTokens(r) : tokenLock[t] = None
  /\ tokenLock' = [t \in Tokens |-> IF t \in LiveTokens(r) THEN r ELSE tokenLock[t]]

EndTokens(r) ==
  /\ pc[r] = "endTokens"
  /\ LockTokens(r)
  /\ Goto(r, "endCommit")
  /\ UNCHANGED <<rows, sessionLock, req>>

Release(r) ==
  /\ sessionLock' = [s \in Sessions |-> IF sessionLock[s] = r THEN None ELSE sessionLock[s]]
  /\ tokenLock' = [t \in Tokens |-> IF tokenLock[t] = r THEN None ELSE tokenLock[t]]

\* Mutant: the transaction revokes the tokens only.
RevokeTokens(r) ==
  /\ token' = [t \in Tokens |->
       IF tokenLock[t] = r THEN [token[t] EXCEPT !.state = "revoked"] ELSE token[t]]
  /\ Release(r) /\ UNCHANGED session

\* Commit: the rows the transaction locked are the rows it revoked.
Revoke(r) ==
  /\ session' = [s \in Sessions |->
       IF sessionLock[s] = r THEN [session[s] EXCEPT !.state = "revoked"] ELSE session[s]]
  /\ token' = [t \in Tokens |->
       IF tokenLock[t] = r THEN [token[t] EXCEPT !.state = "revoked"] ELSE token[t]]
  /\ Release(r)

EndCommit(r) ==
  /\ pc[r] = "endCommit"
  /\ Revoke(r)
  /\ Goto(r, "done")
  /\ UNCHANGED <<deleted, req>>
-----------------------------------------------------------------------------
(* deleteAccount, as far as sessions go *)

Delete(r, u) ==
  /\ pc[r] \in Replies
  /\ u \notin deleted
  /\ req' = [req EXCEPT ![r] = [user |-> u, session |-> None, token |-> None]]
  /\ Goto(r, "deleteTokens")
  /\ UNCHANGED <<rows, locks>>

DeleteTokens(r) ==
  /\ pc[r] = "deleteTokens"
  /\ LockTokens(r)
  /\ Goto(r, "deleteSessions")
  /\ UNCHANGED <<rows, sessionLock, req>>

LiveSessions(r) == {s \in Sessions : session[s] = [user |-> req[r].user, state |-> "live"]}

DeleteSessions(r) ==
  /\ pc[r] = "deleteSessions"
  /\ \A s \in LiveSessions(r) : sessionLock[s] = None
  /\ sessionLock' = [s \in Sessions |-> IF s \in LiveSessions(r) THEN r ELSE sessionLock[s]]
  /\ Goto(r, "deleteUser")
  /\ UNCHANGED <<rows, tokenLock, req>>

DeleteUser(r) ==
  /\ pc[r] = "deleteUser"
  /\ Revoke(r)
  /\ deleted' = deleted \union {req[r].user}
  /\ Goto(r, "done")
  /\ UNCHANGED req
-----------------------------------------------------------------------------
(* Postgres and the connection *)

\* The statement r has reached waits for a row q has locked.
WaitsFor(r, q) ==
  CASE pc[r] = "endTokens" -> \E t \in LiveTokens(r) : tokenLock[t] = q
    [] pc[r] = "deleteSessions" -> \E s \in LiveSessions(r) : sessionLock[s] = q
    [] OTHER -> FALSE

Abort(r) == Release(r) /\ Goto(r, "aborted") /\ UNCHANGED <<rows, req>>

\* Two transactions that wait for each other: Postgres aborts one.
Deadlock(r) ==
  /\ \E q \in Requests : WaitsFor(r, q) /\ WaitsFor(q, r)
  /\ Abort(r)

\* The process or its connection dies: an open transaction is rolled back.
Cut(r) == pc[r] \notin Replies /\ Abort(r)

Step(r) ==
  \/ StartSession(r) \/ Issue(r)
  \/ ReadToken(r) \/ ReadSession(r) \/ ReadUser(r) \/ Claim(r) \/ Touch(r)
  \/ EndSession(r) \/ EndTokens(r) \/ EndCommit(r)
  \/ DeleteTokens(r) \/ DeleteSessions(r) \/ DeleteUser(r)

Request(r) ==
  \/ \E u \in Users : SignIn(r, u) \/ Delete(r, u)
  \/ \E t \in Tokens : Refresh(r, t) \/ Logout(r, t)

Calm == \E r \in Requests : Request(r) \/ Step(r) \/ Deadlock(r)

Next == Calm \/ \E r \in Requests : Cut(r)

Spec == Init /\ [][Next]_vars

\* No connection dies, started requests go on, Postgres looks for deadlocks, and
\* it serves those that wait for a row in order (strong fairness of the waits in
\* transactions that revoke).
FairSpec ==
  /\ Init /\ [][Calm]_vars
  /\ WF_vars(\E r \in Requests : Deadlock(r))
  /\ \A r \in Requests :
       /\ WF_vars(Step(r))
       /\ SF_vars(EndSession(r)) /\ SF_vars(EndTokens(r)) /\ SF_vars(DeleteSessions(r))
-----------------------------------------------------------------------------
\* Every variable holds a value the code can store, and an open transaction has
\* locked only rows that are live, which it is going to revoke.
TypeOK ==
  /\ deleted \subseteq Users
  /\ session \in [Sessions -> [user : Users \union {None}, state : States]]
  /\ token \in [Tokens -> [session : Sessions \union {None}, state : States,
                           from : Tokens \union {None}, late : BOOLEAN]]
  /\ sessionLock \in [Sessions -> Requests \union {None}]
  /\ tokenLock \in [Tokens -> Requests \union {None}]
  /\ \A s \in Sessions : sessionLock[s] # None => session[s].state = "live"
  /\ \A t \in Tokens : tokenLock[t] # None => token[t].state = "live"
  /\ pc \in [Requests -> Replies \union
       {"create", "issue", "readToken", "readSession", "readUser", "claim", "touch",
        "endSession", "endTokens", "endCommit", "deleteTokens", "deleteSessions", "deleteUser"}]
  /\ req \in [Requests -> [user : Users \union {None}, session : Sessions \union {None},
                           token : Tokens \union {None}]]

\* "Of two simultaneous refreshes, only one rotates": a refresh token is replaced
\* by at most one other, whatever refreshes, logouts and deletions overlap.
OneHeir ==
  \A t1, t2 \in Tokens : token[t1].from # None /\ token[t1].from = token[t2].from => t1 = t2

\* A refresh that was under way when its session ended, or its user was deleted,
\* may still be handed a token, but that token can never be exchanged again.
LateTokensAreBarren ==
  \A t, heir \in Tokens : token[t].late => token[heir].from # t

\* Each session is a chain: a token and the one that replaced it belong to the
\* same session, and only the newest of a session can be live.
OneLiveToken ==
  \A t1, t2 \in Tokens :
    /\ token[t1].state = "live" /\ token[t2].state = "live"
    /\ token[t1].session = token[t2].session
    => t1 = t2

\* A replaced token that is presented again ends its session, also when the
\* revocation is aborted by a deadlock with a deletion (which then ends it).
ReuseEndsSession ==
  \A r \in Requests, t \in Tokens :
    pc[r] = "readToken" /\ req[r].token = t /\ token[t].state = "revoked"
      ~> token[t].session # None /\ session[token[t].session].state = "revoked"
-----------------------------------------------------------------------------
(* What the rows of sessions and tokens stand for *)

Minting(r) == pc[r] \in {"touch", "issue"}

OpenSessions == {s \in Sessions : Authorised(s)}

EndedSessions == {s \in Sessions : session[s].state # "absent" /\ ~Authorised(s)}

\* A live token of a session that is open.
UsableKeys ==
  {k \in Sessions \X Tokens : /\ token[k[2]].state = "live" /\ token[k[2]].session = k[1]
                              /\ Authorised(k[1])}

OwedSessions == {s \in OpenSessions : \E r \in Requests : Minting(r) /\ req[r].session = s}

PastTokens == {t \in Tokens : token[t].state # "absent" /\ ~token[t].late}

Chain == INSTANCE SessionKeys WITH
  open <- OpenSessions, ended <- EndedSessions, keys <- UsableKeys,
  owed <- OwedSessions, past <- PastTokens

\* Sign-ins, refreshes, logouts and deletions, with the races between their reads
\* and writes and with transactions that are aborted, look like sessions whose one
\* key is passed on: no key without its session being opened or the last key being
\* turned in, no session that closes and keeps a key or opens again.
KeysSpec == Chain!Spec
-----------------------------------------------------------------------------
\* Rows refer to rows that exist, and a token is replaced only once revoked.
Rows ==
  /\ \A s \in Sessions : session[s].state # "absent" => session[s].user \in Users
  /\ \A t \in Tokens :
       IF token[t].state = "absent"
         THEN token[t].from = None /\ ~token[t].late
         ELSE token[t].session \in Sessions /\ session[token[t].session].state # "absent"
  /\ \A t \in Tokens : token[t].from # None =>
       /\ token[token[t].from].state = "revoked"
       /\ token[token[t].from].session = token[t].session

\* A request in the middle of rotate or logout holds rows that belong together.
Held ==
  \A r \in Requests :
    /\ pc[r] \in {"readToken", "readSession", "readUser", "claim", "touch",
                   "endSession", "endTokens", "endCommit"} =>
         /\ req[r].token \in Tokens
         /\ token[req[r].token].state # "absent"
    /\ pc[r] \in {"create", "deleteTokens", "deleteSessions", "deleteUser"} =>
         req[r].user \in Users /\ req[r].token = None
    /\ pc[r] = "issue" =>
         req[r].session \in Sessions /\ session[req[r].session].state # "absent"
    /\ req[r].token # None =>
         /\ token[req[r].token].state # "absent"
         /\ req[r].session = token[req[r].token].session
         /\ req[r].user = session[req[r].session].user

\* A session has one live token or one request about to issue it, never both:
\* whoever claims the live token is the only one who may replace it.
Exclusive ==
  \A r \in Requests : Minting(r) =>
    /\ \A q \in Requests : Minting(q) /\ req[q].session = req[r].session => q = r
    /\ \A t \in Tokens : token[t].session = req[r].session => token[t].state # "live"
    /\ req[r].token # None =>
         /\ token[req[r].token].state = "revoked"
         /\ \A t \in Tokens : token[t].from # req[r].token

\* A late token stays without authority, and no request gets past the reads of
\* rotate with one.
Late ==
  /\ \A t \in Tokens : token[t].late => ~Authorised(token[t].session)
  /\ \A r \in Requests : req[r].token # None /\ token[req[r].token].late =>
       /\ pc[r] \notin {"claim", "touch", "issue"}
       /\ pc[r] = "readUser" => req[r].user \in deleted

IInv == /\ TypeOK /\ OneHeir /\ LateTokensAreBarren /\ OneLiveToken
        /\ Rows /\ Held /\ Exclusive /\ Late
=============================================================================
