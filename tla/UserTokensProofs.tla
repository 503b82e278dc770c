-------------------------- MODULE UserTokensProofs --------------------------
(***************************************************************************)
(* Proofs about UserTokens for any users, sessions, tokens and requests.   *)
(* The invariant that carries them is IInv: which rows a request in        *)
(* flight holds (Held), that a session has one live token or one request   *)
(* about to issue it (Exclusive), and that nobody gets past the reads of   *)
(* rotate with a token issued too late (Late).  With what transactions     *)
(* have locked (Locking) it gives the refinement of SessionKeys.           *)
(***************************************************************************)
EXTENDS UserTokens, TLAPS

\* The steps that change no row, only what requests hold, lock and do next.
Quiet(r) ==
  \/ \E u \in Users : SignIn(r, u) \/ Delete(r, u)
  \/ \E t \in Tokens : Refresh(r, t) \/ Logout(r, t)
  \/ ReadToken(r) \/ ReadSession(r) \/ ReadUser(r) \/ Touch(r)
  \/ EndSession(r) \/ EndTokens(r) \/ DeleteTokens(r) \/ DeleteSessions(r)

\* Every row is well typed, and a token that exists has a session that exists.
LEMMA RowTypes ==
  ASSUME TypeOK, Rows
  PROVE  /\ \A s \in Sessions : session[s].state \in States
         /\ \A t \in Tokens : token[t].state \in States /\ token[t].late \in BOOLEAN
         /\ \A t \in Tokens : token[t].state # "absent" =>
              /\ token[t].session \in Sessions
              /\ session[token[t].session].state # "absent"
              /\ session[token[t].session].user \in Users
  BY DEF TypeOK, Rows

-----------------------------------------------------------------------------
(* Type correctness *)

\* Steps that leave the rows alone keep the variables well typed, because they
\* lock only live rows.
LEMMA QuietTyped ==
  ASSUME IInv, NEW r \in Requests, Quiet(r)
  PROVE  TypeOK'
<1> USE DEF IInv, TypeOK, Replies, Goto, rows, locks
<1>1. ASSUME NEW u \in Users, SignIn(r, u) \/ Delete(r, u) PROVE TypeOK'
  BY SMTT(40), <1>1 DEF SignIn, Delete
<1>2. ASSUME NEW t \in Tokens, Refresh(r, t) \/ Logout(r, t) PROVE TypeOK'
  <2>1. token[t].session \in Sessions /\ session[token[t].session].user \in Users
    BY <1>2, RowTypes DEF Refresh, Logout, Present
  <2>2. \E step \in {"readToken", "endSession"} : Present(r, t, step)
    BY <1>2 DEF Refresh, Logout
  <2>3. req' \in [Requests -> [user : Users \union {None}, session : Sessions \union {None},
                              token : Tokens \union {None}]]
    BY <2>1, <2>2 DEF Present
  <2> QED
    BY <2>2, <2>3 DEF Present
<1>3. CASE ReadToken(r) \/ ReadSession(r)
  BY <1>3 DEF ReadToken, ReadSession, AfterReuse
<1>4. CASE ReadUser(r) \/ Touch(r)
  BY <1>4 DEF ReadUser, Touch
<1>5. CASE EndSession(r)
  BY <1>5 DEF EndSession
<1>6. CASE EndTokens(r) \/ DeleteTokens(r)
  BY <1>6 DEF EndTokens, DeleteTokens, LockTokens, LiveTokens
<1>7. CASE DeleteSessions(r)
  BY <1>7 DEF DeleteSessions, LiveSessions
<1> QED
  BY <1>1, <1>2, <1>3, <1>4, <1>5, <1>6, <1>7 DEF Quiet

\* A commit that revokes what its transaction locked: no row comes to life, what
\* was revoked stays so, and rows keep whom they belong to.
LEMMA RevokedRows ==
  ASSUME TypeOK, NEW r \in Requests, Revoke(r)
  PROVE  /\ session' \in [Sessions -> [user : Users \union {None}, state : States]]
         /\ token' \in [Tokens -> [session : Sessions \union {None}, state : States,
                                   from : Tokens \union {None}, late : BOOLEAN]]
         /\ \A s \in Sessions :
              /\ session'[s].user = session[s].user
              /\ session'[s].state = IF sessionLock[s] = r THEN "revoked" ELSE session[s].state
              /\ sessionLock[s] = r => session[s].state = "live"
         /\ \A t \in Tokens :
              /\ token'[t].session = token[t].session
              /\ token'[t].from = token[t].from
              /\ token'[t].late = token[t].late
              /\ token'[t].state = IF tokenLock[t] = r THEN "revoked" ELSE token[t].state
              /\ tokenLock[t] = r => token[t].state = "live"
<1>1. r # None
  BY UserTokensAssumption
<1>2. ASSUME NEW s \in Sessions
      PROVE  /\ session'[s] \in [user : Users \union {None}, state : States]
             /\ session'[s].user = session[s].user
             /\ session'[s].state = IF sessionLock[s] = r THEN "revoked" ELSE session[s].state
  BY <1>2 DEF TypeOK, Revoke, States
<1>3. ASSUME NEW t \in Tokens
      PROVE  /\ token'[t] \in [session : Sessions \union {None}, state : States,
                               from : Tokens \union {None}, late : BOOLEAN]
             /\ token'[t].session = token[t].session
             /\ token'[t].from = token[t].from
             /\ token'[t].late = token[t].late
             /\ token'[t].state = IF tokenLock[t] = r THEN "revoked" ELSE token[t].state
  BY <1>3 DEF TypeOK, Revoke, States
<1>4. /\ session' \in [Sessions -> [user : Users \union {None}, state : States]]
      /\ token' \in [Tokens -> [session : Sessions \union {None}, state : States,
                                from : Tokens \union {None}, late : BOOLEAN]]
  BY <1>2, <1>3 DEF Revoke
<1> QED
  BY <1>1, <1>2, <1>3, <1>4 DEF TypeOK

\* Revoking keeps the variables well typed: the locks of others stay on live rows.
LEMMA RevokeTyped ==
  ASSUME TypeOK, NEW r \in Requests, Revoke(r)
  PROVE  /\ sessionLock' \in [Sessions -> Requests \union {None}]
         /\ tokenLock' \in [Tokens -> Requests \union {None}]
         /\ \A s \in Sessions : sessionLock'[s] # None => session'[s].state = "live"
         /\ \A t \in Tokens : tokenLock'[t] # None => token'[t].state = "live"
<1>1. /\ \A s \in Sessions : sessionLock'[s] = IF sessionLock[s] = r THEN None ELSE sessionLock[s]
      /\ \A t \in Tokens : tokenLock'[t] = IF tokenLock[t] = r THEN None ELSE tokenLock[t]
  BY DEF Revoke, Release
<1>2. /\ sessionLock' \in [Sessions -> Requests \union {None}]
      /\ tokenLock' \in [Tokens -> Requests \union {None}]
  BY DEF Revoke, Release, TypeOK
<1> QED
  BY <1>1, <1>2, RevokedRows DEF TypeOK

\* What claiming a token does to its row.
LEMMA ClaimedRow ==
  ASSUME TypeOK, Held, NEW r \in Requests, Claim(r), Claimable(r)
  PROVE  LET t == req[r].token IN
         /\ t \in Tokens /\ token[t].state = "live" /\ tokenLock[t] = None
         /\ token' \in [Tokens -> [session : Sessions \union {None}, state : States,
                                   from : Tokens \union {None}, late : BOOLEAN]]
         /\ \A x \in Tokens :
              /\ token'[x].session = token[x].session
              /\ token'[x].from = token[x].from
              /\ token'[x].late = token[x].late
              /\ token'[x].state = IF x = t THEN "revoked" ELSE token[x].state
<1> DEFINE t == req[r].token
<1>1. t \in Tokens /\ token[t].state = "live" /\ tokenLock[t] = None
  BY DEF Held, Claim, Claimable
<1>2. token' = [token EXCEPT ![t].state = "revoked"]
  BY DEF Claim
<1> HIDE DEF t
<1>3. ASSUME NEW x \in Tokens
      PROVE  /\ token'[x] \in [session : Sessions \union {None}, state : States,
                               from : Tokens \union {None}, late : BOOLEAN]
             /\ token'[x].session = token[x].session
             /\ token'[x].from = token[x].from
             /\ token'[x].late = token[x].late
             /\ token'[x].state = IF x = t THEN "revoked" ELSE token[x].state
  BY <1>1, <1>2, <1>3 DEF TypeOK, States
<1>4. token' \in [Tokens -> [session : Sessions \union {None}, state : States,
                             from : Tokens \union {None}, late : BOOLEAN]]
  BY <1>2, <1>3 DEF TypeOK
<1> QED
  BY <1>1, <1>3, <1>4 DEF t

\* Every step keeps the variables well typed.
LEMMA StepTyped ==
  ASSUME IInv, [Next]_vars
  PROVE  TypeOK'
<1>1. ASSUME NEW r \in Requests, Quiet(r) PROVE TypeOK'
  BY <1>1, QuietTyped
<1>2. ASSUME NEW r \in Requests, StartSession(r) PROVE TypeOK'
  BY <1>2, UserTokensAssumption DEF IInv, TypeOK, Held, StartSession, Goto, States, Replies, locks
<1>3. ASSUME NEW r \in Requests, Issue(r) PROVE TypeOK'
  BY <1>3, UserTokensAssumption DEF IInv, TypeOK, Held, Issue, Authorised, Goto, States, Replies, locks
<1>4. ASSUME NEW r \in Requests, Claim(r) PROVE TypeOK'
  <2>1. CASE Claimable(r)
    <3>1. \A x \in Tokens : tokenLock[x] # None => token'[x].state = "live"
      BY <1>4, <2>1, ClaimedRow DEF IInv, TypeOK
    <3> QED
      BY <1>4, <2>1, <3>1, ClaimedRow DEF IInv, TypeOK, Claim, Goto, Replies, locks
  <2>2. CASE ~Claimable(r)
    BY <1>4, <2>2 DEF IInv, TypeOK, Claim, AfterReuse, Goto, Replies, locks
  <2> QED
    BY <2>1, <2>2
<1>5. ASSUME NEW r \in Requests, EndCommit(r) \/ DeleteUser(r) PROVE TypeOK'
  <2>1. Revoke(r) /\ deleted' \subseteq Users
    BY <1>5 DEF IInv, TypeOK, Held, EndCommit, DeleteUser
  <2> QED
    BY <1>5, <2>1, RevokedRows, RevokeTyped DEF IInv, TypeOK, EndCommit, DeleteUser, Goto, Replies
<1>6. ASSUME NEW r \in Requests, Abort(r) PROVE TypeOK'
  BY <1>6 DEF IInv, TypeOK, Abort, Release, Goto, Replies, rows
<1>7. CASE UNCHANGED vars
  BY <1>7 DEF IInv, TypeOK, vars
<1> QED
  BY <1>1, <1>2, <1>3, <1>4, <1>5, <1>6, <1>7
     DEF Next, Calm, Request, Step, Quiet, Deadlock, Cut

-----------------------------------------------------------------------------
(* Steps that change no row *)

\* What is said of the rows alone survives a step that leaves them alone.
LEMMA SameRows ==
  ASSUME OneHeir, LateTokensAreBarren, OneLiveToken, Rows, UNCHANGED rows
  PROVE  OneHeir' /\ LateTokensAreBarren' /\ OneLiveToken' /\ Rows'
  BY DEF OneHeir, LateTokensAreBarren, OneLiveToken, Rows, rows

\* A quiet step makes no request a new minter and leaves every request with rows
\* that belong together; only rotate's reads move a token closer to a claim.
LEMMA QuietKeeps ==
  ASSUME IInv, NEW r \in Requests, Quiet(r)
  PROVE  Held' /\ Exclusive' /\ Late'
<1> USE UserTokensAssumption
        DEF IInv, TypeOK, Held, Exclusive, Late, Minting, Authorised, Replies, Goto, rows, locks
<1>1. ASSUME NEW u \in Users, SignIn(r, u) \/ Delete(r, u) PROVE Held' /\ Exclusive' /\ Late'
  <2>1. PICK step \in {"create", "deleteTokens"} :
          /\ pc' = [pc EXCEPT ![r] = step]
          /\ req' = [req EXCEPT ![r] = [user |-> u, session |-> None, token |-> None]]
          /\ UNCHANGED <<deleted, session, token>>
    BY <1>1 DEF SignIn, Delete
  <2>2. /\ pc'[r] = step /\ req'[r].user = u /\ req'[r].token = None
        /\ \A q \in Requests \ {r} : pc'[q] = pc[q] /\ req'[q] = req[q]
    BY <2>1
  <2>3. Held'
    BY <2>1, <2>2
  <2>4. Exclusive'
    BY <2>1, <2>2
  <2>5. Late'
    BY <2>1, <2>2
  <2> QED
    BY <2>3, <2>4, <2>5
<1>2. ASSUME NEW t \in Tokens, Refresh(r, t) \/ Logout(r, t) PROVE Held' /\ Exclusive' /\ Late'
  <2>1. \E step \in {"readToken", "endSession"} : Present(r, t, step)
    BY <1>2 DEF Refresh, Logout
  <2> QED
    BY <2>1, RowTypes DEF Present
<1>3. CASE ReadToken(r)
  BY <1>3 DEF ReadToken, AfterReuse
<1>4. CASE ReadSession(r)
  BY <1>4, RowTypes DEF ReadSession, SessionEnded, AfterReuse, States
<1>5. CASE ReadUser(r)
  BY <1>5 DEF ReadUser
<1>6. CASE Touch(r)
  BY <1>6, RowTypes DEF Touch
<1>7. CASE EndSession(r) \/ EndTokens(r)
  <2>1. Held'
    BY <1>7 DEF EndSession, EndTokens, LockTokens
  <2>2. Exclusive'
    BY <1>7 DEF EndSession, EndTokens, LockTokens
  <2>3. Late'
    BY <1>7 DEF EndSession, EndTokens, LockTokens
  <2> QED
    BY <2>1, <2>2, <2>3
<1>8. CASE DeleteTokens(r) \/ DeleteSessions(r)
  <2>1. Held'
    BY <1>8 DEF DeleteTokens, DeleteSessions, LockTokens
  <2>2. Exclusive'
    BY <1>8 DEF DeleteTokens, DeleteSessions, LockTokens
  <2>3. Late'
    BY <1>8 DEF DeleteTokens, DeleteSessions, LockTokens
  <2> QED
    BY <2>1, <2>2, <2>3
<1> QED
  BY <1>1, <1>2, <1>3, <1>4, <1>5, <1>6, <1>7, <1>8 DEF Quiet

\* An abort gives up what the request was doing and nothing else.
LEMMA AbortKeeps ==
  ASSUME IInv, NEW r \in Requests, Abort(r)
  PROVE  Held' /\ Exclusive' /\ Late'
  BY DEF IInv, TypeOK, Held, Exclusive, Late, Minting, Authorised, Replies, Abort, Goto, rows

-----------------------------------------------------------------------------
(* Steps that change rows *)

Properties == OneHeir /\ LateTokensAreBarren /\ OneLiveToken /\ Rows /\ Held /\ Exclusive /\ Late

\* A new session has no token yet and no other request about to issue one.
LEMMA StartSessionKeeps ==
  ASSUME IInv, NEW r \in Requests, StartSession(r)
  PROVE  Properties'
<1> USE UserTokensAssumption DEF IInv, TypeOK, States, Replies, StartSession, Goto, locks
<1>1. OneHeir' /\ LateTokensAreBarren' /\ OneLiveToken'
  BY DEF OneHeir, LateTokensAreBarren, OneLiveToken
<1>2. Rows'
  BY DEF Rows, Held
<1>3. Held'
  BY DEF Rows, Held
<1>4. Exclusive'
  BY DEF Rows, Held, Exclusive, Minting
<1>5. Late'
  BY DEF Rows, Held, Late, Authorised
<1> QED
  BY <1>1, <1>2, <1>3, <1>4, <1>5 DEF Properties

\* Issuing: the request was the only one allowed to, its session has no live
\* token, and the token it replaces has no heir and was not late.
LEMMA IssueKeeps ==
  ASSUME IInv, NEW r \in Requests, Issue(r)
  PROVE  Properties'
<1> USE UserTokensAssumption
<1>1. PICK t \in Tokens :
        /\ token[t].state = "absent"
        /\ token' = [token EXCEPT ![t] =
             [session |-> req[r].session, state |-> "live",
              from |-> req[r].token, late |-> ~Authorised(req[r].session)]]
  BY DEF Issue
<1>2. /\ token'[t].session = req[r].session /\ token'[t].state = "live"
      /\ token'[t].from = req[r].token /\ token'[t].late = ~Authorised(req[r].session)
      /\ \A x \in Tokens \ {t} : token'[x] = token[x]
  BY <1>1 DEF IInv, TypeOK
<1>3. /\ pc[r] = "issue" /\ Minting(r)
      /\ pc'[r] = "issued" /\ \A q \in Requests \ {r} : pc'[q] = pc[q]
      /\ UNCHANGED <<deleted, session, req>>
  BY DEF IInv, TypeOK, Issue, Goto, Minting
<1>4. /\ req[r].session \in Sessions /\ session[req[r].session].state # "absent"
      /\ \A q \in Requests : req[q].token # t
      /\ \A x \in Tokens : token[x].from # t
      /\ \A q \in Requests : req[q].token \in Tokens \union {None}
  <2>1. t # None /\ req[r].session \in Sessions /\ session[req[r].session].state # "absent"
    BY <1>3 DEF IInv, Held
  <2>2. \A q \in Requests : req[q].token # t
    BY <1>1, <2>1 DEF IInv, Held
  <2>3. \A x \in Tokens : token[x].from # t
    BY <1>1, <2>1 DEF IInv, Rows
  <2>4. \A q \in Requests : req[q].token \in Tokens \union {None}
    BY DEF IInv, TypeOK
  <2> QED
    BY <2>1, <2>2, <2>3, <2>4
<1>5. OneHeir'
  BY <1>2, <1>3 DEF IInv, OneHeir, Exclusive
<1>6. LateTokensAreBarren'
  BY <1>2, <1>3, <1>4 DEF IInv, LateTokensAreBarren, Late
<1>7. OneLiveToken'
  BY <1>2, <1>3 DEF IInv, OneLiveToken, Exclusive
<1>8. Rows'
  BY <1>1, <1>2, <1>3, <1>4 DEF IInv, Rows, Held, Exclusive
<1>9. Held'
  BY <1>2, <1>3, <1>4 DEF IInv, TypeOK, Held, Replies
<1>10. Exclusive'
  <2>1. ASSUME NEW q \in Requests, Minting(q)'
        PROVE  /\ q # r /\ Minting(q) /\ req[q].session # req[r].session
               /\ req[q].token # None => req[q].token # req[r].token
    BY <1>3, <2>1 DEF IInv, Held, Exclusive, Minting
  <2>2. ASSUME NEW q \in Requests, Minting(q)', NEW x \in Tokens
        PROVE  /\ token'[x].session = req[q].session => token'[x].state # "live"
               /\ req[q].token # None => token'[x].from # req[q].token
    BY <1>2, <2>1, <2>2 DEF IInv, Exclusive
  <2>3. ASSUME NEW q \in Requests, Minting(q)', req[q].token # None
        PROVE  token'[req[q].token].state = "revoked"
    BY <1>2, <1>4, <2>1, <2>3 DEF IInv, Exclusive
  <2> QED
    BY <1>3, <2>1, <2>2, <2>3 DEF IInv, Exclusive
<1>11. Late'
  <2>1. \A x \in Tokens : token'[x].late => ~Authorised(token'[x].session)
    BY <1>2 DEF IInv, Late
  <2>2. \A q \in Requests : req[q].token # None => token'[req[q].token].late = token[req[q].token].late
    BY <1>2, <1>4
  <2> QED
    BY <1>3, <2>1, <2>2 DEF IInv, Late, Authorised
<1> QED
  BY <1>5, <1>6, <1>7, <1>8, <1>9, <1>10, <1>11 DEF Properties

\* Claiming: the token was the live one of its session, so nobody else is
\* minting there, and it has no heir.
LEMMA ClaimKeeps ==
  ASSUME IInv, NEW r \in Requests, Claim(r)
  PROVE  Properties'
<1> USE UserTokensAssumption
<1>1. CASE ~Claimable(r)
  <2>1. UNCHANGED rows /\ UNCHANGED req
    BY <1>1 DEF Claim, rows
  <2>2. pc'[r] = "endSession" /\ \A q \in Requests \ {r} : pc'[q] = pc[q]
    BY <1>1 DEF IInv, TypeOK, Claim, Goto, AfterReuse
  <2>3. Held' /\ Exclusive' /\ Late'
    BY <2>1, <2>2 DEF IInv, TypeOK, Held, Exclusive, Late, Minting, Authorised, Replies, rows, Claim
  <2> QED
    BY <2>1, <2>3, SameRows DEF IInv, Properties
<1>2. CASE Claimable(r)
  <2> DEFINE t == req[r].token
  <2>1. /\ t \in Tokens /\ token[t].state = "live"
        /\ \A x \in Tokens :
             /\ token'[x].session = token[x].session
             /\ token'[x].from = token[x].from
             /\ token'[x].late = token[x].late
             /\ token'[x].state = IF x = t THEN "revoked" ELSE token[x].state
    BY <1>2, ClaimedRow DEF IInv
  <2>2. /\ pc[r] = "claim"
        /\ pc'[r] = "touch" /\ \A q \in Requests \ {r} : pc'[q] = pc[q]
        /\ UNCHANGED <<deleted, session, req>>
    BY <1>2 DEF IInv, TypeOK, Claim, Goto
  <2>3. t # None /\ req[r].session = token[t].session
    BY <2>1 DEF IInv, Held
  <2> HIDE DEF t
  <2>4. \A x \in Tokens : token[x].from # t
    BY <2>1, <2>3 DEF IInv, Rows
  <2>5. \A q \in Requests : Minting(q) => req[q].session # req[r].session
    BY <2>1, <2>3 DEF IInv, Exclusive
  <2>6. OneHeir' /\ LateTokensAreBarren' /\ OneLiveToken'
    BY <2>1 DEF IInv, OneHeir, LateTokensAreBarren, OneLiveToken
  <2>7. Rows'
    BY <2>1, <2>2 DEF IInv, TypeOK, Rows
  <2>8. Held'
    BY <2>1, <2>2, <2>3 DEF IInv, TypeOK, Held, Replies, t
  <2>9. Exclusive'
    <3>1. \A x \in Tokens : token[x].session = token[t].session /\ x # t => token[x].state # "live"
      BY <2>1 DEF IInv, OneLiveToken
    <3>2. ASSUME NEW q \in Requests, Minting(q)'
          PROVE  IF q = r THEN TRUE ELSE Minting(q) /\ req[q].session # req[r].session
      BY <2>2, <2>5, <3>2 DEF Minting
    <3>3. ASSUME NEW q \in Requests, Minting(q)', NEW x \in Tokens
          PROVE  /\ token'[x].session = req[q].session => token'[x].state # "live"
                 /\ req[q].token # None => token'[x].from # req[q].token
      <4>1. CASE q = r
        BY <2>1, <2>3, <2>4, <3>1, <4>1 DEF t
      <4>2. CASE q # r
        BY <2>1, <3>2, <3>3, <4>2 DEF IInv, Exclusive
      <4> QED
        BY <4>1, <4>2
    <3>4. ASSUME NEW q \in Requests, Minting(q)', req[q].token # None
          PROVE  token'[req[q].token].state = "revoked"
      <4>1. req[q].token \in Tokens
        BY <3>4 DEF IInv, TypeOK
      <4> QED
        BY <2>1, <3>2, <3>4, <4>1 DEF IInv, Exclusive, t
    <3>5. ASSUME NEW q \in Requests, Minting(q)', NEW p \in Requests, Minting(p)',
                 req[p].session = req[q].session
          PROVE  p = q
      BY <3>2, <3>5 DEF IInv, Exclusive
    <3> QED
      BY <2>2, <3>3, <3>4, <3>5 DEF Exclusive
  <2>10. Late'
    BY <2>1, <2>2 DEF IInv, TypeOK, Held, Late, Authorised, Rows, t
  <2> QED
    BY <2>6, <2>7, <2>8, <2>9, <2>10 DEF Properties
<1> QED
  BY <1>1, <1>2

\* Revoking rows, and deleting a user with them, takes life away and gives none.
LEMMA RevokeKeeps ==
  ASSUME IInv, NEW r \in Requests, EndCommit(r) \/ DeleteUser(r)
  PROVE  Properties'
<1> USE UserTokensAssumption
<1>1. /\ Revoke(r) /\ UNCHANGED req /\ deleted \subseteq deleted'
      /\ pc'[r] = "done" /\ \A q \in Requests \ {r} : pc'[q] = pc[q]
  BY DEF IInv, TypeOK, EndCommit, DeleteUser, Goto
<1>2. /\ \A s \in Sessions :
           /\ session'[s].user = session[s].user
           /\ session[s].state # "live" => session'[s].state = session[s].state
           /\ session'[s].state = session[s].state \/ session'[s].state = "revoked"
      /\ \A t \in Tokens :
           /\ token'[t].session = token[t].session
           /\ token'[t].from = token[t].from
           /\ token'[t].late = token[t].late
           /\ token[t].state # "live" => token'[t].state = token[t].state
           /\ token'[t].state = token[t].state \/ token'[t].state = "revoked"
  BY <1>1, RevokedRows DEF IInv
<1>3. OneHeir' /\ LateTokensAreBarren' /\ OneLiveToken'
  BY <1>2 DEF IInv, OneHeir, LateTokensAreBarren, OneLiveToken
<1>4. Rows'
  BY <1>2 DEF IInv, TypeOK, Rows
<1>5. Held'
  BY <1>1, <1>2 DEF IInv, TypeOK, Held, Rows, Replies
<1>6. Exclusive'
  BY <1>1, <1>2 DEF IInv, TypeOK, Exclusive, Minting
<1>7. Late'
  BY <1>1, <1>2 DEF IInv, TypeOK, Held, Late, Rows, Authorised
<1> QED
  BY <1>3, <1>4, <1>5, <1>6, <1>7 DEF Properties
-----------------------------------------------------------------------------

LEMMA InitInvariant == Init => IInv
  BY UserTokensAssumption
     DEF Init, IInv, TypeOK, OneHeir, LateTokensAreBarren, OneLiveToken, Rows, Held,
         Exclusive, Late, Minting, States, Replies

LEMMA StepInvariant == IInv /\ [Next]_vars => IInv'
<1> SUFFICES ASSUME IInv, [Next]_vars PROVE IInv'
  OBVIOUS
<1>1. TypeOK'
  BY StepTyped
<1>2. Properties'
  <2>1. ASSUME NEW r \in Requests, Quiet(r) PROVE Properties'
    <3>1. UNCHANGED rows
      BY <2>1 DEF Quiet, SignIn, Delete, Refresh, Logout, Present, ReadToken, ReadSession,
                  ReadUser, Touch, EndSession, EndTokens, DeleteTokens, DeleteSessions
    <3> QED
      BY <2>1, <3>1, SameRows, QuietKeeps DEF IInv, Properties
  <2>2. ASSUME NEW r \in Requests, Abort(r) PROVE Properties'
    BY <2>2, SameRows, AbortKeeps DEF IInv, Properties, Abort
  <2>3. CASE UNCHANGED vars
    BY <2>3 DEF vars, IInv, Properties, OneHeir, LateTokensAreBarren, OneLiveToken, Rows, Held,
                Exclusive, Late, Minting, Authorised
  <2> QED
    BY <2>1, <2>2, <2>3, StartSessionKeeps, IssueKeeps, ClaimKeeps, RevokeKeeps
       DEF Next, Calm, Request, Step, Quiet, Deadlock, Cut
<1> QED
  BY <1>1, <1>2 DEF IInv, Properties

\* The inductive invariant holds of every behaviour.
THEOREM InvariantHolds == Spec => []IInv
  BY InitInvariant, StepInvariant, PTL DEF Spec

\* Every variable keeps its type and only live rows are locked.
THEOREM TypeCorrect == Spec => []TypeOK
<1>1. IInv => TypeOK
  BY DEF IInv
<1> QED
  BY <1>1, InvariantHolds, PTL

\* "Of two simultaneous refreshes, only one rotates", for any number of them.
THEOREM TokensRotateOnce == Spec => []OneHeir
<1>1. IInv => OneHeir
  BY DEF IInv
<1> QED
  BY <1>1, InvariantHolds, PTL

\* A token handed out after its session ended can never be exchanged.
THEOREM EndedMeansEnded == Spec => []LateTokensAreBarren
<1>1. IInv => LateTokensAreBarren
  BY DEF IInv
<1> QED
  BY <1>1, InvariantHolds, PTL

\* A session never has two live refresh tokens.
THEOREM ChainsDoNotFork == Spec => []OneLiveToken
<1>1. IInv => OneLiveToken
  BY DEF IInv
<1> QED
  BY <1>1, InvariantHolds, PTL

-----------------------------------------------------------------------------
(* The refinement of SessionKeys *)

\* What a transaction has locked is what it is about: once revokeSession goes for
\* the tokens, their session is locked by it or revoked already, and deleteAccount
\* locks tokens of its user.
Locking ==
  \A r \in Requests :
    /\ pc[r] \in {"endTokens", "endCommit"} =>
         sessionLock[req[r].session] = r \/ session[req[r].session].state = "revoked"
    /\ \A t \in Tokens : tokenLock[t] = r =>
         \/ pc[r] = "endCommit" /\ token[t].session = req[r].session
         \/ pc[r] \in {"deleteSessions", "deleteUser"} /\ session[token[t].session].user = req[r].user

LEMMA LockingInit == Init => Locking
  BY UserTokensAssumption DEF Init, Locking, Replies

\* Rows that are locked or revoked stay so for the request that relies on them.
LEMMA LockingKeeps ==
  ASSUME IInv, Locking, [Next]_vars
  PROVE  Locking'
<1> USE UserTokensAssumption
<1>t. TypeOK /\ Held /\ Rows
  BY DEF IInv
<1>1. ASSUME UNCHANGED vars PROVE Locking'
  BY <1>1 DEF Locking, vars
<1>2. ASSUME NEW r \in Requests, Quiet(r) PROVE Locking'
  <2>1. UNCHANGED <<deleted, session, token>>
    BY <1>2 DEF Quiet, SignIn, Delete, Refresh, Logout, Present, ReadToken, ReadSession,
                ReadUser, Touch, EndSession, EndTokens, DeleteTokens, DeleteSessions, rows
  <2>2. CASE \/ \E u \in Users : SignIn(r, u) \/ Delete(r, u)
             \/ \E t \in Tokens : Refresh(r, t) \/ Logout(r, t)
    <3>1. /\ UNCHANGED locks /\ pc[r] \in Replies
          /\ pc'[r] \in {"create", "deleteTokens", "readToken", "endSession"}
          /\ \A q \in Requests \ {r} : pc'[q] = pc[q] /\ req'[q] = req[q]
      BY <1>t, <2>2 DEF SignIn, Delete, Refresh, Logout, Present, Goto, TypeOK
    <3> QED
      BY <2>1, <3>1 DEF Locking, Replies, locks
  <2>3. CASE ReadToken(r) \/ ReadSession(r) \/ ReadUser(r) \/ Touch(r)
    <3>1. /\ UNCHANGED <<sessionLock, tokenLock, req>>
          /\ pc[r] \in {"readToken", "readSession", "readUser", "touch"}
          /\ pc'[r] \in {"endSession", "readSession", "readUser", "refused", "claim", "issue"}
          /\ \A q \in Requests \ {r} : pc'[q] = pc[q]
      BY <1>t, <2>3 DEF ReadToken, ReadSession, ReadUser, Touch, Goto, TypeOK, locks, AfterReuse
    <3> QED
      BY <2>1, <3>1 DEF Locking
  <2>4. CASE EndSession(r)
    <3>1. /\ UNCHANGED <<tokenLock, req>> /\ pc[r] = "endSession" /\ pc'[r] = "endTokens"
          /\ \A q \in Requests \ {r} : pc'[q] = pc[q]
      BY <1>t, <2>4 DEF EndSession, Goto, TypeOK
    <3>2. req[r].session \in Sessions /\ session[req[r].session].state \in {"live", "revoked"}
      BY <1>t, <3>1, RowTypes DEF Held, States
    <3>3. sessionLock'[req[r].session] = r \/ session[req[r].session].state = "revoked"
      BY <1>t, <2>4, <3>2 DEF EndSession, TypeOK
    <3>4. \A s \in Sessions : sessionLock[s] # None => sessionLock'[s] = sessionLock[s]
      BY <1>t, <2>4 DEF EndSession, TypeOK
    <3>5. \A q \in Requests \ {r} : pc[q] \in {"endTokens", "endCommit"} => req[q].session \in Sessions
      BY <1>t, RowTypes DEF Held
    <3> QED
      BY <2>1, <3>1, <3>3, <3>4, <3>5 DEF Locking
  <2>5. CASE EndTokens(r)
    <3>1. /\ UNCHANGED <<sessionLock, req>> /\ pc[r] = "endTokens" /\ pc'[r] = "endCommit"
          /\ \A q \in Requests \ {r} : pc'[q] = pc[q]
      BY <1>t, <2>5 DEF EndTokens, Goto, TypeOK
    <3>2. \A t \in Tokens : tokenLock'[t] = tokenLock[t] \/ (tokenLock'[t] = r /\ token[t].session = req[r].session)
      BY <2>5 DEF EndTokens, LockTokens, LiveTokens
    <3> QED
      BY <2>1, <3>1, <3>2 DEF Locking
  <2>6. CASE DeleteTokens(r)
    <3>1. /\ UNCHANGED <<sessionLock, req>> /\ pc[r] = "deleteTokens" /\ pc'[r] = "deleteSessions"
          /\ \A q \in Requests \ {r} : pc'[q] = pc[q]
      BY <1>t, <2>6 DEF DeleteTokens, Goto, TypeOK
    <3>2. \A t \in Tokens : \/ tokenLock'[t] = tokenLock[t]
                            \/ tokenLock'[t] = r /\ session[token[t].session].user = req[r].user
      BY <2>6, <3>1 DEF DeleteTokens, LockTokens, LiveTokens
    <3> QED
      BY <2>1, <3>1, <3>2 DEF Locking
  <2>7. CASE DeleteSessions(r)
    <3>1. /\ UNCHANGED <<tokenLock, req>> /\ pc[r] = "deleteSessions" /\ pc'[r] = "deleteUser"
          /\ \A q \in Requests \ {r} : pc'[q] = pc[q]
      BY <1>t, <2>7 DEF DeleteSessions, Goto, TypeOK
    <3>2. \A s \in Sessions : sessionLock[s] # None => sessionLock'[s] = sessionLock[s]
      BY <1>t, <2>7 DEF DeleteSessions, LiveSessions
    <3>3. \A q \in Requests \ {r} : pc[q] \in {"endTokens", "endCommit"} => req[q].session \in Sessions
      BY <1>t, RowTypes DEF Held
    <3> QED
      BY <2>1, <3>1, <3>2, <3>3 DEF Locking
  <2> QED
    BY <1>2, <2>2, <2>3, <2>4, <2>5, <2>6, <2>7 DEF Quiet
<1>3. ASSUME NEW r \in Requests, StartSession(r) PROVE Locking'
  <2>1. /\ UNCHANGED <<token, sessionLock, tokenLock>> /\ pc[r] = "create" /\ pc'[r] = "issue"
        /\ \A q \in Requests \ {r} : pc'[q] = pc[q] /\ req'[q] = req[q]
        /\ \A s \in Sessions : session[s].state # "absent" => session'[s] = session[s]
    BY <1>t, <1>3 DEF StartSession, Goto, TypeOK, locks
  <2>2. \A t \in Tokens : tokenLock[t] # None => session'[token[t].session] = session[token[t].session]
    BY <1>t, <2>1, RowTypes DEF TypeOK
  <2>3. \A q \in Requests : pc[q] \in {"endTokens", "endCommit"} =>
          session'[req[q].session] = session[req[q].session]
    BY <1>t, <2>1, RowTypes DEF Held
  <2> QED
    BY <2>1, <2>2, <2>3 DEF Locking
<1>4. ASSUME NEW r \in Requests, Issue(r) \/ Claim(r) PROVE Locking'
  <2>1. /\ UNCHANGED <<session, sessionLock, tokenLock, req>> /\ pc[r] \in {"issue", "claim"}
        /\ pc'[r] \in {"issued", "touch", "endSession"}
        /\ \A q \in Requests \ {r} : pc'[q] = pc[q]
    BY <1>t, <1>4 DEF Issue, Claim, Goto, TypeOK, locks, AfterReuse
  <2>2. \A t \in Tokens : token[t].state # "absent" => token'[t].session = token[t].session
    BY <1>t, <1>4 DEF Issue, Claim, TypeOK
  <2>3. \A t \in Tokens : tokenLock[t] # None => token'[t].session = token[t].session
    BY <1>t, <2>2 DEF TypeOK
  <2> QED
    BY <2>1, <2>3 DEF Locking
<1>5. ASSUME NEW r \in Requests, Abort(r) \/ EndCommit(r) \/ DeleteUser(r) PROVE Locking'
  <2>1. /\ UNCHANGED req /\ pc'[r] \in {"aborted", "done"}
        /\ \A q \in Requests \ {r} : pc'[q] = pc[q]
        /\ \A s \in Sessions : sessionLock'[s] = IF sessionLock[s] = r THEN None ELSE sessionLock[s]
        /\ \A t \in Tokens : tokenLock'[t] = IF tokenLock[t] = r THEN None ELSE tokenLock[t]
    BY <1>t, <1>5 DEF Abort, EndCommit, DeleteUser, Revoke, Release, Goto, TypeOK
  <2>2. /\ \A s \in Sessions : /\ session'[s].user = session[s].user
                               /\ session[s].state = "revoked" => session'[s].state = "revoked"
        /\ \A t \in Tokens : token'[t].session = token[t].session
    <3>1. CASE Abort(r)
      BY <3>1 DEF Abort, rows
    <3>2. CASE EndCommit(r) \/ DeleteUser(r)
      BY <1>t, <3>2, RevokedRows DEF EndCommit, DeleteUser
    <3> QED
      BY <1>5, <3>1, <3>2
  <2>3. \A q \in Requests : pc[q] \in {"endTokens", "endCommit"} => req[q].session \in Sessions
    BY <1>t, RowTypes DEF Held
  <2>4. \A t \in Tokens : tokenLock[t] # None => token[t].session \in Sessions
    BY <1>t, RowTypes DEF TypeOK
  <2> QED
    BY <2>1, <2>2, <2>3, <2>4 DEF Locking
<1> QED
  BY <1>1, <1>2, <1>3, <1>4, <1>5 DEF Next, Calm, Request, Step, Quiet, Deadlock, Cut

\* What a step of the rows and requests is for the sessions.
Passed == [Chain!Next]_(Chain!keyVars)

\* The sessions that somebody is about to get a key of change only with requests.
LEMMA OwedSame ==
  ASSUME OpenSessions' = OpenSessions,
         \A q \in Requests : /\ Minting(q)' = Minting(q)
                             /\ Minting(q) => req'[q].session = req[q].session
  PROVE  OwedSessions' = OwedSessions
  BY DEF OwedSessions

\* The rows say which sessions are open, and which tokens can be exchanged.
LEMMA ViewsSame ==
  ASSUME UNCHANGED <<deleted, session, token>>
  PROVE  /\ OpenSessions' = OpenSessions /\ EndedSessions' = EndedSessions
         /\ UsableKeys' = UsableKeys /\ PastTokens' = PastTokens
  BY DEF OpenSessions, EndedSessions, UsableKeys, PastTokens, Authorised

LEMMA QuietPasses ==
  ASSUME IInv, NEW r \in Requests, Quiet(r)
  PROVE  Passed
<1>t. TypeOK
  BY DEF IInv
<1>1. UNCHANGED <<deleted, session, token>>
  BY DEF Quiet, SignIn, Delete, Refresh, Logout, Present, ReadToken, ReadSession,
         ReadUser, Touch, EndSession, EndTokens, DeleteTokens, DeleteSessions, rows
<1>2. \A q \in Requests : Minting(q)' = Minting(q) /\ (Minting(q) => req'[q].session = req[q].session)
  <2>1. \A q \in Requests \ {r} : pc'[q] = pc[q] /\ req'[q] = req[q]
    BY <1>t DEF TypeOK, Quiet, SignIn, Delete, Refresh, Logout, Present, ReadToken, ReadSession,
         ReadUser, Touch, EndSession, EndTokens, DeleteTokens, DeleteSessions, Goto
  <2>2. CASE Touch(r)
    <3>1. pc[r] = "touch" /\ pc'[r] = "issue" /\ req' = req
      BY <1>t, <2>2 DEF Touch, Goto, TypeOK
    <3> QED
      BY <2>1, <3>1 DEF Minting
  <2>3. CASE ~Touch(r)
    <3>1. pc[r] \notin {"touch", "issue"} /\ pc'[r] \notin {"touch", "issue"}
      BY <1>t, <2>3 DEF TypeOK, Quiet, SignIn, Delete, Refresh, Logout, Present, ReadToken, ReadSession,
         ReadUser, EndSession, EndTokens, DeleteTokens, DeleteSessions, Goto, Replies, AfterReuse
    <3> QED
      BY <2>1, <3>1 DEF Minting
  <2> QED
    BY <2>2, <2>3
<1> QED
  BY <1>1, <1>2, ViewsSame, OwedSame DEF Passed, Chain!keyVars

\* A request that is cut off may have been about to get a key.
LEMMA AbortPasses ==
  ASSUME IInv, NEW r \in Requests, Abort(r)
  PROVE  Passed
<1>t. TypeOK /\ Exclusive
  BY DEF IInv
<1>1. UNCHANGED <<deleted, session, token, req>> /\ pc'[r] = "aborted"
      /\ \A q \in Requests \ {r} : pc'[q] = pc[q]
  BY <1>t DEF Abort, Goto, TypeOK, rows
<1>2. /\ OpenSessions' = OpenSessions /\ EndedSessions' = EndedSessions
      /\ UsableKeys' = UsableKeys /\ PastTokens' = PastTokens
  BY <1>1, ViewsSame
<1>3. CASE Minting(r) /\ req[r].session \in OpenSessions
  <2> DEFINE s == req[r].session
  <2>1. s \in OwedSessions /\ s \in Sessions
    BY <1>3 DEF OwedSessions, OpenSessions
  <2>2. \A q \in Requests \ {r} : Minting(q)' = Minting(q)
    BY <1>1 DEF Minting
  <2>3. ~Minting(r)'
    BY <1>1 DEF Minting
  <2>4. OwedSessions' = OwedSessions \ {s}
    BY <1>t, <1>1, <1>2, <1>3, <2>2, <2>3 DEF OwedSessions, Exclusive
  <2>5. Chain!Lose(s)
    BY <1>2, <2>1, <2>4 DEF Chain!Lose
  <2> QED
    BY <2>1, <2>5 DEF Passed, Chain!Next
<1>4. CASE ~(Minting(r) /\ req[r].session \in OpenSessions)
  <2>1. \A q \in Requests \ {r} : Minting(q)' = Minting(q)
    BY <1>1 DEF Minting
  <2>2. ~Minting(r)'
    BY <1>1 DEF Minting
  <2>3. OwedSessions' = OwedSessions
    BY <1>1, <1>2, <1>4, <2>1, <2>2 DEF OwedSessions
  <2> QED
    BY <1>2, <2>3 DEF Passed, Chain!keyVars
<1> QED
  BY <1>3, <1>4

\* A sign-in that a deletion has overtaken gets a session that is never open.
LEMMA StartPasses ==
  ASSUME IInv, NEW r \in Requests, StartSession(r)
  PROVE  Passed
<1>t. TypeOK /\ Held /\ Rows
  BY DEF IInv
<1>1. PICK s \in Sessions :
        /\ session[s].state = "absent"
        /\ session' = [session EXCEPT ![s] = [user |-> req[r].user, state |-> "live"]]
        /\ req' = [req EXCEPT ![r].session = s]
  BY DEF StartSession
<1>2. /\ UNCHANGED <<deleted, token>> /\ pc[r] = "create" /\ pc'[r] = "issue"
      /\ \A q \in Requests \ {r} : pc'[q] = pc[q] /\ req'[q] = req[q]
      /\ req'[r].session = s
      /\ session'[s].user = req[r].user /\ session'[s].state = "live"
      /\ \A x \in Sessions \ {s} : session'[x] = session[x]
  BY <1>t, <1>1 DEF StartSession, Goto, TypeOK
<1>3. \A x \in Sessions \ {s} : Authorised(x)' = Authorised(x)
  BY <1>2 DEF Authorised
<1>4. ~Authorised(s) /\ s \notin OpenSessions /\ s \notin EndedSessions
  BY <1>1 DEF Authorised, OpenSessions, EndedSessions
<1>5. \A t \in Tokens : token[t].state = "live" => token[t].session \in Sessions \ {s}
  BY <1>t, <1>1, RowTypes
<1>6. UsableKeys' = UsableKeys /\ PastTokens' = PastTokens
  BY <1>2, <1>3, <1>5 DEF UsableKeys, PastTokens
<1>7. \A q \in Requests \ {r} : Minting(q)' = Minting(q) /\ (Minting(q) => req[q].session # s)
  <2>1. \A q \in Requests : Minting(q) => session[req[q].session].state # "absent"
    BY <1>t, UserTokensAssumption, RowTypes DEF Held, Minting
  <2> QED
    BY <1>1, <1>2, <2>1 DEF Minting
<1>8. ~Minting(r) /\ Minting(r)'
  BY <1>2 DEF Minting
<1>9. CASE Authorised(s)'
  <2>1. OpenSessions' = OpenSessions \union {s} /\ EndedSessions' = EndedSessions
    BY <1>2, <1>3, <1>4, <1>9 DEF OpenSessions, EndedSessions
  <2>2. OwedSessions' = OwedSessions \union {s}
    BY <1>2, <1>7, <1>8, <2>1 DEF OwedSessions
  <2>3. Chain!Begin(s)
    BY <1>4, <1>6, <2>1, <2>2 DEF Chain!Begin
  <2> QED
    BY <2>3 DEF Passed, Chain!Next
<1>10. CASE ~Authorised(s)'
  <2>1. OpenSessions' = OpenSessions /\ EndedSessions' = EndedSessions \union {s}
    BY <1>2, <1>3, <1>4, <1>10 DEF OpenSessions, EndedSessions
  <2>2. OwedSessions' = OwedSessions /\ s \notin OwedSessions
    BY <1>2, <1>4, <1>7, <1>8, <2>1 DEF OwedSessions
  <2>3. \A k \in UsableKeys : k[1] # s
    BY <1>4 DEF UsableKeys
  <2>4. Chain!Close({s})
    BY <1>4, <1>6, <2>1, <2>2, <2>3 DEF Chain!Close
  <2> QED
    BY <2>4 DEF Passed, Chain!Next
<1> QED
  BY <1>9, <1>10

\* A token that is issued too late is no key.
LEMMA IssuePasses ==
  ASSUME IInv, NEW r \in Requests, Issue(r)
  PROVE  Passed
<1>t. TypeOK /\ Held /\ Rows /\ Exclusive
  BY DEF IInv
<1> DEFINE s == req[r].session
<1>1. PICK t \in Tokens :
        /\ token[t].state = "absent"
        /\ token' = [token EXCEPT ![t] =
             [session |-> s, state |-> "live", from |-> req[r].token, late |-> ~Authorised(s)]]
  BY DEF Issue
<1>2. /\ UNCHANGED <<deleted, session, req>> /\ pc[r] = "issue" /\ pc'[r] = "issued"
      /\ \A q \in Requests \ {r} : pc'[q] = pc[q]
      /\ s \in Sessions
  BY <1>t DEF Issue, Goto, TypeOK, Held
<1>3. /\ token'[t].session = s /\ token'[t].state = "live" /\ token'[t].late = ~Authorised(s)
      /\ \A x \in Tokens \ {t} : token'[x] = token[x]
  BY <1>t, <1>1 DEF TypeOK
<1>4. /\ \A x \in Sessions : Authorised(x)' = Authorised(x)
      /\ OpenSessions' = OpenSessions /\ EndedSessions' = EndedSessions
  BY <1>2 DEF Authorised, OpenSessions, EndedSessions
<1>5. Minting(r) /\ ~Minting(r)' /\ \A q \in Requests \ {r} : Minting(q)' = Minting(q)
  BY <1>2 DEF Minting
<1>6. \A q \in Requests \ {r} : Minting(q) => req[q].session # s
  BY <1>t, <1>5 DEF Exclusive
<1> HIDE DEF s
<1>7. CASE Authorised(s)
  <2>1. OwedSessions' = OwedSessions \ {s} /\ s \in OwedSessions
    BY <1>2, <1>4, <1>5, <1>6, <1>7 DEF OwedSessions, OpenSessions, s
  <2>2. t \notin PastTokens /\ PastTokens' = PastTokens \union {t}
    BY <1>1, <1>3, <1>7 DEF PastTokens
  <2>3. UsableKeys' = UsableKeys \union {<<s, t>>}
    BY <1>1, <1>2, <1>3, <1>4, <1>7 DEF UsableKeys
  <2>4. Chain!Hand(s, t)
    BY <1>4, <2>1, <2>2, <2>3 DEF Chain!Hand
  <2> QED
    BY <1>2, <2>4 DEF Passed, Chain!Next
<1>8. CASE ~Authorised(s)
  <2>1. OwedSessions' = OwedSessions
    BY <1>2, <1>4, <1>5, <1>6, <1>8 DEF OwedSessions, OpenSessions, s
  <2>2. PastTokens' = PastTokens
    BY <1>1, <1>3, <1>8 DEF PastTokens
  <2>3. UsableKeys' = UsableKeys
    BY <1>1, <1>2, <1>3, <1>4, <1>8 DEF UsableKeys
  <2> QED
    BY <1>4, <2>1, <2>2, <2>3 DEF Passed, Chain!keyVars
<1> QED
  BY <1>7, <1>8

\* Whoever claims the live token of an open session is owed the next one.
LEMMA ClaimPasses ==
  ASSUME IInv, NEW r \in Requests, Claim(r)
  PROVE  Passed
<1>t. TypeOK /\ Held /\ Rows /\ Exclusive
  BY DEF IInv
<1> DEFINE t == req[r].token  s == req[r].session
<1>1. /\ UNCHANGED <<deleted, session, req>> /\ pc[r] = "claim"
      /\ pc'[r] = IF Claimable(r) THEN "touch" ELSE AfterReuse
      /\ \A q \in Requests \ {r} : pc'[q] = pc[q]
      /\ t \in Tokens /\ s = token[t].session /\ s \in Sessions
  BY <1>t, UserTokensAssumption, RowTypes DEF Claim, Goto, TypeOK, Held
<1>2. /\ \A x \in Sessions : Authorised(x)' = Authorised(x)
      /\ OpenSessions' = OpenSessions /\ EndedSessions' = EndedSessions
  BY <1>1 DEF Authorised, OpenSessions, EndedSessions
<1>3. \A q \in Requests \ {r} : Minting(q)' = Minting(q)
  BY <1>1 DEF Minting
<1>4. CASE ~Claimable(r)
  <2>1. token' = token /\ ~Minting(r) /\ ~Minting(r)'
    BY <1>1, <1>4 DEF Claim, Minting, AfterReuse
  <2>2. OwedSessions' = OwedSessions
    BY <1>1, <1>2, <1>3, <2>1 DEF OwedSessions
  <2> QED
    BY <1>1, <2>1, <2>2, ViewsSame DEF Passed, Chain!keyVars
<1>5. CASE Claimable(r)
  <2>1. /\ token[t].state = "live" /\ token'[t].state = "revoked"
        /\ \A x \in Tokens : /\ token'[x].session = token[x].session /\ token'[x].late = token[x].late
                             /\ x # t => token'[x].state = token[x].state
    BY <1>t, <1>5, ClaimedRow
  <2>2. ~Minting(r) /\ Minting(r)'
    BY <1>1, <1>5 DEF Minting
  <2>3. PastTokens' = PastTokens
    BY <2>1 DEF PastTokens
  <2> HIDE DEF s, t
  <2>4. CASE Authorised(s)
    <3>1. <<s, t>> \in UsableKeys /\ UsableKeys' = UsableKeys \ {<<s, t>>}
      BY <1>1, <1>2, <2>1, <2>4 DEF UsableKeys
    <3>2. OwedSessions' = OwedSessions \union {s}
      BY <1>1, <1>2, <1>3, <2>2, <2>4 DEF OwedSessions, OpenSessions, s
    <3>3. Chain!TurnIn(s, t)
      BY <1>2, <2>3, <3>1, <3>2 DEF Chain!TurnIn
    <3> QED
      BY <1>1, <3>3 DEF Passed, Chain!Next
  <2>5. CASE ~Authorised(s)
    <3>1. UsableKeys' = UsableKeys
      BY <1>1, <1>2, <2>1, <2>5 DEF UsableKeys
    <3>2. OwedSessions' = OwedSessions
      BY <1>1, <1>2, <1>3, <2>2, <2>5 DEF OwedSessions, OpenSessions, s
    <3> QED
      BY <1>2, <2>3, <3>1, <3>2 DEF Passed, Chain!keyVars
  <2> QED
    BY <2>4, <2>5
<1> QED
  BY <1>4, <1>5

\* Tokens are revoked with their sessions: the transaction has locked the session of
\* each token it has locked, or it deletes their user.
LEMMA RevokePasses ==
  ASSUME IInv, Locking, NEW r \in Requests, EndCommit(r) \/ DeleteUser(r)
  PROVE  Passed
<1>t. TypeOK /\ Held /\ Rows
  BY DEF IInv
<1> DEFINE S == {s \in OpenSessions : ~Authorised(s)'}
<1>1. /\ UNCHANGED req /\ deleted \subseteq deleted' /\ Revoke(r)
      /\ pc[r] \in {"endCommit", "deleteUser"} /\ pc'[r] = "done"
      /\ \A q \in Requests \ {r} : pc'[q] = pc[q]
  BY <1>t DEF EndCommit, DeleteUser, Goto, TypeOK
<1>2. /\ \A s \in Sessions :
           /\ session'[s].user = session[s].user
           /\ session'[s].state = IF sessionLock[s] = r THEN "revoked" ELSE session[s].state
           /\ sessionLock[s] = r => session[s].state = "live"
      /\ \A t \in Tokens :
           /\ token'[t].session = token[t].session /\ token'[t].late = token[t].late
           /\ token'[t].state = IF tokenLock[t] = r THEN "revoked" ELSE token[t].state
           /\ tokenLock[t] = r => token[t].state = "live"
  BY <1>t, <1>1, RevokedRows
<1>3. \A s \in Sessions : Authorised(s)' => Authorised(s)
  BY <1>1, <1>2 DEF Authorised
<1>4. \A t \in Tokens, s \in Sessions : tokenLock[t] = r /\ token[t].session = s => ~Authorised(s)'
  <2> SUFFICES ASSUME NEW t \in Tokens, NEW s \in Sessions, tokenLock[t] = r, token[t].session = s
               PROVE  ~Authorised(s)'
    OBVIOUS
  <2>1. CASE EndCommit(r)
    <3>1. s = req[r].session
      BY <2>1 DEF Locking, EndCommit
    <3>2. session'[s].state = "revoked"
      BY <1>2, <2>1, <3>1 DEF Locking, EndCommit
    <3> QED
      BY <3>2 DEF Authorised
  <2>2. CASE DeleteUser(r)
    <3>1. session[s].user = req[r].user
      BY <2>2 DEF Locking, DeleteUser
    <3>2. session'[s].user \in deleted'
      BY <1>2, <2>2, <3>1 DEF DeleteUser
    <3> QED
      BY <3>2 DEF Authorised
  <2> QED
    BY <2>1, <2>2
<1>5. S \subseteq Sessions /\ S \intersect EndedSessions = {}
  BY DEF OpenSessions, EndedSessions
<1>6. OpenSessions' = OpenSessions \ S
  BY <1>3 DEF OpenSessions
<1>7. EndedSessions' = EndedSessions \union S
  BY <1>2, <1>3 DEF OpenSessions, EndedSessions, Authorised
<1>8. UsableKeys' = {k \in UsableKeys : k[1] \notin S}
  BY <1>2, <1>3, <1>4 DEF UsableKeys, OpenSessions
<1>9. PastTokens' = PastTokens
  BY <1>2 DEF PastTokens
<1>10. OwedSessions' = OwedSessions \ S
  <2>1. \A q \in Requests : Minting(q)' = Minting(q)
    BY <1>1 DEF Minting
  <2> QED
    BY <1>1, <1>6, <2>1 DEF OwedSessions
<1> HIDE DEF S
<1>11. CASE S = {}
  BY <1>6, <1>7, <1>8, <1>9, <1>10, <1>11 DEF Passed, Chain!keyVars
<1>12. CASE S # {}
  <2>1. Chain!Close(S)
    BY <1>5, <1>6, <1>7, <1>8, <1>9, <1>10, <1>12 DEF Chain!Close
  <2> QED
    BY <1>5, <2>1 DEF Passed, Chain!Next
<1> QED
  BY <1>11, <1>12

\* Sign-ins, refreshes, logouts and deletions of any users, sessions and requests
\* look like sessions whose one key is passed on, and which close with it for good.
THEOREM ImplementsKeys == Spec => KeysSpec
<1>1. Init => Chain!Init
  BY UserTokensAssumption
     DEF Init, Chain!Init, OpenSessions, EndedSessions, UsableKeys, OwedSessions, PastTokens, Authorised, Minting
<1>2. IInv /\ Locking /\ [Next]_vars => Passed
  <2> SUFFICES ASSUME IInv, Locking, [Next]_vars PROVE Passed
    OBVIOUS
  <2>1. CASE UNCHANGED vars
    <3>1. \A q \in Requests : Minting(q)' = Minting(q) /\ req'[q] = req[q]
      BY <2>1 DEF vars, Minting
    <3> QED
      BY <2>1, <3>1, ViewsSame, OwedSame DEF vars, Passed, Chain!keyVars
  <2> QED
    BY <2>1, QuietPasses, AbortPasses, StartPasses, IssuePasses, ClaimPasses, RevokePasses
       DEF Next, Calm, Request, Step, Quiet, Deadlock, Cut
<1>3. IInv /\ Locking /\ [Next]_vars => Locking'
  BY LockingKeeps
<1>4. Spec => []Locking
  BY <1>3, LockingInit, InvariantHolds, PTL DEF Spec
<1>5. Spec => Chain!Init /\ [][Passed]_(Chain!keyVars)
  BY <1>1, <1>2, <1>4, InvariantHolds, PTL DEF Spec
<1> QED
  BY <1>5, PTL DEF KeysSpec, Chain!Spec, Passed
=============================================================================
