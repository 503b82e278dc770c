------------------------------- MODULE Ledger -------------------------------
(***************************************************************************)
(* LedgerService.post (src/src/modules/credits/ledger.service.ts) as the   *)
(* statements it sends to Postgres, run by several requests at once.       *)
(*                                                                         *)
(* A transaction runs at READ COMMITTED: a statement sees committed rows   *)
(* and the transaction's own writes, an UPDATE waits for the row lock of a *)
(* transaction that changed the row and then re-checks its WHERE clause,   *)
(* and an INSERT waits for an uncommitted row with the same unique key and *)
(* fails if that row commits.  `account' and `ledger' hold committed rows; *)
(* `draft' is the balance an open transaction has written; `rowOwner' and  *)
(* `keyOwner' are the row lock and the uncommitted unique-index entry.     *)
(***************************************************************************)
EXTENDS Integers, Sequences

CONSTANTS Users, Keys, Amounts,
          Requests,   \* concurrent callers of post()
          Inputs,     \* the LedgerEntryInput values they may call it with
          Nobody      \* no request holds the lock

Input == [user : Users, key : Keys, amount : Amounts,
          requireActive : BOOLEAN,
          inTx : BOOLEAN]   \* called inside the caller's own transaction

ASSUME LedgerAssumption ==
  /\ Amounts \subseteq Int \ {0}
  /\ Inputs \subseteq Input /\ Inputs # {}
  /\ Nobody \notin Requests

VARIABLES account,    \* User rows: accountStatus and creditBalance
          ledger,     \* CreditTransaction rows of each user, in commit order
          rowOwner, keyOwner,
          pc, input, draft, answer

vars == <<account, ledger, rowOwner, keyOwner, pc, input, draft, answer>>

Statuses == {"active", "suspended", "deleted"}

Entry == [key : Keys, amount : Amounts, balanceAfter : Nat]

Refusals == {"NOT_FOUND", "ACCOUNT_SUSPENDED", "INSUFFICIENT_CREDITS"}

Answers == {"none", "applied", "replayed", "failed"} \union Refusals

Steps == {"idle", "lookup", "update", "refuse", "insert", "commit",
          "conflict", "answered"}

\* Mutant: sees rows of transactions that may still roll back.
WrittenOrPending(k) ==
  \/ keyOwner[k] # Nobody
  \/ \E u \in Users : \E i \in DOMAIN ledger[u] : ledger[u][i].key = k

Written(k) ==
  \E u \in Users : \E i \in DOMAIN ledger[u] : ledger[u][i].key = k

\* What an idle request holds: nothing that matters.
NoInput == CHOOSE in \in Inputs : TRUE

Init ==
  /\ account = [u \in Users |-> [status |-> "active", balance |-> 0]]
  /\ ledger = [u \in Users |-> <<>>]
  /\ rowOwner = [u \in Users |-> Nobody]
  /\ keyOwner = [k \in Keys |-> Nobody]
  /\ pc = [r \in Requests |-> "idle"]
  /\ input = [r \in Requests |-> NoInput]
  /\ draft = [r \in Requests |-> 0]
  /\ answer = [r \in Requests |-> "none"]

-----------------------------------------------------------------------------

Goto(r, step) == pc' = [pc EXCEPT ![r] = step]

Reply(r, a) == Goto(r, "answered") /\ answer' = [answer EXCEPT ![r] = a]

\* Mutant: an error path that leaves the transaction open.
KeepLocks(r) == UNCHANGED <<rowOwner, keyOwner>>

Unlock(r) ==
  /\ rowOwner' = [u \in Users |-> IF rowOwner[u] = r THEN Nobody ELSE rowOwner[u]]
  /\ keyOwner' = [k \in Keys |-> IF keyOwner[k] = r THEN Nobody ELSE keyOwner[k]]

Call(r, in) ==
  /\ pc[r] = "idle"
  /\ input' = [input EXCEPT ![r] = in]
  /\ Goto(r, "lookup")
  /\ UNCHANGED <<account, ledger, rowOwner, keyOwner, draft, answer>>

\* Already applied: answer with that entry, whatever the balance is now.
Lookup(r) ==
  /\ pc[r] = "lookup"
  /\ IF Written(input[r].key) THEN Reply(r, "replayed")
                              ELSE Goto(r, "update") /\ UNCHANGED answer
  /\ UNCHANGED <<account, ledger, rowOwner, keyOwner, input, draft>>

\* Mutants: the WHERE clause without the balance, and without the status.
MatchesUncovered(r) ==
  LET row == account[input[r].user] IN
  IF input[r].requireActive THEN row.status = "active" ELSE row.status # "deleted"

MatchesAnyStatus(r) ==
  input[r].amount < 0 => account[input[r].user].balance >= -input[r].amount

\* The WHERE clause of the guarded UPDATE, on the committed row.
Matches(r) ==
  LET row == account[input[r].user] IN
  /\ IF input[r].requireActive THEN row.status = "active" ELSE row.status # "deleted"
  /\ input[r].amount < 0 => row.balance >= -input[r].amount

\* Mutant: a balance read and written back without the row lock.
RowRead(r) == TRUE

\* No open transaction has changed the row.
RowFree(r) == rowOwner[input[r].user] = Nobody

\* An UPDATE waits only for a row that matches; one whose committed version
\* does not match (any more) is skipped at once, locked or not.
GuardedUpdate(r) ==
  /\ pc[r] = "update"
  /\ Matches(r) => RowFree(r)
  /\ IF Matches(r)
       THEN /\ rowOwner' = [rowOwner EXCEPT ![input[r].user] = r]
            /\ draft' = [draft EXCEPT ![r] = account[input[r].user].balance + input[r].amount]
            /\ Goto(r, "insert")
       ELSE /\ Goto(r, "refuse")
            /\ UNCHANGED <<rowOwner, draft>>
  /\ UNCHANGED <<account, ledger, keyOwner, input, answer>>

\* A second read, so the row may have changed since the UPDATE matched nothing.
RefusalOf(r) ==
  LET row == account[input[r].user] IN
  CASE row.status = "deleted" -> "NOT_FOUND"
    [] row.status = "suspended" /\ input[r].requireActive -> "ACCOUNT_SUSPENDED"
    [] OTHER -> "INSUFFICIENT_CREDITS"

Refuse(r) ==
  /\ pc[r] = "refuse"
  /\ Reply(r, RefusalOf(r))
  /\ UNCHANGED <<account, ledger, rowOwner, keyOwner, input, draft>>

\* Mutant: no unique index, so the INSERT does not wait for a pending row.
KeyIgnored(r) == TRUE

\* The INSERT waits for a pending row with the same idempotency key.
KeyFree(r) == keyOwner[input[r].key] = Nobody

\* A unique violation rolls the transaction back.  Only a post that owns its
\* transaction looks for the winner; inside a caller's transaction it throws.
InsertEntry(r) ==
  /\ pc[r] = "insert"
  /\ KeyFree(r)
  /\ IF Written(input[r].key)
       THEN /\ Unlock(r)
            /\ IF input[r].inTx THEN Reply(r, "failed")
                                ELSE Goto(r, "conflict") /\ UNCHANGED answer
       ELSE /\ keyOwner' = [keyOwner EXCEPT ![input[r].key] = r]
            /\ Goto(r, "commit")
            /\ UNCHANGED <<rowOwner, answer>>
  /\ UNCHANGED <<account, ledger, input, draft>>

NewEntry(r) ==
  [key |-> input[r].key, amount |-> input[r].amount, balanceAfter |-> draft[r]]

RowsAfter(r) == Append(ledger[input[r].user], NewEntry(r))

Commit(r) ==
  /\ pc[r] = "commit"
  /\ account' = [account EXCEPT ![input[r].user].balance = draft[r]]
  /\ ledger' = [ledger EXCEPT ![input[r].user] = RowsAfter(r)]
  /\ Unlock(r)
  /\ Reply(r, "applied")
  /\ UNCHANGED <<input, draft>>

FindWinner(r) ==
  /\ pc[r] = "conflict"
  /\ Reply(r, IF Written(input[r].key) THEN "replayed" ELSE "failed")
  /\ UNCHANGED <<account, ledger, rowOwner, keyOwner, input, draft>>

\* The request ends, or its server or connection dies: an open transaction is
\* rolled back, and the answer of a committed one may be lost with it.
End(r) ==
  /\ pc[r] # "idle"
  /\ Unlock(r)
  /\ Goto(r, "idle")
  /\ answer' = [answer EXCEPT ![r] = "none"]
  /\ draft' = [draft EXCEPT ![r] = 0]
  /\ input' = [input EXCEPT ![r] = NoInput]
  /\ UNCHANGED <<account, ledger>>

\* AdminUsersService.moveStatus, and the last statement of deleteAccount:
\* each an UPDATE of the User row, so it waits for the row lock.
MoveStatus(u, from, to) ==
  /\ rowOwner[u] = Nobody
  /\ account[u].status \in from
  /\ account' = [account EXCEPT ![u].status = to]
  /\ UNCHANGED <<ledger, rowOwner, keyOwner, pc, input, draft, answer>>

Suspend(u) == MoveStatus(u, {"active"}, "suspended")

Unsuspend(u) == MoveStatus(u, {"suspended"}, "active")

Close(u) == MoveStatus(u, {"active", "suspended"}, "deleted")

-----------------------------------------------------------------------------

Proceed(r) == \/ Lookup(r) \/ GuardedUpdate(r) \/ Refuse(r)
              \/ InsertEntry(r) \/ Commit(r) \/ FindWinner(r)

Next ==
  \/ \E r \in Requests : \/ \E in \in Inputs : Call(r, in)
                         \/ Lookup(r)
                         \/ GuardedUpdate(r)
                         \/ Refuse(r)
                         \/ InsertEntry(r)
                         \/ Commit(r)
                         \/ FindWinner(r)
                         \/ End(r)
  \/ \E u \in Users : Suspend(u) \/ Unsuspend(u) \/ Close(u)

Spec == Init /\ [][Next]_vars

\* Node runs every started request on; Postgres queues those that wait for a
\* lock and serves the queue in order, hence strong fairness: a step is disabled
\* only while it waits.
FairSpec == Spec /\ \A r \in Requests : SF_vars(Proceed(r))
-----------------------------------------------------------------------------
\* Every variable holds a value the code can store.
TypeOK ==
  /\ account \in [Users -> [status : Statuses, balance : Int]]
  /\ ledger \in [Users -> Seq(Entry)]
  /\ rowOwner \in [Users -> Requests \union {Nobody}]
  /\ keyOwner \in [Keys -> Requests \union {Nobody}]
  /\ pc \in [Requests -> Steps]
  /\ input \in [Requests -> Inputs]
  /\ draft \in [Requests -> Int]
  /\ answer \in [Requests -> Answers]

\* No interleaving of charges overdraws an account: the guard and the new
\* balance come from the same locked row.
Solvent == \A u \in Users : account[u].balance >= 0

BalanceBefore(u, i) == IF i = 1 THEN 0 ELSE ledger[u][i - 1].balanceAfter

Latest(u) == BalanceBefore(u, Len(ledger[u]) + 1)

\* Each row's balanceAfter is the previous row's plus its own amount, and the
\* cached balance is the last row's: "the cached balance always equals the
\* ledger sum", in the order the rows were committed, with no sum needed.
RunningBalance ==
  \A u \in Users :
    /\ \A i \in DOMAIN ledger[u] :
         ledger[u][i].balanceAfter = BalanceBefore(u, i) + ledger[u][i].amount
    /\ account[u].balance = Latest(u)

\* A grant or charge is written at most once, whichever requests race for its
\* key and whichever users they name.
OneEntryPerKey ==
  \A u, v \in Users : \A i \in DOMAIN ledger[u], j \in DOMAIN ledger[v] :
    ledger[u][i].key = ledger[v][j].key => u = v /\ i = j

\* A caller told "applied" or "replayed" has its entry in the ledger, and a
\* unique violation outside a caller's transaction always finds the winner.
AnswersAreTrue ==
  \A r \in Requests :
    /\ answer[r] \in {"applied", "replayed"} => Written(input[r].key)
    /\ answer[r] = "failed" => input[r].inTx

\* Rows are only appended, one at a time: no step rewrites or drops history.
AppendOnly ==
  [][\A u \in Users :
       /\ Len(ledger'[u]) \in {Len(ledger[u]), Len(ledger[u]) + 1}
       /\ SubSeq(ledger'[u], 1, Len(ledger[u])) = ledger[u]]_vars

\* A post that asks for an active account takes effect only while the account
\* is active, even if it was suspended between the check and the commit.
ClosedAccountsDoNotMove ==
  [][\A r \in Requests :
       answer'[r] = "applied" /\ answer[r] # "applied" =>
         LET s == account[input[r].user].status IN
         /\ s # "deleted"
         /\ input[r].requireActive => s = "active"]_vars

\* Whom r's next statement waits for: who has changed the row its UPDATE matches,
\* or who has inserted its key and not committed.
Blocker(r) ==
  IF pc[r] = "update" /\ Matches(r) THEN rowOwner[input[r].user]
  ELSE IF pc[r] = "insert" THEN keyOwner[input[r].key]
  ELSE Nobody

\* Posts never wait for one another in a ring, however many run at once: whoever
\* is waited for waits, if at all, for a post that waits for nobody, because every
\* post locks its row before it inserts its key.  (The other statements of a caller's
\* transaction may close a ring: Accounts has those.)
NoRing ==
  \A r \in Requests :
    LET q == Blocker(r) IN
    q # Nobody => Blocker(q) = Nobody \/ Blocker(Blocker(q)) = Nobody

\* Every call is answered (or cut off): no request waits for a lock for ever,
\* because every way out of a transaction releases what it holds.
EveryCallEnds == \A r \in Requests : pc[r] = "lookup" ~> pc[r] \in {"answered", "idle"}

-----------------------------------------------------------------------------
\* A row lock is held exactly by the transaction between its UPDATE and its
\* commit, a pending key exactly between INSERT and commit.
Locks ==
  \A r \in Requests :
    /\ \A u \in Users : rowOwner[u] = r <=> pc[r] \in {"insert", "commit"} /\ input[r].user = u
    /\ \A k \in Keys : keyOwner[k] = r <=> pc[r] = "commit" /\ input[r].key = k

\* The row an open transaction has changed still satisfies its WHERE clause, and
\* the balance it has written is still the committed one plus its amount,
\* because nobody else can change a locked row.
Drafts ==
  \A r \in Requests : pc[r] \in {"insert", "commit"} =>
    /\ Matches(r)
    /\ draft[r] = account[input[r].user].balance + input[r].amount
    /\ draft[r] >= 0

\* A pending key has no committed row.
Pending == \A r \in Requests : pc[r] = "commit" => ~Written(input[r].key)

\* Only an answered request has an answer, and a unique violation is seen only
\* once the winner has committed.
Replies ==
  \A r \in Requests :
    /\ answer[r] # "none" => pc[r] = "answered"
    /\ pc[r] = "conflict" => Written(input[r].key) /\ ~input[r].inTx

IInv == /\ TypeOK /\ Solvent /\ RunningBalance /\ OneEntryPerKey /\ AnswersAreTrue
        /\ Locks /\ Drafts /\ Pending /\ Replies

\* The transactional ledger implements the atomic credit book.
BookEntries ==
  UNION { { [user |-> u, key |-> ledger[u][i].key, amount |-> ledger[u][i].amount] :
              i \in DOMAIN ledger[u] } : u \in Users }

Book == INSTANCE CreditBook WITH
  status <- [u \in Users |-> account[u].status],
  balance <- [u \in Users |-> account[u].balance],
  entries <- BookEntries

BookSpec == Book!Spec
=============================================================================
