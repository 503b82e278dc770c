---------------------------- MODULE LedgerProofs ----------------------------
(***************************************************************************)
(* Proofs about Ledger for any users, keys, amounts, requests and inputs.  *)
(* The invariant that carries them is IInv: who holds a lock (Locks), what *)
(* an open transaction has written (Drafts, Pending) and what a request    *)
(* that has been answered knows (Replies), beside the properties proper.   *)
(***************************************************************************)
EXTENDS Ledger, TLAPS

\* An idle request holds one of the inputs.
LEMMA NoInputTyped == NoInput \in Inputs
  BY LedgerAssumption DEF NoInput

\* The initial states are well typed.
LEMMA InitTyped == Init => TypeOK
  BY NoInputTyped DEF Init, TypeOK, Statuses, Steps, Answers

\* A call's fields have the types of LedgerEntryInput.
LEMMA InputTyped ==
  ASSUME TypeOK, NEW r \in Requests
  PROVE  /\ input[r].user \in Users /\ input[r].key \in Keys
         /\ input[r].amount \in Amounts /\ input[r].amount \in Int
         /\ input[r].requireActive \in BOOLEAN /\ input[r].inTx \in BOOLEAN
<1>1. input[r] \in Input
  BY LedgerAssumption DEF TypeOK
<1>2. Amounts \subseteq Int
  BY LedgerAssumption
<1> HIDE DEF TypeOK
<1> QED
  BY <1>1, <1>2 DEF Input

\* Every step of the ledger keeps the variables well typed, given that an open
\* transaction's balance is not negative.
LEMMA StepTyped ==
  ASSUME TypeOK, Drafts, [Next]_vars
  PROVE  TypeOK'
<1> USE DEF TypeOK, Statuses, Steps, Answers, Refusals
<1>1. ASSUME NEW r \in Requests, NEW in \in Inputs, Call(r, in) PROVE TypeOK'
  BY <1>1 DEF Call, Goto
<1>2. ASSUME NEW r \in Requests, Lookup(r) PROVE TypeOK'
  BY <1>2 DEF Lookup, Goto, Reply
<1>3. ASSUME NEW r \in Requests, GuardedUpdate(r) PROVE TypeOK'
  <2>1. input[r].user \in Users /\ account[input[r].user].balance + input[r].amount \in Int
    BY InputTyped
  <2> QED
    BY ZenonT(40), <1>3, <2>1 DEF GuardedUpdate, Goto
<1>4. ASSUME NEW r \in Requests, Refuse(r) PROVE TypeOK'
  BY <1>4 DEF Refuse, Goto, Reply, RefusalOf
<1>5. ASSUME NEW r \in Requests, InsertEntry(r) PROVE TypeOK'
  BY <1>5, InputTyped DEF InsertEntry, Goto, Reply, Unlock
<1>6. ASSUME NEW r \in Requests, Commit(r) PROVE TypeOK'
  <2>1. NewEntry(r) \in Entry
    <3>1. draft[r] \in Nat
      BY <1>6 DEF Commit, Drafts
    <3> QED
      BY <3>1, InputTyped DEF NewEntry, Entry
  <2>2. ledger' \in [Users -> Seq(Entry)]
    BY <1>6, <2>1, InputTyped DEF Commit, RowsAfter
  <2>3. account' \in [Users -> [status : Statuses, balance : Int]]
    BY <1>6, InputTyped DEF Commit
  <2> QED
    BY <1>6, <2>2, <2>3 DEF Commit, Goto, Reply, Unlock
<1>7. ASSUME NEW r \in Requests, FindWinner(r) PROVE TypeOK'
  BY <1>7 DEF FindWinner, Goto, Reply
<1>8. ASSUME NEW r \in Requests, End(r) PROVE TypeOK'
  BY <1>8, NoInputTyped DEF End, Goto, Unlock
<1>9. ASSUME NEW u \in Users, Suspend(u) \/ Unsuspend(u) \/ Close(u) PROVE TypeOK'
  BY ZenonT(40), <1>9 DEF Suspend, Unsuspend, Close, MoveStatus
<1>10. CASE UNCHANGED vars
  BY <1>10 DEF vars
<1> QED
  BY <1>1, <1>2, <1>3, <1>4, <1>5, <1>6, <1>7, <1>8, <1>9, <1>10 DEF Next

-----------------------------------------------------------------------------
\* A step that leaves the committed rows alone keeps what is said of them.
LEMMA SameRows ==
  ASSUME Solvent, RunningBalance, OneEntryPerKey, UNCHANGED <<account, ledger>>
  PROVE  /\ Solvent' /\ RunningBalance' /\ OneEntryPerKey'
         /\ \A k \in Keys : Written(k)' <=> Written(k)
  BY DEF Solvent, RunningBalance, OneEntryPerKey, BalanceBefore, Latest, Written

\* What a commit does to the rows: the user's rows grow by the new entry, and
\* its key is the only one that becomes written.
LEMMA CommittedRows ==
  ASSUME TypeOK, NEW r \in Requests, Commit(r), NEW u \in Users, u = input[r].user
  PROVE  /\ Len(ledger'[u]) = Len(ledger[u]) + 1
         /\ \A i \in 1..Len(ledger[u]) : ledger'[u][i] = ledger[u][i]
         /\ ledger'[u][Len(ledger[u]) + 1] = NewEntry(r)
         /\ \A v \in Users \ {u} : ledger'[v] = ledger[v] /\ account'[v] = account[v]
         /\ account'[u].balance = draft[r]
         /\ account'[u].status = account[u].status
         /\ \A k \in Keys : Written(k)' <=> Written(k) \/ k = input[r].key
<1>1. ledger[u] \in Seq(Entry) /\ Len(ledger[u]) \in Nat
  BY DEF TypeOK
<1>2. ledger'[u] = Append(ledger[u], NewEntry(r)) /\ \A v \in Users \ {u} : ledger'[v] = ledger[v]
  BY DEF Commit, TypeOK, RowsAfter
<1>3. /\ Len(ledger'[u]) = Len(ledger[u]) + 1
      /\ \A i \in 1..Len(ledger[u]) : ledger'[u][i] = ledger[u][i]
      /\ ledger'[u][Len(ledger[u]) + 1] = NewEntry(r)
      /\ DOMAIN ledger'[u] = 1..(Len(ledger[u]) + 1)
      /\ DOMAIN ledger[u] = 1..Len(ledger[u])
  BY <1>1, <1>2
<1>4. /\ \A v \in Users \ {u} : account'[v] = account[v]
      /\ account'[u].balance = draft[r]
      /\ account'[u].status = account[u].status
  BY DEF Commit, TypeOK
<1>5. ASSUME NEW k \in Keys, Written(k) PROVE Written(k)'
  <2>1. PICK v \in Users : \E i \in DOMAIN ledger[v] : ledger[v][i].key = k
    BY <1>5 DEF Written
  <2>2. CASE v = u
    BY <2>1, <2>2, <1>3, <1>1 DEF Written
  <2>3. CASE v # u
    BY <2>1, <2>3, <1>2 DEF Written
  <2> QED
    BY <2>2, <2>3
<1>6. ASSUME NEW k \in Keys, k = input[r].key PROVE Written(k)'
  <2>1. NewEntry(r).key = k /\ Len(ledger[u]) + 1 \in DOMAIN ledger'[u]
    BY <1>1, <1>3, <1>6 DEF NewEntry
  <2> QED
    BY <2>1, <1>3 DEF Written
<1>7. ASSUME NEW k \in Keys, Written(k)' PROVE Written(k) \/ k = input[r].key
  <2>1. PICK v \in Users : \E i \in DOMAIN ledger'[v] : ledger'[v][i].key = k
    BY <1>7 DEF Written
  <2>2. PICK i \in DOMAIN ledger'[v] : ledger'[v][i].key = k
    BY <2>1
  <2>3. CASE v = u /\ i \in 1..Len(ledger[u])
    BY <2>2, <2>3, <1>3 DEF Written
  <2>4. CASE v = u /\ i = Len(ledger[u]) + 1
    BY <2>2, <2>4, <1>3 DEF NewEntry
  <2>5. CASE v # u
    BY <2>2, <2>5, <1>2 DEF Written
  <2> QED
    BY <2>2, <2>3, <2>4, <2>5, <1>1, <1>3
<1> QED
  BY <1>2, <1>3, <1>4, <1>5, <1>6, <1>7

\* A commit keeps the running balance and the uniqueness of keys, because the
\* transaction's draft is the locked balance plus its amount and its key is not
\* yet in the ledger.
LEMMA CommitKeepsRows ==
  ASSUME TypeOK, Solvent, RunningBalance, OneEntryPerKey, Drafts, Pending,
         NEW r \in Requests, Commit(r),
         NEW u \in Users, u = input[r].user, NEW n \in Nat, n = Len(ledger[u])
  PROVE  Solvent' /\ RunningBalance' /\ OneEntryPerKey'
<1>1. input[r].amount \in Int /\ input[r].key \in Keys
  BY InputTyped
<1>2. DOMAIN ledger[u] = 1..n
  BY DEF TypeOK
<1>3. /\ Len(ledger'[u]) = n + 1
      /\ \A i \in 1..n : ledger'[u][i] = ledger[u][i]
      /\ ledger'[u][n + 1] = NewEntry(r)
      /\ \A v \in Users \ {u} : ledger'[v] = ledger[v] /\ account'[v] = account[v]
      /\ account'[u].balance = draft[r]
  BY CommittedRows
<1>4. DOMAIN ledger'[u] = 1..(n + 1)
  <2>1. ledger'[u] = Append(ledger[u], NewEntry(r)) /\ ledger[u] \in Seq(Entry)
    BY DEF Commit, TypeOK, RowsAfter
  <2> QED
    BY <2>1
<1>5. draft[r] = account[u].balance + input[r].amount /\ draft[r] >= 0
  BY DEF Drafts, Commit
<1>6. ~Written(input[r].key)
  BY DEF Pending, Commit
<1>7. Solvent'
  BY <1>3, <1>5 DEF Solvent
<1>8. RunningBalance'
  <2>1. ASSUME NEW v \in Users \ {u}
        PROVE  /\ \A i \in DOMAIN ledger'[v] :
                    ledger'[v][i].balanceAfter = BalanceBefore(v, i)' + ledger'[v][i].amount
               /\ account'[v].balance = Latest(v)'
    BY <2>1, <1>3 DEF RunningBalance, BalanceBefore, Latest
  <2>2. \A i \in 1..(n + 1) : BalanceBefore(u, i)' = BalanceBefore(u, i)
    <3>1. \A i \in 1..(n + 1) : i = 1 \/ i - 1 \in 1..n
      OBVIOUS
    <3> QED
      BY <3>1, <1>3 DEF BalanceBefore
  <2>3. Latest(u)' = draft[r]
    <3>1. n + 2 # 1 /\ (n + 2) - 1 = n + 1 /\ (n + 1) + 1 = n + 2
      OBVIOUS
    <3>2. Latest(u)' = ledger'[u][n + 1].balanceAfter
      BY <3>1, <1>3 DEF Latest, BalanceBefore
    <3> QED
      BY <3>2, <1>3 DEF NewEntry
  <2>4. BalanceBefore(u, n + 1) = account[u].balance
    BY DEF RunningBalance, Latest
  <2>5. ASSUME NEW i \in 1..(n + 1)
        PROVE  ledger'[u][i].balanceAfter = BalanceBefore(u, i)' + ledger'[u][i].amount
    <3>1. CASE i \in 1..n
      BY SMTT(40), <3>1, <1>2, <1>3, <2>2 DEF RunningBalance
    <3>2. CASE i = n + 1
      BY <3>2, <1>3, <1>5, <2>2, <2>4 DEF NewEntry
    <3> QED
      BY <3>1, <3>2
  <2>6. /\ \A i \in DOMAIN ledger'[u] :
             ledger'[u][i].balanceAfter = BalanceBefore(u, i)' + ledger'[u][i].amount
        /\ account'[u].balance = Latest(u)'
    BY <2>3, <2>5, <1>3, <1>4
  <2> QED
    BY <2>1, <2>6 DEF RunningBalance
<1>9. OneEntryPerKey'
  <2> SUFFICES ASSUME NEW v \in Users, NEW w \in Users,
                      NEW i \in DOMAIN ledger'[v], NEW j \in DOMAIN ledger'[w],
                      ledger'[v][i].key = ledger'[w][j].key
               PROVE  v = w /\ i = j
    BY DEF OneEntryPerKey
  <2> DEFINE New(x, k) == x = u /\ k = n + 1
  <2>1. ASSUME NEW x \in Users, NEW k \in DOMAIN ledger'[x], ~New(x, k)
        PROVE  k \in DOMAIN ledger[x] /\ ledger'[x][k] = ledger[x][k] /\ ledger'[x][k].key # input[r].key
    <3>1. k \in DOMAIN ledger[x] /\ ledger'[x][k] = ledger[x][k]
      <4>1. CASE x = u
        BY <2>1, <4>1, <1>2, <1>3, <1>4
      <4>2. CASE x # u
        BY <2>1, <4>2, <1>3
      <4> QED
        BY <4>1, <4>2
    <3> QED
      BY <3>1, <1>6 DEF Written
  <2>2. ledger'[u][n + 1].key = input[r].key
    BY <1>3 DEF NewEntry
  <2>3. CASE New(v, i) /\ New(w, j)
    BY <2>3
  <2>4. CASE New(v, i) /\ ~New(w, j)
    BY <2>4, <2>1, <2>2
  <2>5. CASE ~New(v, i) /\ New(w, j)
    BY <2>5, <2>1, <2>2
  <2>6. CASE ~New(v, i) /\ ~New(w, j)
    BY <2>6, <2>1 DEF OneEntryPerKey
  <2> QED
    BY <2>3, <2>4, <2>5, <2>6
<1> QED
  BY <1>7, <1>8, <1>9

-----------------------------------------------------------------------------
\* The lock table, the open transactions and the answers, action by action.
Protocol == Locks /\ Drafts /\ Pending /\ Replies /\ AnswersAreTrue

\* A step that leaves the committed rows and the locks alone, and moves only
\* one request, from outside a transaction to outside a transaction.
LEMMA MoveOutsideTx ==
  ASSUME IInv, TypeOK', NEW r \in Requests,
         UNCHANGED <<account, ledger, rowOwner, keyOwner, draft>>,
         \A q \in Requests \ {r} : /\ pc'[q] = pc[q] /\ input'[q] = input[q]
                                   /\ answer'[q] = answer[q],
         pc[r] \notin {"insert", "commit"}, pc'[r] \notin {"insert", "commit", "conflict"},
         answer'[r] # "none" => pc'[r] = "answered",
         answer'[r] \in {"applied", "replayed"} => Written(input'[r].key),
         answer'[r] = "failed" => input'[r].inTx
  PROVE  Protocol'
<1>1. \A k : Written(k)' <=> Written(k)
  BY DEF Written
<1>2. Locks'
  BY DEF IInv, Locks
<1>3. Drafts'
  BY DEF IInv, Drafts, Matches
<1>4. Pending'
  BY <1>1 DEF IInv, Pending
<1>5. Replies'
  BY <1>1 DEF IInv, Replies
<1>6. AnswersAreTrue'
  BY <1>1 DEF IInv, AnswersAreTrue
<1> QED
  BY <1>2, <1>3, <1>4, <1>5, <1>6 DEF Protocol

\* The row lock is taken with the balance the transaction will commit.
LEMMA GuardedUpdateKeepsProtocol ==
  ASSUME IInv, TypeOK', NEW r \in Requests, GuardedUpdate(r)
  PROVE  Protocol'
<1>1. /\ input[r].user \in Users /\ input[r].amount \in Int
      /\ input[r].requireActive \in BOOLEAN /\ account[input[r].user].balance \in Int
  BY InputTyped DEF IInv, TypeOK
<1>2. CASE ~Matches(r)
  BY <1>2, MoveOutsideTx DEF GuardedUpdate, Goto, IInv, TypeOK, Replies, AnswersAreTrue
<1>3. CASE Matches(r)
  <2>1. /\ pc' = [pc EXCEPT ![r] = "insert"] /\ pc[r] = "update"
        /\ rowOwner' = [rowOwner EXCEPT ![input[r].user] = r]
        /\ draft' = [draft EXCEPT ![r] = account[input[r].user].balance + input[r].amount]
        /\ rowOwner[input[r].user] = Nobody
        /\ UNCHANGED <<account, ledger, keyOwner, input, answer>>
    BY <1>3 DEF GuardedUpdate, Goto, RowFree
  <2>2. \A k : Written(k)' <=> Written(k)
    BY <2>1 DEF Written
  <2>3. Locks'
    BY <2>1, <1>1, LedgerAssumption DEF IInv, Locks, TypeOK
  <2>4. account[input[r].user].balance + input[r].amount >= 0
    <3>1. CASE input[r].amount < 0
      BY <3>1, <1>1, <1>3 DEF Matches
    <3>2. CASE ~(input[r].amount < 0)
      BY <3>2, <1>1 DEF IInv, Solvent
    <3> QED
      BY <3>1, <3>2
  <2>5. Drafts'
    BY <2>1, <2>4, <1>3 DEF IInv, Drafts, Matches, TypeOK
  <2>6. Pending'
    BY <2>1, <2>2 DEF IInv, Pending, TypeOK
  <2>7. Replies'
    BY <2>1, <2>2 DEF IInv, Replies, TypeOK
  <2>8. AnswersAreTrue'
    BY <2>1, <2>2 DEF IInv, AnswersAreTrue
  <2> QED
    BY <2>3, <2>5, <2>6, <2>7, <2>8 DEF Protocol
<1> QED
  BY <1>2, <1>3

\* The key is taken once no committed row has it; a duplicate rolls back.
LEMMA InsertEntryKeepsProtocol ==
  ASSUME IInv, TypeOK', NEW r \in Requests, InsertEntry(r)
  PROVE  Protocol'
<1>1. input[r].user \in Users /\ input[r].key \in Keys /\ input[r].inTx \in BOOLEAN
  BY InputTyped DEF IInv
<1>2. \A k : Written(k)' <=> Written(k)
  BY DEF Written, InsertEntry
<1>3. CASE ~Written(input[r].key)
  <2>1. /\ pc' = [pc EXCEPT ![r] = "commit"] /\ pc[r] = "insert"
        /\ keyOwner' = [keyOwner EXCEPT ![input[r].key] = r]
        /\ keyOwner[input[r].key] = Nobody
        /\ UNCHANGED <<account, ledger, rowOwner, input, draft, answer>>
    BY <1>3 DEF InsertEntry, Goto, KeyFree
  <2>2. Locks'
    BY <2>1, <1>1, LedgerAssumption DEF IInv, Locks, TypeOK
  <2>3. Drafts'
    BY <2>1 DEF IInv, Drafts, Matches, TypeOK
  <2>4. Pending'
    BY <2>1, <1>2, <1>3 DEF IInv, Pending, TypeOK
  <2>5. Replies'
    BY <2>1, <1>2 DEF IInv, Replies, TypeOK
  <2>6. AnswersAreTrue'
    BY <2>1, <1>2 DEF IInv, AnswersAreTrue
  <2> QED
    BY <2>2, <2>3, <2>4, <2>5, <2>6 DEF Protocol
<1>4. CASE Written(input[r].key)
  <2>1. /\ pc[r] = "insert" /\ pc'[r] \in {"answered", "conflict"}
        /\ \A q \in Requests \ {r} : pc'[q] = pc[q] /\ answer'[q] = answer[q]
        /\ Unlock(r)
        /\ UNCHANGED <<account, ledger, input, draft>>
    BY <1>4 DEF InsertEntry, Goto, Reply, IInv, TypeOK
  <2>2. /\ pc'[r] = "answered" => answer'[r] = "failed" /\ input[r].inTx
        /\ pc'[r] = "conflict" => answer'[r] = answer[r] /\ ~input[r].inTx
    BY <1>4, <1>1 DEF InsertEntry, Goto, Reply, IInv, TypeOK
  <2>3. Locks'
    BY <2>1, LedgerAssumption DEF IInv, Locks, TypeOK, Unlock
  <2>4. Drafts'
    BY <2>1 DEF IInv, Drafts, Matches
  <2>5. Pending'
    BY <2>1, <1>2 DEF IInv, Pending
  <2>6. Replies'
    BY <2>1, <2>2, <1>2, <1>4 DEF IInv, Replies
  <2>7. AnswersAreTrue'
    BY <2>1, <2>2, <1>2, <1>4 DEF IInv, AnswersAreTrue, Replies
  <2> QED
    BY <2>3, <2>4, <2>5, <2>6, <2>7 DEF Protocol
<1> QED
  BY <1>3, <1>4

\* A commit changes only a row and a key nobody else holds, so what the other
\* open transactions have written stays right.
LEMMA CommitKeepsProtocol ==
  ASSUME IInv, TypeOK', NEW r \in Requests, Commit(r)
  PROVE  Protocol'
<1>1. input[r].user \in Users /\ input[r].key \in Keys
  BY InputTyped DEF IInv
<1>2. /\ \A k \in Keys : Written(k)' <=> Written(k) \/ k = input[r].key
      /\ \A v \in Users \ {input[r].user} : account'[v] = account[v]
  <2>1. ASSUME NEW u \in Users, u = input[r].user
        PROVE  /\ \A k \in Keys : Written(k)' <=> Written(k) \/ k = input[r].key
               /\ \A v \in Users \ {u} : account'[v] = account[v]
    BY <2>1, CommittedRows DEF IInv
  <2> QED
    BY <2>1, <1>1
<1>3. /\ pc[r] = "commit" /\ pc'[r] = "answered" /\ answer'[r] = "applied"
      /\ \A q \in Requests \ {r} : pc'[q] = pc[q] /\ answer'[q] = answer[q]
      /\ Unlock(r)
      /\ UNCHANGED <<input, draft>>
  BY DEF Commit, Goto, Reply, IInv, TypeOK
<1>4. Locks'
  BY <1>3, LedgerAssumption DEF IInv, Locks, TypeOK, Unlock
<1>5. \A q \in Requests : input[q].user \in Users /\ input[q].key \in Keys
  BY InputTyped DEF IInv
<1>6. Drafts'
  <2>1. ASSUME NEW q \in Requests \ {r}, pc[q] \in {"insert", "commit"}
        PROVE  input[q].user # input[r].user
    BY <2>1, <1>1, <1>3, <1>5 DEF IInv, Locks
  <2> QED
    BY <2>1, <1>2, <1>3, <1>5 DEF IInv, Drafts, Matches
<1>7. Pending'
  <2>1. ASSUME NEW q \in Requests \ {r}, pc[q] = "commit" PROVE input[q].key # input[r].key
    BY <2>1, <1>1, <1>3, <1>5 DEF IInv, Locks
  <2> QED
    BY <2>1, <1>2, <1>3, <1>5 DEF IInv, Pending
<1>8. Replies'
  BY <1>2, <1>3, <1>5 DEF IInv, Replies
<1>9. AnswersAreTrue'
  BY <1>1, <1>2, <1>3, <1>5 DEF IInv, AnswersAreTrue
<1> QED
  BY <1>4, <1>6, <1>7, <1>8, <1>9 DEF Protocol

\* Ending a request, with whatever transaction it has open, releases its locks
\* and disturbs nobody else's.
LEMMA EndKeepsProtocol ==
  ASSUME IInv, TypeOK', NEW r \in Requests, End(r)
  PROVE  Protocol'
<1>1. /\ pc'[r] = "idle" /\ answer'[r] = "none"
      /\ \A q \in Requests \ {r} : /\ pc'[q] = pc[q] /\ answer'[q] = answer[q]
                                   /\ draft'[q] = draft[q] /\ input'[q] = input[q]
      /\ Unlock(r)
      /\ UNCHANGED <<account, ledger>>
  BY DEF End, Goto, IInv, TypeOK
<1>2. \A k : Written(k)' <=> Written(k)
  BY <1>1 DEF Written
<1>3. Locks'
  <2>1. \A u \in Users : rowOwner'[u] # r /\ (\A q \in Requests \ {r} : rowOwner'[u] = q <=> rowOwner[u] = q)
    BY <1>1, LedgerAssumption DEF IInv, TypeOK, Unlock
  <2>2. \A k \in Keys : keyOwner'[k] # r /\ (\A q \in Requests \ {r} : keyOwner'[k] = q <=> keyOwner[k] = q)
    BY <1>1, LedgerAssumption DEF IInv, TypeOK, Unlock
  <2> QED
    BY <1>1, <2>1, <2>2 DEF IInv, Locks
<1>4. Drafts'
  BY <1>1 DEF IInv, Drafts, Matches
<1>5. Pending'
  BY <1>1, <1>2 DEF IInv, Pending
<1>6. Replies'
  BY <1>1, <1>2 DEF IInv, Replies
<1>7. AnswersAreTrue'
  BY <1>1, <1>2 DEF IInv, AnswersAreTrue
<1> QED
  BY <1>3, <1>4, <1>5, <1>6, <1>7 DEF Protocol

\* Moving an account's status changes no balance and no request.
LEMMA MoveStatusKeepsProtocol ==
  ASSUME IInv, NEW u \in Users, NEW from, NEW to, MoveStatus(u, from, to)
  PROVE  Solvent' /\ RunningBalance' /\ OneEntryPerKey' /\ Protocol'
<1>1. \A v \in Users : account'[v].balance = account[v].balance
  BY DEF MoveStatus, IInv, TypeOK
<1>2. UNCHANGED <<ledger, rowOwner, keyOwner, pc, input, draft, answer>>
  BY DEF MoveStatus
<1>3. \A k : Written(k)' <=> Written(k)
  BY <1>2 DEF Written
<1>4. Solvent' /\ RunningBalance' /\ OneEntryPerKey'
  BY <1>1, <1>2 DEF IInv, Solvent, RunningBalance, OneEntryPerKey, BalanceBefore, Latest
<1>5. Drafts'
  <2>1. \A r \in Requests : input[r].user \in Users
    BY InputTyped DEF IInv
  <2>2. ASSUME NEW r \in Requests, pc[r] \in {"insert", "commit"}
        PROVE  account'[input[r].user] = account[input[r].user]
    <3>1. rowOwner[input[r].user] = r
      BY <2>1, <2>2 DEF IInv, Locks
    <3>2. input[r].user # u
      BY <3>1, LedgerAssumption DEF MoveStatus
    <3> QED
      BY <2>1, <3>2 DEF MoveStatus, IInv, TypeOK
  <2> QED
    BY <1>2, <2>1, <2>2 DEF IInv, Drafts, Matches
<1>6. Locks' /\ Pending' /\ Replies' /\ AnswersAreTrue'
  BY <1>2, <1>3 DEF IInv, Locks, Pending, Replies, AnswersAreTrue
<1> QED
  BY <1>4, <1>5, <1>6 DEF Protocol

-----------------------------------------------------------------------------
\* The invariant holds before any request and is kept by every step.
LEMMA InitInvariant == Init => IInv
<1> SUFFICES ASSUME Init PROVE IInv
  OBVIOUS
<1>1. TypeOK
  BY InitTyped
<1>2. Solvent /\ RunningBalance /\ OneEntryPerKey
  BY DEF Init, Solvent, RunningBalance, OneEntryPerKey, BalanceBefore, Latest
<1>3. Locks /\ Drafts /\ Pending /\ Replies /\ AnswersAreTrue
  BY LedgerAssumption DEF Init, Locks, Drafts, Pending, Replies, AnswersAreTrue
<1> QED
  BY <1>1, <1>2, <1>3 DEF IInv

\* Preservation: the rows by SameRows and CommitKeepsRows, the rest by the
\* lemma of the action.
LEMMA StepInvariant ==
  ASSUME IInv, [Next]_vars
  PROVE  IInv'
<1>1. TypeOK'
  BY StepTyped DEF IInv
<1> DEFINE Rows == Solvent /\ RunningBalance /\ OneEntryPerKey
<1>2. UNCHANGED <<account, ledger>> => Rows'
  BY SameRows DEF IInv
<1>3. ASSUME NEW r \in Requests, NEW in \in Inputs, Call(r, in) PROVE Rows' /\ Protocol'
  BY <1>1, <1>2, <1>3, MoveOutsideTx DEF Call, Goto, IInv, TypeOK, Replies
<1>4. ASSUME NEW r \in Requests, Lookup(r) PROVE Rows' /\ Protocol'
  BY <1>1, <1>2, <1>4, MoveOutsideTx DEF Lookup, Goto, Reply, IInv, TypeOK, Replies
<1>5. ASSUME NEW r \in Requests, GuardedUpdate(r) PROVE Rows' /\ Protocol'
  BY <1>1, <1>2, <1>5, GuardedUpdateKeepsProtocol DEF GuardedUpdate
<1>6. ASSUME NEW r \in Requests, Refuse(r) PROVE Rows' /\ Protocol'
  <2>1. answer'[r] \notin {"applied", "replayed", "failed"} /\ pc'[r] = "answered"
    BY <1>6 DEF Refuse, Goto, Reply, RefusalOf, IInv, TypeOK
  <2> QED
    BY <1>1, <1>2, <1>6, <2>1, MoveOutsideTx DEF Refuse, Goto, Reply, IInv, TypeOK
<1>7. ASSUME NEW r \in Requests, InsertEntry(r) PROVE Rows' /\ Protocol'
  BY <1>1, <1>2, <1>7, InsertEntryKeepsProtocol DEF InsertEntry
<1>8. ASSUME NEW r \in Requests, Commit(r) PROVE Rows' /\ Protocol'
  <2>1. input[r].user \in Users /\ Len(ledger[input[r].user]) \in Nat
    BY InputTyped DEF IInv, TypeOK
  <2>2. Rows'
    BY <1>8, <2>1, CommitKeepsRows DEF IInv
  <2> QED
    BY <1>1, <1>8, <2>2, CommitKeepsProtocol
<1>9. ASSUME NEW r \in Requests, FindWinner(r) PROVE Rows' /\ Protocol'
  <2>1. Written(input[r].key)
    BY <1>9 DEF FindWinner, IInv, Replies
  <2> QED
    BY <1>1, <1>2, <1>9, <2>1, MoveOutsideTx DEF FindWinner, Goto, Reply, IInv, TypeOK
<1>10. ASSUME NEW r \in Requests, End(r) PROVE Rows' /\ Protocol'
  BY <1>1, <1>2, <1>10, EndKeepsProtocol DEF End
<1>11. ASSUME NEW u \in Users, Suspend(u) \/ Unsuspend(u) \/ Close(u) PROVE Rows' /\ Protocol'
  BY <1>11, MoveStatusKeepsProtocol DEF Suspend, Unsuspend, Close
<1>12. ASSUME UNCHANGED vars PROVE Rows' /\ Protocol'
  <2>1. \A k : Written(k)' <=> Written(k)
    BY <1>12 DEF vars, Written
  <2>2. Protocol'
    BY <1>12, <2>1 DEF vars, Protocol, IInv, Locks, Drafts, Matches, Pending, Replies, AnswersAreTrue
  <2> QED
    BY <1>2, <1>12, <2>2 DEF vars
<1> HIDE DEF Rows
<1>13. Rows' /\ Protocol'
  BY <1>3, <1>4, <1>5, <1>6, <1>7, <1>8, <1>9, <1>10, <1>11, <1>12 DEF Next
<1> QED
  BY <1>1, <1>13 DEF Rows, Protocol, IInv

\* The inductive invariant.
THEOREM InvariantHolds == Spec => []IInv
<1>1. Init => IInv
  BY InitInvariant
<1>2. IInv /\ [Next]_vars => IInv'
  BY StepInvariant
<1> QED
  BY <1>1, <1>2, PTL DEF Spec

\* Every value the ledger stores has its type.
THEOREM TypeCorrect == Spec => []TypeOK
  BY InvariantHolds, PTL DEF IInv

\* No balance is ever negative, whatever is posted and however the requests
\* interleave.
THEOREM NeverOverdrawn == Spec => []Solvent
  BY InvariantHolds, PTL DEF IInv

\* The cached balance is the ledger's running balance, at every moment.
THEOREM BalanceMatchesLedger == Spec => []RunningBalance
  BY InvariantHolds, PTL DEF IInv

\* An idempotency key has at most one row, over all users.
THEOREM AtMostOnce == Spec => []OneEntryPerKey
  BY InvariantHolds, PTL DEF IInv

\* What a caller is told about its entry is true.
THEOREM AnswersTrue == Spec => []AnswersAreTrue
  BY InvariantHolds, PTL DEF IInv

-----------------------------------------------------------------------------
\* Only Commit touches the rows.
LEMMA OnlyCommitWrites ==
  ASSUME TypeOK, [Next]_vars, ~\E r \in Requests : Commit(r)
  PROVE  UNCHANGED ledger
  BY DEF Next, vars, Call, Lookup, GuardedUpdate, Refuse, InsertEntry, FindWinner, End,
         Suspend, Unsuspend, Close, MoveStatus

\* No step rewrites or drops a row of the ledger.
THEOREM HistoryIsKept == Spec => AppendOnly
<1> DEFINE Appends(u) == /\ Len(ledger'[u]) \in {Len(ledger[u]), Len(ledger[u]) + 1}
                         /\ SubSeq(ledger'[u], 1, Len(ledger[u])) = ledger[u]
<1>1. ASSUME IInv, [Next]_vars, NEW u \in Users PROVE Appends(u)
  <2>1. ledger[u] \in Seq(Entry) /\ Len(ledger[u]) \in Nat
    BY <1>1 DEF IInv, TypeOK
  <2>2. ledger'[u] = ledger[u] => Appends(u)
    BY <2>1
  <2>3. ASSUME NEW r \in Requests, Commit(r), input[r].user = u PROVE Appends(u)
    <3>1. ledger'[u] = Append(ledger[u], NewEntry(r))
      BY <2>3, <1>1 DEF Commit, RowsAfter, IInv, TypeOK
    <3>2. NewEntry(r) \in Entry
      <4>1. draft[r] \in Nat
        BY <2>3, <1>1 DEF Commit, IInv, TypeOK, Drafts
      <4> QED
        BY <4>1, <1>1, InputTyped DEF NewEntry, Entry, IInv
    <3>3. ledger'[u] \in Seq(Entry) /\ Len(ledger'[u]) = Len(ledger[u]) + 1
      BY <3>1, <3>2, <2>1
    <3>4. \A i \in 1..Len(ledger[u]) : ledger'[u][i] = ledger[u][i]
      BY <3>1, <2>1
    <3>5. SubSeq(ledger'[u], 1, Len(ledger[u])) = ledger[u]
      BY <2>1, <3>3, <3>4
    <3> QED
      BY <3>3, <3>5
  <2>4. ASSUME NEW r \in Requests, Commit(r), input[r].user # u PROVE Appends(u)
    BY <2>2, <2>4, <1>1 DEF Commit, IInv, TypeOK
  <2>5. CASE ~\E r \in Requests : Commit(r)
    BY <2>2, <2>5, <1>1, OnlyCommitWrites DEF IInv
  <2> QED
    BY <2>3, <2>4, <2>5
<1>2. IInv /\ [Next]_vars => [\A u \in Users : Appends(u)]_vars
  BY <1>1
<1> QED
  BY <1>2, InvariantHolds, PTL DEF Spec, AppendOnly

\* A request comes to be answered "applied" only by its own Commit.
LEMMA OnlyCommitApplies ==
  ASSUME TypeOK, [Next]_vars, NEW r \in Requests, answer'[r] = "applied", answer[r] # "applied"
  PROVE  Commit(r)
<1>1. ASSUME NEW q \in Requests,
             \/ \E in \in Inputs : Call(q, in)
             \/ Lookup(q) \/ GuardedUpdate(q) \/ InsertEntry(q) \/ FindWinner(q) \/ End(q)
      PROVE  FALSE
  BY <1>1 DEF TypeOK, Call, Lookup, GuardedUpdate, InsertEntry, FindWinner, End, Goto, Reply
<1>2. ASSUME NEW q \in Requests, Refuse(q) PROVE FALSE
  BY <1>2 DEF TypeOK, Refuse, RefusalOf, Goto, Reply
<1>3. ASSUME NEW q \in Requests, Commit(q) PROVE q = r
  BY <1>3 DEF TypeOK, Commit, Goto, Reply
<1>4. ASSUME NEW u \in Users, Suspend(u) \/ Unsuspend(u) \/ Close(u) PROVE FALSE
  BY <1>4 DEF Suspend, Unsuspend, Close, MoveStatus
<1>5. ~UNCHANGED vars
  BY DEF vars
<1> QED
  BY <1>1, <1>2, <1>3, <1>4, <1>5 DEF Next

\* A post that needs an active account commits only on one, even if the account
\* is suspended or deleted while the post is running.
THEOREM ClosedMeansClosed == Spec => ClosedAccountsDoNotMove
<1> DEFINE Open(r) == answer'[r] = "applied" /\ answer[r] # "applied" =>
                         LET st == account[input[r].user].status IN
                         /\ st # "deleted"
                         /\ input[r].requireActive => st = "active"
<1>1. ASSUME IInv, [Next]_vars, NEW r \in Requests PROVE Open(r)
  <2>1. CASE answer'[r] = "applied" /\ answer[r] # "applied"
    <3>1. Commit(r)
      BY <1>1, <2>1, OnlyCommitApplies DEF IInv
    <3>2. Matches(r)
      BY <3>1, <1>1 DEF Commit, IInv, Drafts
    <3> QED
      BY <3>2 DEF Matches
  <2> QED
    BY <2>1
<1>2. IInv /\ [Next]_vars => [\A r \in Requests : Open(r)]_vars
  BY <1>1
<1> QED
  BY <1>2, InvariantHolds, PTL DEF Spec, ClosedAccountsDoNotMove

-----------------------------------------------------------------------------
\* The refinement of CreditBook.  The book's entries are the ledger's rows
\* without their order, so a key is posted exactly when it is written, and a
\* commit adds exactly one entry.
LEMMA PostedIsWritten ==
  ASSUME NEW k \in Keys
  PROVE  Book!Posted(k) <=> Written(k)
<1>1. ASSUME Book!Posted(k) PROVE Written(k)
  <2>1. PICK e \in BookEntries : e.key = k
    BY <1>1 DEF Book!Posted
  <2>2. PICK u \in Users : \E i \in DOMAIN ledger[u] :
          e = [user |-> u, key |-> ledger[u][i].key, amount |-> ledger[u][i].amount]
    BY DEF BookEntries
  <2> QED
    BY <2>1, <2>2 DEF Written
<1>2. ASSUME Written(k) PROVE Book!Posted(k)
  <2>1. PICK u \in Users : \E i \in DOMAIN ledger[u] : ledger[u][i].key = k
    BY <1>2 DEF Written
  <2>2. \A i \in DOMAIN ledger[u] :
         [user |-> u, key |-> ledger[u][i].key, amount |-> ledger[u][i].amount] \in BookEntries
    BY DEF BookEntries
  <2> QED
    BY <2>1, <2>2 DEF Book!Posted
<1> QED
  BY <1>1, <1>2

\* The book's entries after a commit.
LEMMA CommitAddsEntry ==
  ASSUME TypeOK, NEW r \in Requests, Commit(r),
         NEW u \in Users, u = input[r].user, NEW n \in Nat, n = Len(ledger[u])
  PROVE  BookEntries' = BookEntries \union
           {[user |-> u, key |-> input[r].key, amount |-> input[r].amount]}
<1> DEFINE Row(l, v, i) == [user |-> v, key |-> l[v][i].key, amount |-> l[v][i].amount]
           new == [user |-> u, key |-> input[r].key, amount |-> input[r].amount]
<1>1. /\ ledger'[u] = Append(ledger[u], NewEntry(r)) /\ ledger[u] \in Seq(Entry)
      /\ \A v \in Users \ {u} : ledger'[v] = ledger[v]
  BY DEF Commit, TypeOK, RowsAfter
<1>2. /\ DOMAIN ledger[u] = 1..n /\ DOMAIN ledger'[u] = 1..(n + 1)
      /\ \A i \in 1..n : ledger'[u][i] = ledger[u][i]
      /\ ledger'[u][n + 1] = NewEntry(r)
  BY <1>1
<1>3. Row(ledger', u, n + 1) = new
  BY <1>2 DEF NewEntry
<1>4. \A v \in Users : \A i \in DOMAIN ledger[v] :
        i \in DOMAIN ledger'[v] /\ Row(ledger', v, i) = Row(ledger, v, i)
  <2>1. \A i \in DOMAIN ledger[u] :
          i \in DOMAIN ledger'[u] /\ Row(ledger', u, i) = Row(ledger, u, i)
    BY <1>2
  <2>2. ASSUME NEW v \in Users \ {u}
        PROVE  \A i \in DOMAIN ledger[v] :
                 i \in DOMAIN ledger'[v] /\ Row(ledger', v, i) = Row(ledger, v, i)
    BY <1>1
  <2> QED
    BY <2>1, <2>2, Zenon
<1>5. \A v \in Users : \A i \in DOMAIN ledger'[v] :
        i \in DOMAIN ledger[v] \/ (v = u /\ i = n + 1)
  BY <1>1, <1>2
<1>6. \A e : e \in BookEntries' <=> \E v \in Users : \E i \in DOMAIN ledger'[v] : e = Row(ledger', v, i)
  BY DEF BookEntries
<1>7. \A e : e \in BookEntries <=> \E v \in Users : \E i \in DOMAIN ledger[v] : e = Row(ledger, v, i)
  BY DEF BookEntries
<1> HIDE DEF Row, new
<1>8. ASSUME NEW e \in BookEntries' PROVE e \in BookEntries \union {new}
  BY <1>3, <1>4, <1>5, <1>6, <1>7
<1>9. ASSUME NEW e \in BookEntries \union {new} PROVE e \in BookEntries'
  BY <1>2, <1>3, <1>4, <1>6, <1>7
<1>10. BookEntries' = BookEntries \union {new}
  BY <1>8, <1>9
<1> QED
  BY <1>10 DEF new

\* A commit is a posting of the abstract book.
LEMMA CommitPosts ==
  ASSUME IInv, NEW r \in Requests, Commit(r)
  PROVE  Book!Next
<1>1. /\ input[r].user \in Users /\ input[r].key \in Keys /\ input[r].amount \in Amounts
      /\ input[r].requireActive \in BOOLEAN /\ input[r].amount \in Int
      /\ Len(ledger[input[r].user]) \in Nat
  BY InputTyped DEF IInv, TypeOK
<1>2. /\ Matches(r) /\ draft[r] = account[input[r].user].balance + input[r].amount
      /\ ~Written(input[r].key)
  BY DEF IInv, Drafts, Pending, Commit
<1>3. BookEntries' = BookEntries \union
        {[user |-> input[r].user, key |-> input[r].key, amount |-> input[r].amount]}
  <2>1. ASSUME NEW u \in Users, u = input[r].user, NEW n \in Nat, n = Len(ledger[u])
        PROVE  BookEntries' = BookEntries \union
                 {[user |-> u, key |-> input[r].key, amount |-> input[r].amount]}
    BY <2>1, CommitAddsEntry DEF IInv
  <2> QED
    BY <1>1, <2>1
<1>4. account' = [account EXCEPT ![input[r].user].balance = draft[r]]
  BY DEF Commit
<1>5. /\ [v \in Users |-> account'[v].status] = [v \in Users |-> account[v].status]
      /\ [v \in Users |-> account'[v].balance] =
           [[v \in Users |-> account[v].balance] EXCEPT
              ![input[r].user] = @ + input[r].amount]
  BY <1>1, <1>2, <1>4 DEF IInv, TypeOK
<1>6. Book!Accepts(input[r].user, input[r].amount, input[r].requireActive)
  BY <1>1, <1>2 DEF Book!Accepts, Matches
<1>7. ~Book!Posted(input[r].key)
  BY <1>1, <1>2, PostedIsWritten
<1>8. ASSUME NEW u \in Users, NEW k \in Keys, NEW a \in Amounts, NEW q \in BOOLEAN,
             u = input[r].user, k = input[r].key, a = input[r].amount, q = input[r].requireActive
      PROVE  Book!Post(u, k, a, q)
  BY <1>3, <1>5, <1>6, <1>7, <1>8 DEF Book!Post
<1>9. ASSUME NEW u \in Users, NEW k \in Keys, NEW a \in Amounts, NEW q \in BOOLEAN,
             u = input[r].user, k = input[r].key, a = input[r].amount, q = input[r].requireActive
      PROVE  Book!Next
  BY <1>8, <1>9 DEF Book!Next
<1> QED
  BY <1>1, <1>9

\* Moving a status is the book's own step.
LEMMA MoveIsBookMove ==
  ASSUME IInv, NEW u \in Users, Suspend(u) \/ Unsuspend(u) \/ Close(u)
  PROVE  Book!Next
<1>1. ASSUME NEW from, NEW to, MoveStatus(u, from, to) PROVE Book!Move(u, from, to)
  <2>1. /\ [v \in Users |-> account'[v].status] =
             [[v \in Users |-> account[v].status] EXCEPT ![u] = to]
        /\ [v \in Users |-> account'[v].balance] = [v \in Users |-> account[v].balance]
    BY <1>1 DEF MoveStatus, IInv, TypeOK
  <2>2. BookEntries' = BookEntries
    BY <1>1 DEF MoveStatus, BookEntries
  <2> QED
    BY <1>1, <2>1, <2>2 DEF Book!Move, MoveStatus
<1> QED
  BY <1>1 DEF Suspend, Unsuspend, Close, Book!Next, Book!Suspend, Book!Unsuspend, Book!Close

\* The transactions, locks and retries of LedgerService.post implement the
\* atomic credit book.
THEOREM ImplementsBook == Spec => BookSpec
<1>1. Init => Book!Init
  BY DEF Init, Book!Init, BookEntries
<1>2. ASSUME IInv, [Next]_vars PROVE [Book!Next]_Book!bookVars
  <2>1. CASE \E r \in Requests : Commit(r)
    BY <2>1, <1>2, CommitPosts
  <2>2. CASE \E u \in Users : Suspend(u) \/ Unsuspend(u) \/ Close(u)
    BY <2>2, <1>2, MoveIsBookMove
  <2>3. CASE /\ ~\E r \in Requests : Commit(r)
             /\ ~\E u \in Users : Suspend(u) \/ Unsuspend(u) \/ Close(u)
    <3>1. UNCHANGED <<account, ledger>>
      BY <2>3, <1>2 DEF Next, vars, Call, Lookup, GuardedUpdate, Refuse, InsertEntry, FindWinner, End
    <3> QED
      BY <3>1 DEF Book!bookVars, BookEntries
  <2> QED
    BY <2>1, <2>2, <2>3
<1> QED
  BY <1>1, <1>2, InvariantHolds, PTL DEF Spec, BookSpec, Book!Spec

\* For any number of posts, a chain of waiting posts ends after at most two.
THEOREM NobodyWaitsInARing == Spec => []NoRing
<1>1. ASSUME IInv PROVE NoRing
  <2> SUFFICES ASSUME NEW r \in Requests, NEW q, q = Blocker(r), q # Nobody
               PROVE  Blocker(q) = Nobody \/ Blocker(Blocker(q)) = Nobody
    BY DEF NoRing
  <2>1. \A p \in Requests : input[p].user \in Users /\ input[p].key \in Keys
    BY <1>1, LedgerAssumption DEF IInv, TypeOK, Input
  <2>2. /\ \A u \in Users : rowOwner[u] \in Requests \union {Nobody}
        /\ \A k \in Keys : keyOwner[k] \in Requests \union {Nobody}
    BY <1>1 DEF IInv, TypeOK
  <2>3. q \in Requests /\ pc[q] \in {"insert", "commit"}
    BY <1>1, <2>1, <2>2 DEF Blocker, IInv, Locks
  <2>4. CASE pc[q] = "commit"
    BY <2>4 DEF Blocker
  <2>5. CASE pc[q] = "insert" /\ keyOwner[input[q].key] # Nobody
    <3> DEFINE p == keyOwner[input[q].key]
    <3>1. p \in Requests /\ Blocker(q) = p
      BY <2>1, <2>2, <2>3, <2>5 DEF Blocker
    <3>2. pc[p] = "commit"
      BY <1>1, <2>1, <2>3, <3>1 DEF IInv, Locks
    <3> QED
      BY <3>1, <3>2 DEF Blocker
  <2>6. CASE pc[q] = "insert" /\ keyOwner[input[q].key] = Nobody
    BY <2>6 DEF Blocker
  <2> QED
    BY <2>3, <2>4, <2>5, <2>6
<1> QED
  BY <1>1, InvariantHolds, PTL
=============================================================================
