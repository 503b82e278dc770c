----------------------------- MODULE CreditBook -----------------------------
(***************************************************************************)
(* What src/src/modules/credits/ledger.service.ts promises to the rest of  *)
(* the server: a book of credit entries in which an entry is written at    *)
(* most once per idempotency key, a balance is never negative, and the     *)
(* cached balance moves together with the entry.  One atomic step per      *)
(* posting; no transactions, locks or retries.  Ledger.tla implements it,  *)
(* and the modules that only use the ledger build on these operators.      *)
(***************************************************************************)
EXTENDS Integers

CONSTANTS Users,    \* ids of User rows
          Keys,     \* idempotency keys, "<type>:<reference>" in the code
          Amounts   \* signed amounts the callers post

ASSUME AmountsAssumption == Amounts \subseteq Int \ {0}

VARIABLES status,   \* User.accountStatus
          balance,  \* User.creditBalance, the cached balance
          entries   \* the CreditTransaction rows

bookVars == <<status, balance, entries>>

Statuses == {"active", "suspended", "deleted"}

Entry == [user : Users, key : Keys, amount : Amounts]

Posted(k) == \E e \in entries : e.key = k

\* The WHERE clause of the guarded UPDATE: suspension closes only the posts
\* that ask for an active account, deletion closes all of them, and a debit
\* needs the balance to cover it.
Accepts(u, amount, requireActive) ==
  /\ IF requireActive THEN status[u] = "active" ELSE status[u] # "deleted"
  /\ amount < 0 => balance[u] >= -amount

Init ==
  /\ status = [u \in Users |-> "active"]
  /\ balance = [u \in Users |-> 0]
  /\ entries = {}

Post(u, k, amount, requireActive) ==
  /\ ~Posted(k)
  /\ Accepts(u, amount, requireActive)
  /\ balance' = [balance EXCEPT ![u] = @ + amount]
  /\ entries' = entries \union {[user |-> u, key |-> k, amount |-> amount]}
  /\ UNCHANGED status

\* AdminUsersService.moveStatus and the last statement of deleteAccount.
Move(u, from, to) ==
  /\ status[u] \in from
  /\ status' = [status EXCEPT ![u] = to]
  /\ UNCHANGED <<balance, entries>>

Suspend(u) == Move(u, {"active"}, "suspended")

Unsuspend(u) == Move(u, {"suspended"}, "active")

Close(u) == Move(u, {"active", "suspended"}, "deleted")

Next ==
  \/ \E u \in Users, k \in Keys, a \in Amounts, r \in BOOLEAN : Post(u, k, a, r)
  \/ \E u \in Users : Suspend(u) \/ Unsuspend(u) \/ Close(u)

Spec == Init /\ [][Next]_bookVars
=============================================================================
