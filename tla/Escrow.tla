------------------------------- MODULE Escrow -------------------------------
(***************************************************************************)
(* What paid captions promise to the user who pays (charge, serve, refund; *)
(* src/src/modules/captions): the credits taken for a job are held for it, *)
(* and then either spent on a result or all returned to whom they were     *)
(* taken from, once and for good.  CaptionJobs implements it.              *)
(***************************************************************************)
EXTENDS Integers

CONSTANTS Users, Jobs,
          Owner       \* the user of each job

VARIABLES balance,    \* the credits each user can use
          held,       \* what was taken for each job
          delivered,  \* jobs that were paid and gave a result
          returned    \* jobs whose credits were given back

escrowVars == <<balance, held, delivered, returned>>

Init ==
  /\ balance = [u \in Users |-> 0]
  /\ held = [j \in Jobs |-> 0]
  /\ delivered = {} /\ returned = {}

\* Nothing is taken twice for a job, nor more than there is.
Take(j) ==
  /\ held[j] = 0
  /\ \E credits \in 1..balance[Owner[j]] :
       /\ held' = [held EXCEPT ![j] = credits]
       /\ balance' = [balance EXCEPT ![Owner[j]] = @ - credits]
  /\ UNCHANGED <<delivered, returned>>

Unsettled(j) == held[j] > 0 /\ j \notin delivered \union returned

Deliver(j) ==
  /\ Unsettled(j)
  /\ delivered' = delivered \union {j}
  /\ UNCHANGED <<balance, held, returned>>

Return(j) ==
  /\ Unsettled(j)
  /\ returned' = returned \union {j}
  /\ balance' = [balance EXCEPT ![Owner[j]] = @ + held[j]]
  /\ UNCHANGED <<held, delivered>>

\* The rest of the server gives a user credits, or closes the account.
Elsewhere(u) ==
  /\ balance' = [balance EXCEPT ![u] = balance'[u]]
  /\ balance'[u] >= balance[u] \/ balance'[u] = 0
  /\ UNCHANGED <<held, delivered, returned>>

Next ==
  \/ \E j \in Jobs : Take(j) \/ Deliver(j) \/ Return(j)
  \/ \E u \in Users : Elsewhere(u)

Spec == Init /\ [][Next]_escrowVars
=============================================================================
