------------------------------ MODULE Enrolment ------------------------------
(***************************************************************************)
(* What claiming an account promises (src/src/modules/accounts/            *)
(* claim.service.ts): claims happen one at a time.  Each takes its         *)
(* username, may earn the signup bonus if neither its mailbox nor its      *)
(* install has earned one, and with the bonus pays for the referral: the   *)
(* invitee always, the inviter while fewer than the cap have been paid for *)
(* by then.  Accounts implements it with transactions whose statements     *)
(* interleave.                                                             *)
(***************************************************************************)
EXTENDS Naturals, FiniteSets

CONSTANTS Users, Names, Installs,
          EmailOf,    \* the mailbox of each user
          Cap,        \* the invitees an inviter is paid for
          None

VARIABLES claimed,                \* users who have claimed
          name,                   \* the username of each user, or None
          mailboxes, installs,    \* what has earned the bonus
          bonuses,                \* users who were paid it
          inviterOf,              \* the inviter each claim has named, or None
          invited, rewarded       \* invitees who, and whose inviter, were paid

enrolmentVars == <<claimed, name, mailboxes, installs, bonuses, inviterOf, invited, rewarded>>

Init ==
  /\ name = [u \in Users |-> None] /\ inviterOf = [u \in Users |-> None]
  /\ claimed = {} /\ mailboxes = {} /\ installs = {}
  /\ bonuses = {} /\ invited = {} /\ rewarded = {}

Free(n, u) == \A v \in Users \ {u} : name[v] # n

With(set, x, condition) == IF condition THEN set \union {x} ELSE set

PaidFor(inviter) == {v \in rewarded : inviterOf[v] = inviter}

Claim(u, n, install, inviter, bonus) ==
  /\ u \notin claimed /\ Free(n, u) /\ inviter # u
  /\ bonus => EmailOf[u] \notin mailboxes /\ install \notin installs
  /\ claimed' = claimed \union {u}
  /\ name' = [name EXCEPT ![u] = n]
  /\ mailboxes' = With(mailboxes, EmailOf[u], bonus)
  /\ installs' = With(installs, install, bonus)
  /\ bonuses' = With(bonuses, u, bonus)
  /\ inviterOf' = [inviterOf EXCEPT ![u] = inviter]
  /\ invited' = With(invited, u, bonus /\ inviter # None)
  /\ rewarded' = With(rewarded, u, bonus /\ inviter # None /\ Cardinality(PaidFor(inviter)) < Cap)

Rename(u, n) ==
  /\ Free(n, u)
  /\ name' = [name EXCEPT ![u] = n]
  /\ UNCHANGED <<claimed, mailboxes, installs, bonuses, inviterOf, invited, rewarded>>

\* Nothing but the username is free again: not the mailbox, nor the install.
Erase(u) ==
  /\ name' = [name EXCEPT ![u] = None]
  /\ UNCHANGED <<claimed, mailboxes, installs, bonuses, inviterOf, invited, rewarded>>

Next ==
  \E u \in Users :
    \/ \E n \in Names, install \in Installs, inviter \in Users \union {None}, bonus \in BOOLEAN :
         Claim(u, n, install, inviter, bonus)
    \/ \E n \in Names : Rename(u, n)
    \/ Erase(u)

Spec == Init /\ [][Next]_enrolmentVars
=============================================================================
