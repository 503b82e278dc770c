------------------------------ MODULE Accounts ------------------------------
(***************************************************************************)
(* What happens once to an account (src/src/modules/accounts): the claim,  *)
(* which in one transaction sets the username, pays the signup bonus and   *)
(* pays for the referral; a later change of the username; and the deletion *)
(* of the account.  All three meet on User rows and on unique indexes, and *)
(* each statement of theirs is an action.                                  *)
(*                                                                         *)
(* A transaction's writes become visible when it commits.  Until then a    *)
(* row it wrote or selected FOR UPDATE makes other writers of the row      *)
(* wait, and a unique key it inserted makes other inserters of the key     *)
(* wait.  The ledger is the book of CreditBook: a post inside a            *)
(* transaction is part of its commit, because the row it changes is        *)
(* locked.  All referrals are younger than referralCapDays.                *)
(***************************************************************************)
EXTENDS CreditBook, FiniteSets, Absent

CONSTANTS Requests,
          Installs, Names,
          EmailOf,        \* the canonical address behind each account's email
          IpLimited,      \* accounts made when signupIpLimited was TRUE
          ClaimInputs,    \* [user, install, name, inviter]: bodies of POST /me/claim
          RenameInputs,   \* [user, name]: bodies of PATCH /me/username
          Managed,        \* accounts that are suspended, resumed and deleted
          OtherPosts,     \* [user, key, amount]: what other parts of the server post
          SignupBonus, InviteeCredits, InviterCredits, ReferralCapCount,
          Nobody

SignupKey(u) == <<"signup_bonus", u>>
\* The reference is the Referral row, of which an invitee has at most one.
InviteeKey(u) == <<"referral_invitee", u>>
InviterKey(u) == <<"referral_inviter", u>>
DeletedKey(u) == <<"account_deleted", u>>

\* What only claims and deletions post under.
OwnKeys == UNION { {SignupKey(u), InviteeKey(u), InviterKey(u), DeletedKey(u)} : u \in Users }

NameKey(n) == <<"username", n>>
EmailKey(u) == <<"email", EmailOf[u]>>
InstallKey(i) == <<"install", i>>
UniqueKeys == { NameKey(n) : n \in Names } \union { EmailKey(u) : u \in Users }
                \union { InstallKey(i) : i \in Installs }

ASSUME AccountsAssumption ==
  /\ {SignupBonus, InviteeCredits, InviterCredits, ReferralCapCount} \subseteq Nat
  /\ IsFiniteSet(Users)
  /\ IpLimited \union Managed \subseteq Users
  /\ ClaimInputs \subseteq [user : Users, install : Installs, name : Names, inviter : Users \union {None}]
  /\ RenameInputs \subseteq [user : Users, name : Names]
  /\ OtherPosts \subseteq [user : Users, key : Keys \ OwnKeys, amount : Int]
  /\ OwnKeys \subseteq Keys
  /\ Nobody \notin Requests /\ None \notin Users \union Names \union Installs

VARIABLES
  username, claimed,  \* User.username, and whether claimedAt is set
  bonusClaims,        \* the keys of BonusClaim rows
  referral,           \* the Referral row of each invitee
  rowOwner,           \* who has written or selected a User row FOR UPDATE
  keyOwner,           \* who has inserted a unique key and not committed
  pc, req,            \* each request: its next statement or reply, and its variables
  bonusVia            \* history: the install that earned each account's bonus

userVars == <<bookVars, username, claimed>>
rowVars == <<userVars, bonusClaims, referral, bonusVia>>
lockVars == <<rowOwner, keyOwner>>
vars == <<rowVars, lockVars, pc, req>>

NoReferral == [inviter |-> None, outcome |-> "none"]

NoLocals == [user |-> None, install |-> None, name |-> None, inviter |-> None,
             bonus |-> "granted", outcome |-> "invitee_ineligible", email |-> TRUE,
             again |-> FALSE, seen |-> 0]

Replies == {"idle", "claimed", "renamed", "gone", "refused", "ALREADY_CLAIMED",
            "USERNAME_TAKEN", "failed"}

AccountsInit ==
  /\ Init
  /\ username = [u \in Users |-> None]
  /\ claimed = [u \in Users |-> FALSE]
  /\ bonusClaims = {}
  /\ referral = [u \in Users |-> NoReferral]
  /\ rowOwner = [u \in Users |-> Nobody]
  /\ keyOwner = [k \in UniqueKeys |-> Nobody]
  /\ pc = [r \in Requests |-> "idle"]
  /\ req = [r \in Requests |-> NoLocals]
  /\ bonusVia = [u \in Users |-> None]
-----------------------------------------------------------------------------
(* Transactions, rows and unique keys *)

Goto(r, step) == pc' = [pc EXCEPT ![r] = step]

HoldRow(r, u) == rowOwner' = [rowOwner EXCEPT ![u] = r]

HoldKey(r, k) == keyOwner' = [keyOwner EXCEPT ![k] = r]

\* Mutant: a way out of a transaction that leaves it open.
KeepLocks(r) == UNCHANGED lockVars

Unlock(r) ==
  /\ rowOwner' = [u \in Users |-> IF rowOwner[u] = r THEN Nobody ELSE rowOwner[u]]
  /\ keyOwner' = [k \in UniqueKeys |-> IF keyOwner[k] = r THEN Nobody ELSE keyOwner[k]]

\* An answered request keeps nothing but what its answer said.
Reply(r, answer) == Goto(r, answer) /\ Unlock(r)

Refuse(r, answer) ==
  /\ Reply(r, answer)
  /\ req' = [req EXCEPT ![r] = NoLocals]

\* An open transaction has written this row: its old key may or may not stay.
WriterOf(u) ==
  IF rowOwner[u] # Nobody /\ req[rowOwner[u]].user = u THEN rowOwner[u] ELSE Nobody

HolderOf(n) == { v \in Users : username[v] = n }

KeyHolder(r, k) ==
  IF keyOwner[k] # Nobody THEN keyOwner[k]
  ELSE IF \E v \in HolderOf(k[2]) \ {req[r].user} : k[1] = "username" /\ WriterOf(v) # Nobody
         THEN WriterOf(CHOOSE v \in HolderOf(k[2]) \ {req[r].user} : WriterOf(v) # Nobody)
         ELSE Nobody

\* The unique key r's next statement inserts.
NextKey(r) ==
  CASE pc[r] \in {"takeName", "rename"} -> NameKey(req[r].name)
    [] pc[r] = "takeEmail" -> EmailKey(req[r].user)
    [] pc[r] = "takeInstall" -> InstallKey(req[r].install)

\* Whom r's next statement waits for.
Blocker(r) ==
  LET other ==
    CASE pc[r] = "setName" ->
           IF claimed[req[r].user] THEN Nobody ELSE rowOwner[req[r].user]
      [] pc[r] \in {"renameRow", "forfeit", "erase"} -> rowOwner[req[r].user]
      [] pc[r] \in {"takeName", "rename", "takeEmail", "takeInstall"} -> KeyHolder(r, NextKey(r))
      [] pc[r] = "lockInviter" -> rowOwner[req[r].inviter]
      [] pc[r] = "commit" /\ req[r].inviter # None -> rowOwner[req[r].inviter]
      [] OTHER -> Nobody
  IN IF other = r THEN Nobody ELSE other

At(r, step) == pc[r] = step /\ Blocker(r) = Nobody
-----------------------------------------------------------------------------
(* ClaimService.claim: what it reads before its transaction *)

\* The guard rejects a deleted account, claim() a suspended one.
StartClaim(r, c) ==
  /\ pc[r] \in Replies
  /\ status[c.user] # "deleted"
  /\ IF status[c.user] = "suspended"
       THEN Goto(r, "refused") /\ req' = [req EXCEPT ![r] = NoLocals]
       ELSE /\ Goto(r, "readUser")
            /\ req' = [req EXCEPT ![r] = [NoLocals EXCEPT
                 !.user = c.user, !.install = c.install, !.name = c.name, !.inviter = c.inviter]]
  /\ UNCHANGED <<rowVars, lockVars>>

\* Deletion erases the email.
ReadUser(r) ==
  /\ At(r, "readUser")
  /\ IF claimed[req[r].user]
       THEN Refuse(r, "ALREADY_CLAIMED")
       ELSE /\ Goto(r, "checkName")
            /\ req' = [req EXCEPT ![r].email = status[req[r].user] # "deleted"]
            /\ UNCHANGED lockVars
  /\ UNCHANGED rowVars

\* Mutant: User.username has no unique index.
NameIgnored(r) == FALSE

NameTaken(r) == HolderOf(req[r].name) \ {req[r].user} # {}

\* assertAvailable, for a claim and for a change of the name.
CheckName(r) ==
  /\ At(r, "checkName")
  /\ IF NameTaken(r)
       THEN Refuse(r, "USERNAME_TAKEN")
       ELSE /\ Goto(r, IF req[r].install = None THEN "renameRow" ELSE "findInviter")
            /\ UNCHANGED <<lockVars, req>>
  /\ UNCHANGED rowVars

FindInviter(r) ==
  LET inviter == req[r].inviter IN
  /\ At(r, "findInviter")
  /\ IF inviter # None /\ (inviter = req[r].user \/ status[inviter] # "active")
       THEN Refuse(r, "refused")
       ELSE Goto(r, "eligibility") /\ UNCHANGED <<lockVars, req>>
  /\ UNCHANGED rowVars

BonusKeys(r) ==
  { InstallKey(req[r].install) } \union (IF req[r].email THEN { EmailKey(req[r].user) } ELSE {})

Eligibility(r) ==
  /\ At(r, "eligibility")
  /\ req' = [req EXCEPT ![r].bonus =
       IF req[r].user \in IpLimited THEN "IP_LIMIT_REACHED"
       ELSE IF BonusKeys(r) \intersect bonusClaims # {} THEN "BONUS_ALREADY_CLAIMED"
       ELSE "granted"]
  /\ Goto(r, "setName")
  /\ UNCHANGED <<rowVars, lockVars>>
-----------------------------------------------------------------------------
(* ClaimService.apply and applyReferral: the transaction *)

\* Mutant: the UPDATE does not ask for claimedAt: null.
ClaimedIgnored(r) == FALSE

AlreadyClaimed(r) == claimed[req[r].user]

SetName(r) ==
  /\ At(r, "setName")
  /\ IF AlreadyClaimed(r)
       THEN Refuse(r, "ALREADY_CLAIMED")
       ELSE HoldRow(r, req[r].user) /\ Goto(r, "takeName") /\ UNCHANGED <<keyOwner, req>>
  /\ UNCHANGED rowVars

\* Where apply() goes after the UPDATE, and after the signup bonus.
AfterBonus(r) ==
  IF req[r].inviter # None /\ req[r].bonus = "granted" THEN "lockInviter" ELSE "commit"

AfterName(r) ==
  IF req[r].bonus # "granted" THEN "commit"
  ELSE IF req[r].email THEN "takeEmail" ELSE "takeInstall"

\* A unique violation rolls back; the catch block asks whose the username is,
\* and a second one is not caught.
Violation(r) ==
  /\ Unlock(r)
  /\ IF req[r].again
       THEN Goto(r, "failed") /\ req' = [req EXCEPT ![r] = NoLocals]
       ELSE Goto(r, "whose") /\ UNCHANGED req

TakeName(r) ==
  /\ At(r, "takeName")
  /\ IF NameTaken(r)
       THEN Violation(r)
       ELSE HoldKey(r, NextKey(r)) /\ Goto(r, AfterName(r)) /\ UNCHANGED <<rowOwner, req>>
  /\ UNCHANGED rowVars

\* Mutant: BonusClaim has no unique index.
BonusIgnored(r) == FALSE

BonusTaken(r) == NextKey(r) \in bonusClaims

TakeBonus(r) ==
  /\ At(r, "takeEmail") \/ At(r, "takeInstall")
  /\ IF BonusTaken(r)
       THEN Violation(r)
       ELSE /\ HoldKey(r, NextKey(r))
            /\ Goto(r, IF pc[r] = "takeEmail" THEN "takeInstall" ELSE AfterBonus(r))
            /\ UNCHANGED <<rowOwner, req>>
  /\ UNCHANGED rowVars

Whose(r) ==
  /\ At(r, "whose")
  /\ IF NameTaken(r)
       THEN Refuse(r, "USERNAME_TAKEN")
       ELSE /\ req' = [req EXCEPT ![r].bonus = "BONUS_ALREADY_CLAIMED", ![r].again = TRUE]
            /\ Goto(r, "setName")
            /\ UNCHANGED lockVars
  /\ UNCHANGED rowVars

\* Mutant: the inviter's row is only read.
NoForUpdate(r) == UNCHANGED rowOwner

\* "One inviter's referrals in single file, so the cap holds under concurrency."
ForUpdate(r) == HoldRow(r, req[r].inviter)

LockInviter(r) ==
  /\ At(r, "lockInviter")
  /\ ForUpdate(r)
  /\ Goto(r, "count")
  /\ UNCHANGED <<rowVars, keyOwner, req>>

RewardedBy(u) == { i \in Users : referral[i] = [inviter |-> u, outcome |-> "rewarded"] }

CountReferrals(r) ==
  /\ At(r, "count")
  /\ req' = [req EXCEPT ![r].outcome =
       IF Cardinality(RewardedBy(req[r].inviter)) >= ReferralCapCount
         THEN "inviter_capped" ELSE "rewarded"]
  /\ Goto(r, "commit")
  /\ UNCHANGED <<rowVars, lockVars>>

InviterPaid(outcome) == outcome = "rewarded"

SignupAward(r) ==
  [user |-> req[r].user, key |-> SignupKey(req[r].user), amount |-> SignupBonus]

InviteeAward(r) ==
  [user |-> req[r].user, key |-> InviteeKey(req[r].user), amount |-> InviteeCredits]

InviterAward(r) ==
  [user |-> req[r].inviter, key |-> InviterKey(req[r].user), amount |-> InviterCredits]

\* The ledger rows a claim asks for; an award of 0 credits has none.
Awards(r) ==
  { e \in {SignupAward(r), InviteeAward(r), InviterAward(r)} :
      /\ e.amount > 0
      /\ e = SignupAward(r) => req[r].bonus = "granted"
      /\ e = InviteeAward(r) => req[r].inviter # None /\ req[r].outcome # "invitee_ineligible"
      /\ e = InviterAward(r) => req[r].inviter # None /\ InviterPaid(req[r].outcome) }

\* What the posts of a claim add to the balance of u.
Received(new, r, u) ==
  LET from(e) == IF e \in new /\ e.user = u THEN e.amount ELSE 0
  IN from(SignupAward(r)) + from(InviteeAward(r)) + from(InviterAward(r))

\* The posts, the Referral row and the commit.  A post to an account deleted
\* before its row was locked is refused and rolls everything back.
CommitClaim(r) ==
  LET u == req[r].user  new == { e \in Awards(r) : ~Posted(e.key) } IN
  /\ At(r, "commit")
  /\ IF \E e \in new : ~Accepts(e.user, e.amount, FALSE)
       THEN Refuse(r, "refused") /\ UNCHANGED rowVars
       ELSE /\ username' = [username EXCEPT ![u] = req[r].name]
            /\ claimed' = [claimed EXCEPT ![u] = TRUE]
            /\ bonusClaims' = bonusClaims \union { k \in BonusKeys(r) : keyOwner[k] = r }
            /\ bonusVia' = IF req[r].bonus = "granted"
                             THEN [bonusVia EXCEPT ![u] = req[r].install] ELSE bonusVia
            /\ referral' = IF req[r].inviter = None THEN referral ELSE
                 [referral EXCEPT ![u] = [inviter |-> req[r].inviter, outcome |-> req[r].outcome]]
            /\ entries' = entries \union new
            /\ balance' = [v \in Users |-> balance[v] + Received(new, r, v)]
            /\ UNCHANGED status
            /\ Reply(r, "claimed")
            /\ UNCHANGED req
-----------------------------------------------------------------------------
(* UsernameService.change *)

StartRename(r, x) ==
  /\ pc[r] \in Replies
  /\ status[x.user] # "deleted"
  /\ req' = [req EXCEPT ![r] = [NoLocals EXCEPT !.user = x.user, !.name = x.name]]
  /\ Goto(r, "checkName")
  /\ UNCHANGED <<rowVars, lockVars>>

\* The UPDATE writes the row, then the unique index; it does not ask for a status.
RenameRow(r) ==
  /\ At(r, "renameRow")
  /\ HoldRow(r, req[r].user)
  /\ Goto(r, "rename")
  /\ UNCHANGED <<rowVars, keyOwner, req>>

Rename(r) ==
  /\ At(r, "rename")
  /\ IF NameTaken(r)
       THEN Refuse(r, "USERNAME_TAKEN") /\ UNCHANGED username
       ELSE Refuse(r, "renamed") /\ username' = [username EXCEPT ![req[r].user] = req[r].name]
  /\ UNCHANGED <<bookVars, claimed, bonusClaims, referral, bonusVia>>
-----------------------------------------------------------------------------
(* AccountDeletionService.deleteAccount; UserTokens has what it does to sessions *)

StartDelete(r, u) ==
  /\ pc[r] \in Replies
  /\ u \in Managed /\ status[u] # "deleted"
  /\ req' = [req EXCEPT ![r] = [NoLocals EXCEPT !.user = u]]
  /\ Goto(r, "readAccount")
  /\ UNCHANGED <<rowVars, lockVars>>

\* Read without a lock.
ReadAccount(r) ==
  LET u == req[r].user IN
  /\ At(r, "readAccount")
  /\ IF status[u] = "deleted"
       THEN Refuse(r, "refused")
       ELSE /\ req' = [req EXCEPT ![r].seen = balance[u]]
            /\ Goto(r, IF balance[u] > 0 THEN "forfeit" ELSE "erase")
            /\ UNCHANGED lockVars
  /\ UNCHANGED rowVars

Forfeit(r) ==
  LET u == req[r].user IN
  /\ At(r, "forfeit")
  /\ IF Accepts(u, -req[r].seen, FALSE)
       THEN HoldRow(r, u) /\ Goto(r, "erase") /\ UNCHANGED <<keyOwner, req>>
       ELSE Refuse(r, "refused")
  /\ UNCHANGED rowVars

Erase(r) ==
  LET u == req[r].user IN
  /\ At(r, "erase")
  /\ status' = [status EXCEPT ![u] = "deleted"]
  /\ balance' = [balance EXCEPT ![u] = @ - req[r].seen]
  /\ entries' = IF req[r].seen = 0 THEN entries ELSE
       entries \union {[user |-> u, key |-> DeletedKey(u), amount |-> -req[r].seen]}
  /\ username' = [username EXCEPT ![u] = None]
  /\ Refuse(r, "gone")
  /\ UNCHANGED <<claimed, bonusClaims, referral, bonusVia>>
-----------------------------------------------------------------------------
(* Postgres, the connection and the rest of the server *)

\* Requests that wait for one another in a ring: Postgres aborts one of them.
Deadlock(r) ==
  /\ \E ring \in SUBSET Requests : r \in ring /\ { Blocker(q) : q \in ring } = ring
  /\ Refuse(r, "failed")
  /\ UNCHANGED rowVars

\* The process or its connection dies: an open transaction rolls back.
Cut(r) ==
  /\ pc[r] \notin Replies
  /\ Refuse(r, "idle")
  /\ UNCHANGED rowVars

OtherPost(p) ==
  /\ rowOwner[p.user] = Nobody
  /\ Post(p.user, p.key, p.amount, FALSE)
  /\ UNCHANGED <<username, claimed, bonusClaims, referral, bonusVia, lockVars, pc, req>>

MoveAccount(u) ==
  /\ u \in Managed /\ rowOwner[u] = Nobody
  /\ Suspend(u) \/ Unsuspend(u)
  /\ UNCHANGED <<username, claimed, bonusClaims, referral, bonusVia, lockVars, pc, req>>

Step(r) ==
  \/ ReadUser(r) \/ CheckName(r) \/ FindInviter(r) \/ Eligibility(r)
  \/ SetName(r) \/ TakeName(r) \/ TakeBonus(r) \/ Whose(r) \/ LockInviter(r)
  \/ CountReferrals(r) \/ CommitClaim(r)
  \/ RenameRow(r) \/ Rename(r)
  \/ ReadAccount(r) \/ Forfeit(r) \/ Erase(r)

AccountsNext ==
  \/ \E r \in Requests : \/ \E c \in ClaimInputs : StartClaim(r, c)
                         \/ \E x \in RenameInputs : StartRename(r, x)
                         \/ \E u \in Users : StartDelete(r, u)
                         \/ Step(r) \/ Deadlock(r) \/ Cut(r)
  \/ \E p \in OtherPosts : OtherPost(p)
  \/ \E u \in Users : MoveAccount(u)

AccountsSpec == AccountsInit /\ [][AccountsNext]_vars

\* Node goes on, Postgres serves those that wait in order and finds deadlocks.
FairAccountsSpec ==
  /\ AccountsSpec
  /\ \A r \in Requests : SF_vars(Step(r))
  /\ WF_vars(\E r \in Requests : Deadlock(r))
-----------------------------------------------------------------------------
(* What the rows of accounts stand for *)

Mailboxes == { EmailOf[u] : u \in { v \in Users : EmailKey(v) \in bonusClaims } }

Register == INSTANCE Enrolment WITH
  Cap <- ReferralCapCount,
  claimed <- { u \in Users : claimed[u] },
  name <- username,
  mailboxes <- Mailboxes,
  installs <- { i \in Installs : InstallKey(i) \in bonusClaims },
  bonuses <- { u \in Users : Posted(SignupKey(u)) },
  inviterOf <- [u \in Users |-> referral[u].inviter],
  invited <- { u \in Users : Posted(InviteeKey(u)) },
  rewarded <- { u \in Users : Posted(InviterKey(u)) }

\* Claims, changes of names and deletions, of which each reads, locks and writes in
\* many statements, look like claims, changes and deletions made one at a time: a
\* bonus, a name and a place under the cap are given on what is true when they are.
EnrolmentSpec == Register!Spec
-----------------------------------------------------------------------------
InTransaction == {"takeName", "takeEmail", "takeInstall", "lockInviter", "count", "commit", "rename", "erase"}

\* Every variable holds a value the code can store, and only an open transaction
\* holds rows and keys; a username is of one account.
AccountsTypeOK ==
  /\ status \in [Users -> Statuses] /\ balance \in [Users -> Nat]
  /\ entries \subseteq [user : Users, key : Keys, amount : Int]
  /\ username \in [Users -> Names \union {None}]
  /\ \A u, v \in Users : username[u] = username[v] => u = v \/ username[u] = None
  /\ claimed \in [Users -> BOOLEAN]
  /\ bonusClaims \subseteq UniqueKeys
  /\ referral \in [Users -> [inviter : Users \union {None},
                            outcome : {"none", "rewarded", "inviter_capped", "invitee_ineligible"}]]
  /\ rowOwner \in [Users -> Requests \union {Nobody}]
  /\ keyOwner \in [UniqueKeys -> Requests \union {Nobody}]
  /\ \A u \in Users : rowOwner[u] # Nobody => pc[rowOwner[u]] \in InTransaction
  /\ \A k \in UniqueKeys : keyOwner[k] # Nobody => pc[keyOwner[k]] \in InTransaction

\* "The bonus is once per verified email and once per install", and stays so when
\* accounts are deleted and made again.
BonusOncePerIdentity ==
  \A u, v \in Users : bonusVia[u] # None /\ bonusVia[v] # None /\ u # v =>
    EmailOf[u] # EmailOf[v] /\ bonusVia[u] # bonusVia[v]

\* "The cap holds under concurrency": no inviter is paid for more invitees than
\* the cap, however many of them claim at once, and the ones paid for are those
\* whose Referral row says so.
ReferralCapHolds ==
  \A i \in Users :
    LET paid == {u \in Users : [user |-> i, key |-> InviterKey(u), amount |-> InviterCredits] \in entries}
    IN paid = RewardedBy(i) /\ Cardinality(paid) <= ReferralCapCount

\* What a claim answers about the bonus is what the ledger has, also when two
\* claims of one account, or a claim and a repetition of it, overlap.
ClaimAnswersAreTrue ==
  \A r \in Requests : pc[r] = "claimed" =>
    /\ claimed[req[r].user]
    /\ Posted(SignupKey(req[r].user)) <=> req[r].bonus = "granted"

\* Every claim, change and deletion is answered: locks are released on every way
\* out, and two claims that name each other's account as inviter do not wait for ever.
RequestsEnd == \A r \in Requests : pc[r] \notin Replies ~> pc[r] \in Replies

\* "Erases personal data and forfeits the balance, in one transaction": a deleted
\* account has no credits and no username.
DeletedIsEmpty ==
  \A u \in Users : status[u] = "deleted" => balance[u] = 0 /\ username[u] = None
=============================================================================
