-------------------------------- MODULE SignIn --------------------------------
(***************************************************************************)
(* Signing in (src/src/modules/accounts/accounts.service.ts): an emailed   *)
(* code or a Google account finds its account, links it or creates it,     *)
(* while other installs sign in and accounts are erased.  Each statement   *)
(* is a step; the unique indexes on email and googleSub make one that      *)
(* would break them fail as a whole.  Codes has the codes and the limiter, *)
(* UserTokens the sessions.  All come from one IP address on one day.      *)
(***************************************************************************)
EXTENDS Naturals, FiniteSets, Absent

CONSTANTS Callers,       \* installs; each signs in again and again
          Proofs,        \* [email, sub]: what a code (sub = None) or an ID token proves
          LastAccount,   \* bound: accounts are numbered 1 to this, as they are made
          IpLimit        \* ipSignupLimitPer24h

VARIABLES
  email, sub,      \* User.email and User.googleSub
  made,            \* how many User rows there are
  limited,         \* accounts with signupIpLimited
  erased,          \* accounts that deleteAccount has erased
  install,         \* Device.userId of each caller
  fromIp,          \* the counter signup:ip
  visit,           \* each caller: its step, its proof and its variables
  told             \* history: how often an account was answered as a new one

signInVars == <<email, sub, made, limited, erased, install, fromIp, visit, told>>

Accounts == 1..LastAccount
Emails == {p.email : p \in Proofs}
Subs == {p.sub : p \in Proofs} \ {None}

\* Every proof has an email; an account is a number.
ASSUME SignInAssumption ==
  /\ LastAccount \in Nat /\ IpLimit \in Nat
  /\ None \notin Accounts /\ None \notin Emails

Away == [at |-> "idle", proof |-> None, account |-> None, isNew |-> FALSE, count |-> 0, attempt |-> 0]

SignInInit ==
  /\ email = [a \in Accounts |-> None] /\ sub = [a \in Accounts |-> None]
  /\ made = 0 /\ limited = {} /\ erased = {}
  /\ install = [c \in Callers |-> None] /\ fromIp = 0
  /\ visit = [c \in Callers |-> Away]
  /\ told = [a \in Accounts |-> 0]

-----------------------------------------------------------------------------
users == <<email, sub, made, limited, erased>>
rest == <<install, told>>

At(c, step) == visit[c].at = step

GoOn(c, step) == visit' = [visit EXCEPT ![c].at = step]

Reply(c) == visit' = [visit EXCEPT ![c] = Away]

With(c, a, isNew) ==
  visit' = [visit EXCEPT ![c] = [Away EXCEPT !.at = "finish", !.account = a, !.isNew = isNew]]

Email(c) == visit[c].proof.email
Sub(c) == visit[c].proof.sub

HasEmail(e) == {a \in Accounts : email[a] = e}
HasSub(s) == {a \in Accounts : sub[a] = s /\ s # None}

\* The install, the code or the ID token and the email's domain have passed.
StartSignIn(c, p) ==
  /\ At(c, "idle")
  /\ visit' = [visit EXCEPT ![c] =
       [Away EXCEPT !.at = IF p.sub = None THEN "byEmail" ELSE "bySub", !.proof = p]]
  /\ UNCHANGED <<users, rest, fromIp>>

BySub(c) ==
  /\ At(c, "bySub")
  /\ \/ \E a \in HasSub(Sub(c)) : With(c, a, FALSE)
     \/ HasSub(Sub(c)) = {} /\ GoOn(c, "byEmail")
  /\ UNCHANGED <<users, rest, fromIp>>

\* A code signs in to the account it finds; Google links it, unless it is linked
\* to a different Google account.
ByEmail(c) ==
  /\ At(c, "byEmail")
  /\ \/ HasEmail(Email(c)) = {} /\ GoOn(c, "count")
     \/ \E a \in HasEmail(Email(c)) :
          \/ Sub(c) = None /\ With(c, a, FALSE)
          \/ /\ Sub(c) # None /\ sub[a] \in {None, Sub(c)}
             /\ visit' = [visit EXCEPT ![c].at = "link", ![c].account = a]
          \/ Sub(c) # None /\ sub[a] \notin {None, Sub(c)} /\ Reply(c)
  /\ UNCHANGED <<users, rest, fromIp>>

\* By id: whatever has become of the row since it was read.
Link(c) ==
  LET a == visit[c].account IN
  /\ At(c, "link")
  /\ IF HasSub(Sub(c)) \subseteq {a}
       THEN sub' = [sub EXCEPT ![a] = Sub(c)] /\ With(c, a, FALSE)
       ELSE Reply(c) /\ UNCHANGED sub
  /\ UNCHANGED <<email, made, limited, erased, rest, fromIp>>

-----------------------------------------------------------------------------
IsLimited(count) == count > IpLimit

\* create: the settings and the count of sign-ups from this IP, then three tries.
\* One count above the limit is like another: the counter stops there.
CountIp(c) ==
  /\ At(c, "count")
  /\ fromIp' = IF IsLimited(fromIp) THEN fromIp ELSE fromIp + 1
  /\ visit' = [visit EXCEPT ![c].at = "insert", ![c].count = fromIp']
  /\ UNCHANGED <<users, rest>>

Registered(c) == HasEmail(Email(c)) # {} \/ HasSub(Sub(c)) # {}

Insert(c) ==
  LET a == made + 1 IN
  /\ At(c, "insert") /\ ~Registered(c)
  /\ a \in Accounts
  /\ made' = a
  /\ email' = [email EXCEPT ![a] = Email(c)]
  /\ sub' = [sub EXCEPT ![a] = Sub(c)]
  /\ limited' = IF IsLimited(visit[c].count) THEN limited \union {a} ELSE limited
  /\ With(c, a, TRUE)
  /\ UNCHANGED <<erased, rest, fromIp>>

\* A unique violation: of the email, of the Google account or of the referral
\* code that was drawn.
InsertFails(c) ==
  /\ At(c, "insert")
  /\ GoOn(c, "findAgain")
  /\ UNCHANGED <<users, rest, fromIp>>

\* Mutant: whoever comes out of create() has a new account.
ParallelIsNew(c, a) == With(c, a, TRUE)

\* "a parallel sign-in just created this account"
Parallel(c, a) == With(c, a, FALSE)

FindAgain(c) ==
  /\ At(c, "findAgain")
  /\ \/ \E a \in HasEmail(Email(c)) : Parallel(c, a)
     \/ /\ HasEmail(Email(c)) = {}
        /\ IF visit[c].attempt = 2 THEN Reply(c)
           ELSE visit' = [visit EXCEPT ![c].at = "insert", ![c].attempt = @ + 1]
  /\ UNCHANGED <<users, rest, fromIp>>

-----------------------------------------------------------------------------
\* finish: the install is the account's, a session starts, the answer goes out.
LinkInstall(c) ==
  /\ At(c, "finish")
  /\ install' = [install EXCEPT ![c] = visit[c].account]
  /\ GoOn(c, "session")
  /\ UNCHANGED <<users, fromIp, told>>

SignedIn(c) ==
  /\ At(c, "session")
  /\ told' = IF visit[c].isNew THEN [told EXCEPT ![visit[c].account] = @ + 1] ELSE told
  /\ Reply(c)
  /\ UNCHANGED <<users, install, fromIp>>

\* The process dies, or a statement fails for good.
CutOff(c) ==
  /\ ~At(c, "idle")
  /\ Reply(c)
  /\ UNCHANGED <<users, rest, fromIp>>

\* deleteAccount, as one transaction.
EraseAccount(a) ==
  /\ a <= made /\ a \notin erased
  /\ erased' = erased \union {a}
  /\ email' = [email EXCEPT ![a] = None] /\ sub' = [sub EXCEPT ![a] = None]
  /\ install' = [c \in Callers |-> IF install[c] = a THEN None ELSE install[c]]
  /\ UNCHANGED <<made, limited, fromIp, visit, told>>

SignInNext ==
  \/ \E c \in Callers :
       \/ \E p \in Proofs : StartSignIn(c, p)
       \/ BySub(c) \/ ByEmail(c) \/ Link(c)
       \/ CountIp(c) \/ Insert(c) \/ InsertFails(c) \/ FindAgain(c)
       \/ LinkInstall(c) \/ SignedIn(c) \/ CutOff(c)
  \/ \E a \in Accounts : EraseAccount(a)

SignInSpec == SignInInit /\ [][SignInNext]_signInVars

-----------------------------------------------------------------------------
\* The types, and the unique indexes.
SignInTypeOK ==
  /\ email \in [Accounts -> Emails \union {None}] /\ sub \in [Accounts -> Subs \union {None}]
  /\ made \in 0..LastAccount /\ limited \union erased \subseteq 1..made
  /\ \A e \in Emails : Cardinality(HasEmail(e)) <= 1
  /\ \A s \in Subs : Cardinality(HasSub(s)) <= 1
  /\ install \in [Callers -> 1..made \union {None}] /\ fromIp \in 0..IpLimit + 1
  /\ \A c \in Callers :
       /\ visit[c].at \in {"idle", "bySub", "byEmail", "link", "count", "insert", "findAgain",
                           "finish", "session"}
       /\ visit[c].at \in {"link", "finish", "session"} => visit[c].account \in 1..made

\* However sign-ins of one person race, one of them is told that the account is
\* new, and of the accounts that come from one address in a day no more than
\* IpLimit may earn the signup bonus, whoever counts first and inserts last.
FirstSignIns ==
  /\ \A a \in Accounts : told[a] <= 1
  /\ Cardinality((1..made) \ limited) <= IpLimit
=============================================================================
