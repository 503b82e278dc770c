------------------------------- MODULE AppProofs -------------------------------
(***************************************************************************)
(* Proofs about what the app meets, each part for any values of its        *)
(* constants: SignIn (an account is new once, and the sign-ups of one      *)
(* address stay within their limit), Push (a message reaches every install *)
(* once) and Catalog (edits show at once).  The parts share no variable.   *)
(***************************************************************************)
EXTENDS SignIn, Push, Catalog, FiniteSetTheorems, WellFoundedInduction, TLAPS

-----------------------------------------------------------------------------
(* SignIn: the invariant *)

Visits ==
  [at : {"idle", "bySub", "byEmail", "link", "count", "insert", "findAgain", "finish", "session"},
   proof : Proofs \union {None}, account : Accounts \union {None}, isNew : BOOLEAN,
   count : 0..(IpLimit + 1), attempt : 0..2]

Rows ==
  /\ email \in [Accounts -> Emails \union {None}] /\ sub \in [Accounts -> Subs \union {None}]
  /\ made \in 0..LastAccount /\ limited \subseteq 1..made /\ erased \subseteq 1..made
  /\ install \in [Callers -> 1..made \union {None}] /\ fromIp \in 0..(IpLimit + 1)

\* A number that no account has yet is on no row; the indexes are unique.
Unique ==
  /\ \A a \in Accounts : a > made => email[a] = None /\ sub[a] = None
  /\ \A a, b \in Accounts :
       (email[a] = email[b] /\ email[a] # None) \/ (sub[a] = sub[b] /\ sub[a] # None) => a = b

\* What a visit's step says of it.
Visiting ==
  /\ visit \in [Callers -> Visits]
  /\ \A c \in Callers :
       /\ visit[c].at \notin {"idle", "finish", "session"} => visit[c].proof \in Proofs
       /\ visit[c].at \in {"link", "finish", "session"} => visit[c].account \in 1..made
       /\ visit[c].isNew => visit[c].at \in {"finish", "session"}

\* A new account is one visit's, which has still to tell it, or has told it.
NewOnce ==
  /\ told \in [Accounts -> 0..1]
  /\ \A a \in Accounts : a > made => told[a] = 0
  /\ \A c \in Callers : visit[c].isNew => told[visit[c].account] = 0
  /\ \A c, d \in Callers :
       visit[c].isNew /\ visit[d].isNew /\ visit[c].account = visit[d].account => c = d

\* Whose number was within the limit: visits that may still insert, and accounts.
Counted == {c \in Callers : visit[c].at \in {"insert", "findAgain"} /\ visit[c].count <= IpLimit}
Earning == (1..made) \ limited

WithinLimit ==
  /\ IsFiniteSet(Counted)
  /\ Cardinality(Earning) + Cardinality(Counted) <= fromIp
  /\ Cardinality(Earning) + Cardinality(Counted) <= IpLimit

SignInInv == Rows /\ Unique /\ Visiting /\ NewOnce /\ WithinLimit

-----------------------------------------------------------------------------
(* SignIn: the steps *)

LEMMA SignInStarts ==
  ASSUME SignInInit
  PROVE  SignInInv
<1> USE SignInAssumption DEF SignInInit, Away, Accounts
<1>1. Rows /\ Unique
  BY DEF Rows, Unique
<1>2. Visiting /\ NewOnce
  BY DEF Visiting, Visits, NewOnce
<1>3. WithinLimit
  <2>1. Counted = {} /\ Earning = {}
    BY DEF Counted, Earning
  <2> QED BY <2>1, FS_EmptySet DEF WithinLimit
<1> QED BY <1>1, <1>2, <1>3 DEF SignInInv

\* A visit that ends, goes on or finds an account, of which the rows see nothing.
LEMMA VisitMoves ==
  ASSUME SignInInv, NEW c \in Callers, NEW v \in Visits, visit' = [visit EXCEPT ![c] = v],
         v.at \notin {"idle", "finish", "session"} => v.proof \in Proofs,
         v.at \in {"link", "finish", "session"} => v.account \in 1..made,
         v.isNew => v.at \in {"finish", "session"},
         made' >= made, made' \in Nat
  PROVE  Visiting'
<1>1. visit' \in [Callers -> Visits]
  BY DEF SignInInv, Visiting
<1>2. made \in Nat
  BY SignInAssumption DEF SignInInv, Rows
<1> QED BY <1>1, <1>2 DEF SignInInv, Visiting

\* The rows, the indexes and the steps of the visits.
LEMMA StepKeepsRows ==
  ASSUME SignInInv, SignInNext
  PROVE  Rows' /\ Unique' /\ Visiting'
<1> USE DEF SignInInv, users, rest, At
<1>0. /\ LastAccount \in Nat /\ IpLimit \in Nat /\ None \notin Accounts /\ None \notin Emails
      /\ made \in Nat /\ 1..made \subseteq Accounts
  BY SignInAssumption DEF Rows, Accounts
<1>away. Away \in Visits /\ ~Away.isNew
  BY <1>0 DEF Away, Visits, Accounts
<1>1. ASSUME NEW c \in Callers, UNCHANGED <<users, install>>, fromIp' \in 0..(IpLimit + 1),
             NEW v \in Visits, visit' = [visit EXCEPT ![c] = v],
             v.at \notin {"idle", "finish", "session"} => v.proof \in Proofs,
             v.at \in {"link", "finish", "session"} => v.account \in 1..made,
             v.isNew => v.at \in {"finish", "session"}
      PROVE  Rows' /\ Unique' /\ Visiting'
  <2>1. Rows' /\ Unique'
    BY <1>1 DEF Rows, Unique
  <2>2. made' \in Nat /\ made' >= made
    BY <1>0, <1>1
  <2>3. Visiting'
    BY <1>1, <2>2, VisitMoves
  <2> QED BY <2>1, <2>3
<1>typed. \A c \in Callers : visit[c] \in Visits
  BY DEF Visiting
<1>same. fromIp \in 0..(IpLimit + 1)
  BY DEF Rows
<1>ends. ASSUME NEW c \in Callers, Reply(c), UNCHANGED <<users, install, fromIp>>
         PROVE  Rows' /\ Unique' /\ Visiting'
  BY <1>ends, <1>1, <1>away, <1>same DEF Reply, Away
<1>2. ASSUME NEW c \in Callers, NEW p \in Proofs, StartSignIn(c, p) PROVE Rows' /\ Unique' /\ Visiting'
  <2> DEFINE v == [Away EXCEPT !.at = IF p.sub = None THEN "byEmail" ELSE "bySub", !.proof = p]
  <2>1. v \in Visits /\ v.proof = p /\ v.at \in {"byEmail", "bySub"} /\ ~v.isNew
    BY <1>away DEF Visits
  <2>2. visit' = [visit EXCEPT ![c] = v] /\ UNCHANGED <<users, install, fromIp>>
    BY <1>2 DEF StartSignIn
  <2> HIDE DEF v
  <2> QED BY <2>1, <2>2, <1>1, <1>same
<1>goes. ASSUME NEW c \in Callers, visit[c].at \notin {"idle", "finish", "session"},
                NEW v, v \in Visits, v.proof = visit[c].proof, v.isNew = visit[c].isNew,
                v.at \in {"byEmail", "link", "count", "insert", "findAgain"},
                v.at = "link" => v.account \in 1..made,
                visit' = [visit EXCEPT ![c] = v],
                UNCHANGED <<users, install>>, fromIp' \in 0..(IpLimit + 1)
         PROVE  Rows' /\ Unique' /\ Visiting'
  <2>1. visit[c].proof \in Proofs /\ ~visit[c].isNew
    BY <1>goes DEF Visiting
  <2> QED BY <2>1, <1>goes, <1>1
<1>finds. ASSUME NEW c \in Callers, NEW a \in 1..made, With(c, a, FALSE), UNCHANGED <<users, install, fromIp>>
          PROVE  Rows' /\ Unique' /\ Visiting'
  <2> DEFINE v == [Away EXCEPT !.at = "finish", !.account = a, !.isNew = FALSE]
  <2>1. v \in Visits /\ v.at = "finish" /\ v.account = a /\ ~v.isNew
    BY <1>away, <1>0, <1>finds DEF Visits
  <2>2. visit' = [visit EXCEPT ![c] = v]
    BY <1>finds DEF With
  <2> HIDE DEF v
  <2> QED BY <2>1, <2>2, <1>1, <1>same, <1>finds
<1>found. \A e \in Emails : HasEmail(e) \subseteq 1..made
  BY <1>0 DEF HasEmail, Rows, Unique, Accounts
<1>linked. \A s : HasSub(s) \subseteq 1..made
  BY <1>0 DEF HasSub, Rows, Unique, Accounts
<1>email. ASSUME NEW c \in Callers, visit[c].proof \in Proofs
          PROVE  Email(c) \in Emails /\ Sub(c) \in Subs \union {None}
  BY <1>email DEF Email, Sub, Emails, Subs
<1>3. ASSUME NEW c \in Callers, BySub(c) PROVE Rows' /\ Unique' /\ Visiting'
  <2>1. CASE \E a \in HasSub(Sub(c)) : With(c, a, FALSE)
    BY <2>1, <1>3, <1>finds, <1>linked DEF BySub
  <2>2. CASE GoOn(c, "byEmail")
    <3>1. [visit[c] EXCEPT !.at = "byEmail"] \in Visits
      BY <1>typed DEF Visits
    <3> QED BY <3>1, <2>2, <1>3, <1>goes, <1>typed, <1>same DEF BySub, GoOn, Visits
  <2> QED BY <2>1, <2>2, <1>3 DEF BySub
<1>4. ASSUME NEW c \in Callers, ByEmail(c) PROVE Rows' /\ Unique' /\ Visiting'
  <2>1. visit[c].proof \in Proofs /\ visit[c] \in Visits /\ UNCHANGED <<users, install, fromIp>>
    BY <1>4 DEF ByEmail, Visiting
  <2>2. CASE GoOn(c, "count")
    <3>1. [visit[c] EXCEPT !.at = "count"] \in Visits
      BY <2>1 DEF Visits
    <3> QED BY <3>1, <2>1, <2>2, <1>4, <1>goes, <1>same DEF ByEmail, GoOn, Visits
  <2>3. ASSUME NEW a \in HasEmail(Email(c)), With(c, a, FALSE) PROVE Rows' /\ Unique' /\ Visiting'
    BY <2>1, <2>3, <1>finds, <1>found, <1>email
  <2>4. ASSUME NEW a \in HasEmail(Email(c)), visit' = [visit EXCEPT ![c].at = "link", ![c].account = a]
        PROVE  Rows' /\ Unique' /\ Visiting'
    <3>1. a \in 1..made
      BY <2>1, <1>found, <1>email
    <3> DEFINE v == [visit[c] EXCEPT !.at = "link", !.account = a]
    <3>2. v \in Visits /\ v.at = "link" /\ v.account = a /\ v.proof = visit[c].proof /\ v.isNew = visit[c].isNew
      BY <2>1, <3>1, <1>0 DEF Visits
    <3>3. visit' = [visit EXCEPT ![c] = v]
      BY <2>1, <2>4 DEF Visiting
    <3> HIDE DEF v
    <3> QED BY <3>1, <3>2, <3>3, <2>1, <1>4, <1>goes, <1>same DEF ByEmail
  <2>5. CASE Reply(c)
    BY <2>1, <2>5, <1>ends
  <2> QED BY <2>2, <2>3, <2>4, <2>5, <1>4 DEF ByEmail
<1>5. ASSUME NEW c \in Callers, Link(c) PROVE Rows' /\ Unique' /\ Visiting'
  <2> DEFINE a == visit[c].account
  <2>1. /\ a \in 1..made /\ a \in Accounts /\ Sub(c) \in Subs \union {None}
        /\ UNCHANGED <<email, made, limited, erased, install, fromIp>>
    BY <1>0, <1>5, <1>email DEF Link, Visiting
  <2> HIDE DEF a
  <2>2. CASE HasSub(Sub(c)) \subseteq {a}
    <3>1. sub' = [sub EXCEPT ![a] = Sub(c)] /\ With(c, a, FALSE)
      BY <1>5, <2>2 DEF Link, a
    <3>2. Rows'
      BY <2>1, <3>1 DEF Rows
    <3>3. Unique'
      BY <2>1, <2>2, <3>1, <1>0 DEF Rows, Unique, HasSub
    <3> DEFINE v == [Away EXCEPT !.at = "finish", !.account = a, !.isNew = FALSE]
    <3>4. v \in Visits /\ v.at = "finish" /\ v.account = a /\ ~v.isNew
      BY <2>1, <1>away DEF Visits
    <3>5. visit' = [visit EXCEPT ![c] = v]
      BY <3>1 DEF With
    <3> HIDE DEF v
    <3>6. made' \in Nat /\ made' >= made
      BY <2>1, <1>0
    <3>7. Visiting'
      BY <2>1, <3>4, <3>5, <3>6, VisitMoves
    <3> QED BY <3>2, <3>3, <3>7
  <2>3. CASE ~(HasSub(Sub(c)) \subseteq {a})
    BY <1>5, <1>ends, <2>1, <2>3 DEF Link, a
  <2> QED BY <2>2, <2>3
<1>6. ASSUME NEW c \in Callers, CountIp(c) PROVE Rows' /\ Unique' /\ Visiting'
  <2>1. fromIp' \in 0..(IpLimit + 1)
    BY <1>0, <1>6, <1>same DEF CountIp, IsLimited
  <2> DEFINE v == [visit[c] EXCEPT !.at = "insert", !.count = fromIp']
  <2>2. v \in Visits /\ v.at = "insert" /\ v.proof = visit[c].proof /\ v.isNew = visit[c].isNew
    BY <1>typed, <2>1 DEF Visits
  <2>3. visit' = [visit EXCEPT ![c] = v] /\ visit[c].at = "count" /\ UNCHANGED <<users, install>>
    BY <1>6 DEF CountIp, Visiting
  <2> HIDE DEF v
  <2> QED BY <2>1, <2>2, <2>3, <1>goes
<1>7. ASSUME NEW c \in Callers, Insert(c) PROVE Rows' /\ Unique' /\ Visiting'
  <2>1. /\ made' = made + 1 /\ made' \in Accounts /\ UNCHANGED <<erased, install, fromIp>>
        /\ email' = [email EXCEPT ![made + 1] = Email(c)] /\ sub' = [sub EXCEPT ![made + 1] = Sub(c)]
        /\ limited' \in {limited, limited \union {made + 1}}
        /\ With(c, made + 1, TRUE)
    BY <1>7 DEF Insert
  <2>2. /\ Email(c) \in Emails /\ Sub(c) \in Subs \union {None}
        /\ HasEmail(Email(c)) = {} /\ HasSub(Sub(c)) = {}
    BY <1>7, <1>email DEF Insert, Visiting, Registered
  <2>3. Rows'
    BY <1>0, <2>1, <2>2 DEF Rows, Accounts
  <2>4. Unique'
    <3>1. made + 1 \in Accounts /\ Email(c) # None /\ \A a \in Accounts : a > made' => a > made /\ a # made + 1
      BY <1>0, <2>1, <2>2 DEF Accounts
    <3>2. ASSUME NEW a \in Accounts, a > made' PROVE email'[a] = None /\ sub'[a] = None
      BY <3>1, <3>2, <2>1 DEF Rows, Unique
    <3>3. ASSUME NEW a \in Accounts, NEW b \in Accounts, email'[a] = email'[b], email'[a] # None PROVE a = b
      BY <3>1, <3>3, <2>1, <2>2 DEF Rows, Unique, HasEmail
    <3>4. ASSUME NEW a \in Accounts, NEW b \in Accounts, sub'[a] = sub'[b], sub'[a] # None PROVE a = b
      BY <3>1, <3>4, <2>1, <2>2 DEF Rows, Unique, HasSub
    <3> QED BY <3>2, <3>3, <3>4 DEF Unique
  <2> DEFINE v == [Away EXCEPT !.at = "finish", !.account = made + 1, !.isNew = TRUE]
  <2>5. v \in Visits /\ v.at = "finish" /\ v.account = made + 1
    BY <2>1, <1>away DEF Visits
  <2>6. visit' = [visit EXCEPT ![c] = v]
    BY <2>1 DEF With
  <2>7. Visiting'
    <3>1. visit' \in [Callers -> Visits]
      BY <2>5, <2>6 DEF Visiting
    <3> QED BY <1>0, <2>1, <2>5, <2>6, <3>1 DEF Visiting
  <2> QED BY <2>3, <2>4, <2>7
<1>8. ASSUME NEW c \in Callers, InsertFails(c) PROVE Rows' /\ Unique' /\ Visiting'
  <2>1. [visit[c] EXCEPT !.at = "findAgain"] \in Visits
    BY <1>typed DEF Visits
  <2> QED BY <2>1, <1>8, <1>goes, <1>typed, <1>same DEF InsertFails, GoOn, Visits
<1>9. ASSUME NEW c \in Callers, FindAgain(c) PROVE Rows' /\ Unique' /\ Visiting'
  <2>1. /\ visit[c].proof \in Proofs /\ visit[c] \in Visits /\ visit[c].at = "findAgain"
        /\ UNCHANGED <<users, install, fromIp>>
    BY <1>9 DEF FindAgain, Visiting
  <2>2. ASSUME NEW a \in HasEmail(Email(c)), Parallel(c, a) PROVE Rows' /\ Unique' /\ Visiting'
    BY <2>1, <2>2, <1>finds, <1>found, <1>email DEF Parallel
  <2>3. CASE Reply(c)
    BY <2>1, <2>3, <1>ends
  <2>4. CASE visit[c].attempt # 2 /\ visit' = [visit EXCEPT ![c].at = "insert", ![c].attempt = @ + 1]
    <3> DEFINE v == [visit[c] EXCEPT !.at = "insert", !.attempt = visit[c].attempt + 1]
    <3>0. visit[c].attempt + 1 \in 0..2
      BY <2>1, <2>4 DEF Visits
    <3>1. v \in Visits /\ v.at = "insert" /\ v.proof = visit[c].proof /\ v.isNew = visit[c].isNew
      BY <3>0, <2>1 DEF Visits
    <3>2. visit' = [visit EXCEPT ![c] = v]
      BY <2>1, <2>4 DEF Visiting
    <3> HIDE DEF v
    <3> QED BY <2>1, <3>1, <3>2, <1>goes, <1>same
  <2> QED BY <2>2, <2>3, <2>4, <1>9 DEF FindAgain
<1>10. ASSUME NEW c \in Callers, LinkInstall(c) PROVE Rows' /\ Unique' /\ Visiting'
  <2>1. /\ visit[c] \in Visits /\ visit[c].account \in 1..made /\ visit[c].at = "finish"
        /\ UNCHANGED <<users, fromIp>> /\ install' = [install EXCEPT ![c] = visit[c].account]
    BY <1>10 DEF LinkInstall, Visiting
  <2>2. Rows' /\ Unique'
    BY <2>1 DEF Rows, Unique
  <2> DEFINE v == [visit[c] EXCEPT !.at = "session"]
  <2>3. v \in Visits /\ v.at = "session" /\ v.account = visit[c].account
    BY <2>1 DEF Visits
  <2>4. visit' = [visit EXCEPT ![c] = v]
    BY <1>10 DEF LinkInstall, GoOn, Visiting
  <2> HIDE DEF v
  <2>5. made' \in Nat /\ made' >= made
    BY <2>1, <1>0
  <2>6. Visiting'
    BY <2>1, <2>3, <2>4, <2>5, VisitMoves
  <2> QED BY <2>2, <2>6
<1>11. ASSUME NEW c \in Callers, SignedIn(c) \/ CutOff(c) PROVE Rows' /\ Unique' /\ Visiting'
  BY <1>11, <1>ends DEF SignedIn, CutOff
<1>12. ASSUME NEW a \in Accounts, EraseAccount(a) PROVE Rows' /\ Unique' /\ Visiting'
  <2>1. Rows' /\ Unique'
    BY <1>0, <1>12 DEF EraseAccount, Rows, Unique, Accounts
  <2>2. Visiting'
    BY <1>12 DEF EraseAccount, Visiting
  <2> QED BY <2>1, <2>2
<1> QED
  BY <1>2, <1>3, <1>4, <1>5, <1>6, <1>7, <1>8, <1>9, <1>10, <1>11, <1>12 DEF SignInNext

\* Of the other steps: a visit may lose its new account and its number, not gain one.
LEMMA QuietSteps ==
  ASSUME SignInInv, NEW c \in Callers,
         \/ \E p \in Proofs : StartSignIn(c, p)
         \/ BySub(c) \/ ByEmail(c) \/ Link(c) \/ InsertFails(c) \/ FindAgain(c)
         \/ LinkInstall(c) \/ CutOff(c)
  PROVE  /\ UNCHANGED <<told, made, limited, fromIp>>
         /\ \A d \in Callers : visit'[d].isNew => visit[d].isNew /\ visit'[d].account = visit[d].account
         /\ Counted' \subseteq Counted
<1>1. visit \in [Callers -> Visits] /\ (visit[c].isNew => visit[c].at \in {"finish", "session"})
  BY DEF SignInInv, Visiting
<1> USE DEF users, rest, At, GoOn, Reply, With, Away
<1>2. UNCHANGED <<told, made, limited, fromIp>>
  BY DEF StartSignIn, BySub, ByEmail, Link, InsertFails, FindAgain, LinkInstall, CutOff
<1> DEFINE Lost(w) ==
      /\ w.isNew => visit[c].isNew /\ w.account = visit[c].account
      /\ w.at \in {"insert", "findAgain"} =>
           visit[c].at \in {"insert", "findAgain"} /\ w.count = visit[c].count
<1>3. (\A d \in Callers \ {c} : visit'[d] = visit[d]) /\ Lost(visit'[c])
  <2>1. ASSUME NEW p \in Proofs, StartSignIn(c, p)
        PROVE  (\A d \in Callers \ {c} : visit'[d] = visit[d]) /\ Lost(visit'[c])
    BY <1>1, <2>1 DEF StartSignIn
  <2>2. CASE BySub(c)
    <3>1. ~visit[c].isNew /\ visit[c].at = "bySub" /\ visit[c] \in Visits
      BY <1>1, <2>2 DEF BySub
    <3>2. CASE GoOn(c, "byEmail")
      BY <1>1, <3>1, <3>2 DEF Visits
    <3>3. ASSUME NEW a, With(c, a, FALSE)
          PROVE  (\A d \in Callers \ {c} : visit'[d] = visit[d]) /\ Lost(visit'[c])
      BY <1>1, <3>1, <3>3 DEF Visits
    <3> QED BY <2>2, <3>2, <3>3 DEF BySub
  <2>3. CASE ByEmail(c)
    <3>1. ~visit[c].isNew /\ visit[c].at = "byEmail" /\ visit[c] \in Visits
      BY <1>1, <2>3 DEF ByEmail
    <3>2. CASE GoOn(c, "count") \/ Reply(c)
      BY <1>1, <3>1, <3>2 DEF Visits
    <3>3. ASSUME NEW a, With(c, a, FALSE)
          PROVE  (\A d \in Callers \ {c} : visit'[d] = visit[d]) /\ Lost(visit'[c])
      BY <1>1, <3>3
    <3>4. ASSUME NEW a, visit' = [visit EXCEPT ![c].at = "link", ![c].account = a]
          PROVE  (\A d \in Callers \ {c} : visit'[d] = visit[d]) /\ Lost(visit'[c])
      BY <1>1, <3>1, <3>4 DEF Visits
    <3> HIDE DEF Lost, Reply, With, GoOn
    <3> QED BY <2>3, <3>2, <3>3, <3>4 DEF ByEmail
  <2>4. CASE Link(c)
    <3>1. With(c, visit[c].account, FALSE) \/ Reply(c)
      <4> HIDE DEF With, Reply
      <4> QED BY <2>4 DEF Link
    <3>2. CASE With(c, visit[c].account, FALSE)
      BY <1>1, <3>2
    <3>3. CASE Reply(c)
      BY <1>1, <3>3
    <3> QED BY <3>1, <3>2, <3>3
  <2>5. CASE InsertFails(c)
    BY <1>1, <2>5 DEF InsertFails, Visits
  <2>6. CASE FindAgain(c)
    <3>1. visit[c].at = "findAgain" /\ visit[c] \in Visits
      BY <1>1, <2>6 DEF FindAgain
    <3>2. CASE Reply(c)
      BY <1>1, <3>2
    <3>3. ASSUME NEW a, Parallel(c, a)
          PROVE  (\A d \in Callers \ {c} : visit'[d] = visit[d]) /\ Lost(visit'[c])
      BY <1>1, <3>3 DEF Parallel
    <3>4. CASE visit' = [visit EXCEPT ![c].at = "insert", ![c].attempt = @ + 1]
      BY <1>1, <3>1, <3>4 DEF Visits
    <3> HIDE DEF Lost, Reply
    <3> QED BY <2>6, <3>2, <3>3, <3>4 DEF FindAgain
  <2>7. CASE LinkInstall(c)
    BY <1>1, <2>7 DEF LinkInstall, Visits
  <2>8. CASE CutOff(c)
    BY <1>1, <2>8 DEF CutOff
  <2> QED BY <2>1, <2>2, <2>3, <2>4, <2>5, <2>6, <2>7, <2>8
<1>4. Counted' \subseteq Counted
  <2>1. ASSUME NEW d \in Callers, d \in Counted' PROVE d \in Counted
    <3>1. CASE d = c
      BY <1>3, <2>1, <3>1 DEF Counted
    <3>2. CASE d # c
      BY <1>3, <2>1, <3>2 DEF Counted
    <3> QED BY <3>1, <3>2
  <2> QED BY <2>1 DEF Counted
<1>5. ASSUME NEW d \in Callers, visit'[d].isNew
      PROVE  visit[d].isNew /\ visit'[d].account = visit[d].account
  <2>1. CASE d = c
    BY <1>3, <1>5, <2>1
  <2>2. CASE d # c
    BY <1>3, <1>5, <2>2
  <2> QED BY <2>1, <2>2
<1> QED BY <1>2, <1>4, <1>5

\* A new account is one visit's: only the visit that inserts has one that is new,
\* and a visit that tells it is over.
LEMMA StepKeepsNews ==
  ASSUME SignInInv, SignInNext
  PROVE  NewOnce'
<1> USE DEF SignInInv, At
<1>0. /\ made \in Nat /\ 1..made \subseteq Accounts /\ visit \in [Callers -> Visits]
      /\ \A d \in Callers : visit[d].isNew => visit[d].account \in 1..made
  BY SignInAssumption DEF Rows, Accounts, Visiting
<1>1. ASSUME UNCHANGED <<told, made>>,
             \A d \in Callers : visit'[d].isNew => visit[d].isNew /\ visit'[d].account = visit[d].account
      PROVE  NewOnce'
  BY <1>1 DEF NewOnce
<1>2. ASSUME NEW c \in Callers, CountIp(c) PROVE NewOnce'
  <2>1. visit' = [visit EXCEPT ![c] = [visit[c] EXCEPT !.at = "insert", !.count = fromIp']]
    BY <1>0, <1>2 DEF CountIp
  <2>2. UNCHANGED <<told, made>>
    BY <1>2 DEF CountIp, users, rest
  <2> QED BY <1>0, <1>1, <2>1, <2>2 DEF Visits
<1>3. ASSUME NEW c \in Callers, Insert(c) PROVE NewOnce'
  <2>1. /\ made' = made + 1 /\ made + 1 \in Accounts /\ told' = told
        /\ visit'[c].isNew /\ visit'[c].account = made + 1
        /\ \A d \in Callers \ {c} : visit'[d] = visit[d]
    BY <1>0, <1>3 DEF Insert, With, Away, rest
  <2>2. \A d \in Callers \ {c} : visit[d].isNew => visit[d].account # made + 1
    BY <1>0
  <2>3. told[made + 1] = 0 /\ \A a \in Accounts : a > made' => told[a] = 0
    BY <1>0, <2>1 DEF NewOnce, Accounts
  <2>4. ASSUME NEW d \in Callers, visit'[d].isNew PROVE told'[visit'[d].account] = 0
    BY <2>1, <2>3, <2>4 DEF NewOnce
  <2>5. ASSUME NEW d \in Callers, NEW e \in Callers, visit'[d].isNew, visit'[e].isNew,
               visit'[d].account = visit'[e].account
        PROVE  d = e
    BY <2>1, <2>2, <2>5 DEF NewOnce
  <2> QED BY <2>1, <2>3, <2>4, <2>5 DEF NewOnce
<1>4. ASSUME NEW c \in Callers, SignedIn(c) PROVE NewOnce'
  <2>1. /\ made' = made /\ ~visit'[c].isNew
        /\ \A d \in Callers \ {c} : visit'[d] = visit[d]
    BY <1>0, <1>4 DEF SignedIn, Reply, Away, users
  <2>2. CASE ~visit[c].isNew
    <3>1. told' = told
      BY <1>4, <2>2 DEF SignedIn
    <3> QED BY <1>1, <2>1, <3>1
  <2>3. CASE visit[c].isNew
    <3> DEFINE a == visit[c].account
    <3>1. told' = [told EXCEPT ![a] = @ + 1] /\ a \in 1..made /\ a \in Accounts /\ told[a] = 0
      BY <1>0, <1>4, <2>3 DEF SignedIn, NewOnce
    <3>2. told' = [told EXCEPT ![a] = 1]
      BY <3>1 DEF NewOnce
    <3>3. told' \in [Accounts -> 0..1]
      BY <3>1, <3>2 DEF NewOnce
    <3>4. \A b \in Accounts : b > made' => told'[b] = 0
      BY <1>0, <2>1, <3>1, <3>2 DEF NewOnce, Accounts
    <3>5. ASSUME NEW d \in Callers, visit'[d].isNew PROVE told'[visit'[d].account] = 0
      <4>1. d # c /\ visit[d].isNew /\ visit'[d].account = visit[d].account
        BY <2>1, <3>5
      <4>2. visit[d].account # a /\ visit[d].account \in Accounts
        BY <1>0, <4>1, <2>3 DEF NewOnce
      <4> QED BY <4>1, <4>2, <3>1, <3>2 DEF NewOnce
    <3>6. ASSUME NEW d \in Callers, NEW e \in Callers, visit'[d].isNew, visit'[e].isNew,
                 visit'[d].account = visit'[e].account
          PROVE  d = e
      BY <2>1, <3>6 DEF NewOnce
    <3> QED BY <3>3, <3>4, <3>5, <3>6 DEF NewOnce
  <2> QED BY <2>2, <2>3
<1>5. ASSUME NEW a \in Accounts, EraseAccount(a) PROVE NewOnce'
  BY <1>1, <1>5 DEF EraseAccount
<1>6. ASSUME NEW c \in Callers,
             \/ \E p \in Proofs : StartSignIn(c, p)
             \/ BySub(c) \/ ByEmail(c) \/ Link(c) \/ InsertFails(c) \/ FindAgain(c)
             \/ LinkInstall(c) \/ CutOff(c)
      PROVE  NewOnce'
  <2> HIDE DEF SignInInv, At
  <2>1. UNCHANGED <<told, made>> /\
        \A d \in Callers : visit'[d].isNew => visit[d].isNew /\ visit'[d].account = visit[d].account
    BY <1>6, QuietSteps
  <2> QED BY <1>1, <2>1
<1> QED BY <1>2, <1>3, <1>4, <1>5, <1>6 DEF SignInNext

\* What a step does to the two sizes that WithinLimit adds up.
LEMMA SizesKept ==
  ASSUME SignInInv, Earning' = Earning, Counted' \subseteq Counted, fromIp' = fromIp
  PROVE  WithinLimit'
<1>1. IsFiniteSet(Earning) /\ Cardinality(Earning) \in Nat
  <2>1. IsFiniteSet(1..made)
    BY SignInAssumption, FS_Interval DEF SignInInv, Rows
  <2> QED BY <2>1, FS_Subset, FS_CardinalityType DEF Earning
<1>2. /\ IsFiniteSet(Counted')
      /\ Cardinality(Counted') \in Nat /\ Cardinality(Counted) \in Nat /\ Cardinality(Counted') <= Cardinality(Counted)
  BY FS_Subset, FS_CardinalityType DEF SignInInv, WithinLimit
<1>3. IpLimit \in Nat /\ fromIp \in Nat
  BY SignInAssumption DEF SignInInv, Rows
<1> QED BY <1>1, <1>2, <1>3 DEF SignInInv, WithinLimit

\* A number within the limit goes from a visit to the account it makes, or is lost.
LEMMA StepKeepsLimit ==
  ASSUME SignInInv, SignInNext
  PROVE  WithinLimit'
<1> USE DEF At
<1>0. /\ made \in Nat /\ limited \subseteq 1..made /\ visit \in [Callers -> Visits]
      /\ fromIp \in 0..(IpLimit + 1) /\ IpLimit \in Nat /\ IsFiniteSet(Counted)
      /\ Cardinality(Earning) + Cardinality(Counted) <= fromIp
      /\ Cardinality(Earning) + Cardinality(Counted) <= IpLimit
  BY SignInAssumption DEF SignInInv, Rows, Visiting, WithinLimit
<1>1. /\ IsFiniteSet(Earning) /\ Cardinality(Earning) \in Nat /\ Cardinality(Counted) \in Nat
  <2>1. IsFiniteSet(1..made)
    BY <1>0, FS_Interval
  <2> QED BY <1>0, <2>1, FS_Subset, FS_CardinalityType DEF Earning
<1>2. ASSUME NEW c \in Callers, CountIp(c) PROVE WithinLimit'
  <2>1. /\ visit' = [visit EXCEPT ![c] = [visit[c] EXCEPT !.at = "insert", !.count = fromIp']]
        /\ fromIp' = (IF IsLimited(fromIp) THEN fromIp ELSE fromIp + 1)
        /\ Earning' = Earning /\ visit[c].at = "count"
    BY <1>0, <1>2 DEF CountIp, users, Earning
  <2>2. /\ visit'[c].at = "insert" /\ visit'[c].count = fromIp' /\ c \notin Counted
        /\ \A d \in Callers \ {c} : visit'[d] = visit[d]
    BY <1>0, <2>1 DEF Visits, Counted
  <2>3. CASE fromIp' <= IpLimit
    <3>1. fromIp' = fromIp + 1
      BY <1>0, <2>1, <2>3 DEF IsLimited
    <3>2. Counted' = Counted \union {c}
      BY <2>2, <2>3 DEF Counted
    <3>3. IsFiniteSet(Counted') /\ Cardinality(Counted') = Cardinality(Counted) + 1
      BY <1>0, <2>2, <3>2, FS_AddElement
    <3> QED BY <1>0, <1>1, <2>1, <2>3, <3>1, <3>3 DEF WithinLimit
  <2>4. CASE ~(fromIp' <= IpLimit)
    <3>1. Counted' = Counted
      BY <2>2, <2>4 DEF Counted
    <3>2. fromIp' \in Nat /\ fromIp' >= fromIp
      BY <1>0, <2>1
    <3> QED BY <1>0, <1>1, <2>1, <3>1, <3>2 DEF WithinLimit
  <2> QED BY <2>3, <2>4
<1>3. ASSUME NEW c \in Callers, Insert(c) PROVE WithinLimit'
  <2>1. /\ made' = made + 1 /\ fromIp' = fromIp
        /\ limited' = IF IsLimited(visit[c].count) THEN limited \union {made + 1} ELSE limited
        /\ visit[c].at = "insert" /\ visit'[c].at = "finish"
        /\ \A d \in Callers \ {c} : visit'[d] = visit[d]
    BY <1>0, <1>3 DEF Insert, With, Away
  <2>2. Counted' = Counted \ {c} /\ (c \in Counted <=> ~IsLimited(visit[c].count))
    <3>1. visit[c].count \in 0..(IpLimit + 1)
      BY <1>0 DEF Visits
    <3>2. c \in Counted <=> ~IsLimited(visit[c].count)
      BY <1>0, <2>1, <3>1 DEF Counted, IsLimited
    <3>3. Counted' = Counted \ {c}
      BY <2>1 DEF Counted
    <3> QED BY <3>2, <3>3
  <2>3. CASE c \in Counted
    <3>1. Earning' = Earning \union {made + 1} /\ made + 1 \notin Earning
      BY <1>0, <2>1, <2>2, <2>3 DEF Earning
    <3>2. Cardinality(Earning') = Cardinality(Earning) + 1
      BY <1>1, <3>1, FS_AddElement
    <3>3. IsFiniteSet(Counted') /\ Cardinality(Counted') = Cardinality(Counted) - 1
      BY <1>0, <2>2, <2>3, FS_RemoveElement
    <3> QED BY <1>0, <1>1, <2>1, <3>2, <3>3 DEF WithinLimit
  <2>4. CASE c \notin Counted
    <3>1. Earning' = Earning
      BY <1>0, <2>1, <2>2, <2>4 DEF Earning
    <3>2. Counted' \subseteq Counted
      BY <2>2
    <3> QED BY <2>1, <3>1, <3>2, SizesKept
  <2> QED BY <2>3, <2>4
<1>4. ASSUME NEW c \in Callers, SignedIn(c) PROVE WithinLimit'
  <2>1. Earning' = Earning /\ fromIp' = fromIp
    BY <1>4 DEF SignedIn, users, Earning
  <2>2. Counted' \subseteq Counted
    BY <1>0, <1>4 DEF SignedIn, Reply, Away, Counted
  <2> QED BY <2>1, <2>2, SizesKept
<1>5. ASSUME NEW a \in Accounts, EraseAccount(a) PROVE WithinLimit'
  BY <1>5, SizesKept DEF EraseAccount, Earning, Counted
<1>6. ASSUME NEW c \in Callers,
             \/ \E p \in Proofs : StartSignIn(c, p)
             \/ BySub(c) \/ ByEmail(c) \/ Link(c) \/ InsertFails(c) \/ FindAgain(c)
             \/ LinkInstall(c) \/ CutOff(c)
      PROVE  WithinLimit'
  <2>1. UNCHANGED <<made, limited, fromIp>> /\ Counted' \subseteq Counted
    BY <1>6, QuietSteps
  <2> QED BY <2>1, SizesKept DEF Earning
<1> QED BY <1>2, <1>3, <1>4, <1>5, <1>6 DEF SignInNext

-----------------------------------------------------------------------------
(* SignIn: the theorems *)

\* What AccountsService keeps while sign-ins, links and deletions cross.
THEOREM SignInInvHolds == SignInSpec => []SignInInv
<1>1. SignInInit => SignInInv
  BY SignInStarts
<1>2. SignInInv /\ [SignInNext]_signInVars => SignInInv'
  <2>1. ASSUME SignInInv, SignInNext PROVE SignInInv'
    BY <2>1, StepKeepsRows, StepKeepsNews, StepKeepsLimit DEF SignInInv
  <2>2. ASSUME SignInInv, UNCHANGED signInVars PROVE SignInInv'
    BY <2>2 DEF SignInInv, signInVars, Rows, Unique, Visiting, NewOnce, WithinLimit, Counted, Earning
  <2> QED BY <2>1, <2>2
<1> QED BY <1>1, <1>2, PTL DEF SignInSpec

\* "a parallel sign-in just created this account": one of those that race for an
\* account is answered that it is new, and of the accounts of one address no more
\* than the limit may earn the signup bonus (AccountsService.create).
THEOREM SignUpsAreFirst == SignInSpec => []FirstSignIns
<1>1. ASSUME SignInInv PROVE FirstSignIns
  <2>1. \A a \in Accounts : told[a] <= 1
    BY <1>1 DEF SignInInv, NewOnce
  <2>2. Cardinality(Earning) \in Nat /\ Cardinality(Counted) \in Nat
    <3>1. IsFiniteSet(1..made)
      BY <1>1, SignInAssumption, FS_Interval DEF SignInInv, Rows
    <3> QED BY <1>1, <3>1, FS_Subset, FS_CardinalityType DEF SignInInv, WithinLimit, Earning
  <2>3. Cardinality((1..made) \ limited) <= IpLimit
    BY <1>1, <2>2, SignInAssumption DEF SignInInv, WithinLimit, Earning
  <2> QED BY <2>1, <2>3 DEF FirstSignIns
<1> QED BY <1>1, SignInInvHolds, PTL

\* A set whose members are all the same has one at most.
LEMMA AtMostOneMember ==
  ASSUME NEW S, \A x, y \in S : x = y
  PROVE  Cardinality(S) <= 1
<1>1. CASE S = {}
  BY <1>1, FS_EmptySet
<1>2. ASSUME NEW x \in S PROVE Cardinality(S) <= 1
  <2>1. S = {x}
    BY <1>2
  <2> QED BY <2>1, FS_Singleton
<1> QED BY <1>1, <1>2

\* The types, and that no email and no Google account is on two rows.
THEOREM SignInTyped == SignInSpec => []SignInTypeOK
<1>1. ASSUME SignInInv PROVE SignInTypeOK
  <2>1. ASSUME NEW e \in Emails PROVE Cardinality(HasEmail(e)) <= 1
    <3>1. \A a, b \in HasEmail(e) : a = b
      BY <1>1, <2>1, SignInAssumption DEF SignInInv, Unique, HasEmail
    <3> QED BY <3>1, AtMostOneMember
  <2>2. ASSUME NEW s \in Subs PROVE Cardinality(HasSub(s)) <= 1
    <3>1. \A a, b \in HasSub(s) : a = b
      BY <1>1, <2>2 DEF SignInInv, Unique, HasSub, Subs
    <3> QED BY <3>1, AtMostOneMember
  <2> QED BY <1>1, <2>1, <2>2 DEF SignInInv, Rows, Visiting, Visits, SignInTypeOK
<1> QED BY <1>1, SignInInvHolds, PTL

-----------------------------------------------------------------------------
(* Push: the invariant *)

Tokens ==
  /\ pushToken \in [Devices -> PushTokens \union {None}]
  /\ \A d, e \in Devices : pushToken[d] = pushToken[e] => d = e \/ pushToken[d] = None
  /\ kept \subseteq Devices /\ \A d \in kept : pushToken[d] # None

\* The message, its job, and the worker that has it.
Sending ==
  /\ message \in {"none", "counted", "sending", "sent", "failed"}
  /\ job \in {"none", "waiting", "active", "stalled", "gone"} /\ again \in BOOLEAN
  /\ sender \in [at : {"idle", "read", "send", "drop", "sent"}, after : 0..LastDevice,
                 batch : SUBSET Devices, tokens : SUBSET PushTokens]
  /\ reached \in [Devices -> 0..2]
  /\ sender.at # "idle" <=> job = "active"
  /\ message \in {"none", "counted"} => job = "none"
  /\ job \in {"waiting", "active", "stalled"} => message = "sending"
  /\ job \in {"none", "waiting", "stalled"} => ~again
  /\ job \in {"none", "waiting"} => \A d \in Devices : reached[d] = 0
  /\ job = "none" => kept = {}
  /\ sender.at = "send" => \A d \in sender.batch : d <= sender.after

\* A first run has sent to nobody twice, and to nobody it has yet to come to.
Once ==
  ~again => \A d \in Devices :
    /\ reached[d] <= 1
    /\ job = "active" /\ reached[d] = 1 =>
         d <= sender.after /\ (sender.at = "send" => d \notin sender.batch)

\* A run leaves out nobody who keeps a token; a batch that is not full is the last.
Covered ==
  /\ job = "active" =>
       /\ \A d \in kept : d <= sender.after =>
            reached[d] > 0 \/ (sender.at = "send" /\ d \in sender.batch)
       /\ \/ sender.at = "sent"
          \/ sender.at \in {"send", "drop"} /\ Cardinality(sender.batch) < BatchSize
          => \A d \in kept : d <= sender.after
  /\ message = "sent" => \A d \in kept : reached[d] > 0

PushInv == Tokens /\ Sending /\ Once /\ Covered

-----------------------------------------------------------------------------
(* Push: batches *)

Ranges == {x..y : x \in Nat, y \in Nat}

\* Of some ranges, one has none strictly within it.
LEMMA LeastRange ==
  ASSUME NEW U \in SUBSET Ranges, U # {}
  PROVE  \E M \in U : \A L \in U : ~(L \subseteq M /\ L # M)
<1>1. \A L \in Ranges : L \in SUBSET Nat /\ IsFiniteSet(L)
  <2>1. ASSUME NEW x \in Nat, NEW y \in Nat PROVE x..y \in SUBSET Nat /\ IsFiniteSet(x..y)
    BY FS_Interval
  <2> QED BY <2>1 DEF Ranges
<1>2. U \subseteq FiniteSubsetsOf(Nat)
  BY <1>1 DEF FiniteSubsetsOf
<1>3. PICK M \in U : \A L \in U : ~(<<L, M>> \in StrictSubsetOrdering(Nat))
  BY <1>2, WFMin, FS_StrictSubsetOrderingWellFounded
<1> QED BY <1>1, <1>3 DEF StrictSubsetOrdering

\* Devices that there are have a first and a last one.
LEMMA EndsOfDevices ==
  ASSUME NEW T \in SUBSET Devices, T # {}
  PROVE  (\E m \in T : \A n \in T : n <= m) /\ (\E m \in T : \A n \in T : m <= n)
<1>0. LastDevice \in Nat /\ T \subseteq Nat /\ \A n \in T : 1 <= n /\ n <= LastDevice
  BY PushAssumption DEF Devices
<1>1. \A x, y \in Nat : x..y \in Ranges
  BY DEF Ranges
<1>2. \E m \in T : \A n \in T : n <= m
  <2> DEFINE U == {x..LastDevice : x \in T}
  <2>1. U # {} /\ U \in SUBSET Ranges
    BY <1>0, <1>1
  <2>2. PICK M \in U : \A L \in U : ~(L \subseteq M /\ L # M)
    <3> HIDE DEF U
    <3> QED BY <2>1, LeastRange
  <2>3. PICK m \in T : M = m..LastDevice
    BY <2>2
  <2>4. ASSUME NEW n \in T, ~(n <= m) PROVE FALSE
    <3>1. n..LastDevice \subseteq m..LastDevice /\ n..LastDevice # m..LastDevice
      BY <1>0, <2>4
    <3> QED BY <2>2, <2>3, <3>1
  <2> QED BY <2>4
<1>3. \E m \in T : \A n \in T : m <= n
  <2> DEFINE U == {1..x : x \in T}
  <2>1. U # {} /\ U \in SUBSET Ranges
    BY <1>0, <1>1
  <2>2. PICK M \in U : \A L \in U : ~(L \subseteq M /\ L # M)
    <3> HIDE DEF U
    <3> QED BY <2>1, LeastRange
  <2>3. PICK m \in T : M = 1..m
    BY <2>2
  <2>4. ASSUME NEW n \in T, ~(m <= n) PROVE FALSE
    <3>1. 1..n \subseteq 1..m /\ 1..n # 1..m
      BY <1>0, <2>4
    <3> QED BY <2>2, <2>3, <3>1
  <2> QED BY <2>4
<1> QED BY <1>2, <1>3

\* Installs with a token that come after the last one taken and before d.
Before(d) == {e \in WithToken : e > sender.after /\ e < d}

\* A batch is the first ones there are after the last one taken: none that is left
\* comes before one of the batch, and if it is not full none is left.
LEMMA BatchesAreFirst ==
  ASSUME PushInv
  PROVE  /\ NextBatch \subseteq WithToken /\ \A d \in NextBatch : d > sender.after
         /\ \A d \in WithToken, e \in NextBatch : d > sender.after /\ d < e => d \in NextBatch
         /\ Cardinality(NextBatch) < BatchSize => \A d \in WithToken : d > sender.after => d \in NextBatch
<1>0. /\ WithToken \subseteq Devices /\ IsFiniteSet(WithToken) /\ Devices \subseteq Nat
      /\ sender.after \in Nat /\ BatchSize \in Nat \ {0}
  <2>1. IsFiniteSet(Devices) /\ Devices \subseteq Nat
    BY PushAssumption, FS_Interval DEF Devices
  <2>2. sender.after \in Nat
    BY PushAssumption DEF PushInv, Sending
  <2> QED BY <2>1, <2>2, PushAssumption, FS_Subset DEF WithToken
<1>1. NextBatch = {d \in WithToken : d > sender.after /\ Cardinality(Before(d)) < BatchSize}
  BY DEF NextBatch, Before
<1>2. \A d : IsFiniteSet(Before(d)) /\ Cardinality(Before(d)) \in Nat
  BY <1>0, FS_Subset, FS_CardinalityType DEF Before
<1>3. ASSUME NEW d \in WithToken, NEW e \in NextBatch, d > sender.after, d < e PROVE d \in NextBatch
  <2>1. Before(d) \subseteq Before(e)
    <3>1. d \in Nat /\ e \in Nat /\ \A f \in WithToken : f \in Nat
      BY <1>0, <1>1
    <3>2. ASSUME NEW f \in WithToken, f < d PROVE f < e
      BY <1>3, <3>1, <3>2
    <3> QED BY <3>2 DEF Before
  <2>2. Cardinality(Before(d)) <= Cardinality(Before(e))
    BY <1>2, <2>1, FS_Subset
  <2> QED BY <1>0, <1>1, <1>2, <1>3, <2>2
<1>4. ASSUME Cardinality(NextBatch) < BatchSize PROVE \A d \in WithToken : d > sender.after => d \in NextBatch
  <2> DEFINE left == {d \in WithToken : d > sender.after /\ d \notin NextBatch}
  <2>1. SUFFICES ASSUME left # {} PROVE FALSE
    OBVIOUS
  <2>2. PICK d \in left : \A e \in left : d <= e
    BY <1>0, <2>1, EndsOfDevices
  <2>3. Before(d) \subseteq NextBatch
    <3>1. ASSUME NEW e \in Before(d) PROVE e \in NextBatch
      <4>1. e \in WithToken /\ e > sender.after /\ ~(d <= e)
        BY <1>0, <2>2, <3>1 DEF Before
      <4> QED BY <2>2, <4>1
    <3> QED BY <3>1
  <2>4. IsFiniteSet(NextBatch) /\ Cardinality(NextBatch) \in Nat
    BY <1>0, <1>1, FS_Subset, FS_CardinalityType
  <2>5. Cardinality(Before(d)) <= Cardinality(NextBatch)
    BY <2>3, <2>4, FS_Subset
  <2> QED BY <1>0, <1>1, <1>2, <1>4, <2>2, <2>4, <2>5
<1> QED BY <1>1, <1>3, <1>4

-----------------------------------------------------------------------------
(* Push: the steps *)

LEMMA PushStarts ==
  ASSUME PushInit
  PROVE  PushInv
<1> USE PushAssumption DEF PushInit, Halted
<1>1. Tokens
  BY DEF Tokens
<1>2. Sending
  <2>1. /\ sender \in [at : {"idle", "read", "send", "drop", "sent"}, after : 0..LastDevice,
                        batch : SUBSET Devices, tokens : SUBSET PushTokens]
        /\ sender.at = "idle"
    OBVIOUS
  <2>2. reached \in [Devices -> 0..2] /\ \A d \in Devices : reached[d] = 0
    OBVIOUS
  <2> QED BY <2>1, <2>2 DEF Sending
<1>3. Once /\ Covered
  BY DEF Once, Covered
<1> QED BY <1>1, <1>2, <1>3 DEF PushInv

\* Tokens that come and go take installs from those that kept theirs, and add none.
LEMMA TokensMove ==
  ASSUME PushInv, NEW tokens, tokens \in [Devices -> PushTokens \union {None}], Become(tokens),
         \A d, e \in Devices : tokens[d] = tokens[e] => d = e \/ tokens[d] = None
  PROVE  Tokens' /\ kept' \subseteq kept
BY DEF PushInv, Tokens, Become

LEMMA TokenStepKeepsPush ==
  ASSUME PushInv, NEW d \in Devices, (\E t \in PushTokens : SetToken(d, t)) \/ TurnOff(d)
  PROVE  PushInv'
<1>1. Tokens' /\ kept' \subseteq kept
  <2>1. ASSUME NEW t \in PushTokens, SetToken(d, t) PROVE Tokens' /\ kept' \subseteq kept
    <3> DEFINE f == [e \in Devices |-> IF e = d THEN t ELSE IF pushToken[e] = t THEN None ELSE pushToken[e]]
    <3>1. f \in [Devices -> PushTokens \union {None}]
      BY DEF PushInv, Tokens
    <3>2. \A e, g \in Devices : f[e] = f[g] => e = g \/ f[e] = None
      BY DEF PushInv, Tokens
    <3>3. Become(f)
      BY <2>1 DEF SetToken
    <3> HIDE DEF f
    <3> QED BY <3>1, <3>2, <3>3, TokensMove
  <2>2. ASSUME TurnOff(d) PROVE Tokens' /\ kept' \subseteq kept
    <3> DEFINE f == [pushToken EXCEPT ![d] = None]
    <3>1. f \in [Devices -> PushTokens \union {None}]
      BY DEF PushInv, Tokens
    <3>2. \A e, g \in Devices : f[e] = f[g] => e = g \/ f[e] = None
      BY DEF PushInv, Tokens
    <3>3. Become(f)
      BY <2>2 DEF TurnOff
    <3> HIDE DEF f
    <3> QED BY <3>1, <3>2, <3>3, TokensMove
  <2> QED BY <2>1, <2>2
<1>2. UNCHANGED delivery
  BY DEF SetToken, TurnOff
<1>3. Sending' /\ Once' /\ Covered'
  BY <1>1, <1>2 DEF PushInv, Sending, Once, Covered, delivery
<1> QED BY <1>1, <1>3 DEF PushInv

\* The worker reads its next batch.
LEMMA ReadKeepsPush ==
  ASSUME PushInv, ReadBatch
  PROVE  PushInv'
<1> USE DEF PushInv
<1>0. /\ job = "active" /\ sender.at = "read" /\ UNCHANGED <<pushToken, message, job, again, kept, reached>>
      /\ sender.after \in Nat /\ BatchSize \in Nat \ {0} /\ Devices \subseteq Nat /\ kept \subseteq WithToken
      /\ \A d \in Devices : d \in 0..LastDevice
  BY PushAssumption DEF ReadBatch, Worker, Sending, Tokens, WithToken, Devices
<1>1. Tokens'
  BY <1>0 DEF Tokens
<1>2. CASE NextBatch = {}
  <2>1. sender' = [sender EXCEPT !.at = "sent"]
    BY <1>2 DEF ReadBatch
  <2>2. \A d \in kept : d <= sender.after
    <3>1. Cardinality(NextBatch) < BatchSize
      BY <1>0, <1>2, FS_EmptySet
    <3>2. ASSUME NEW d \in kept PROVE ~(d > sender.after) /\ d \in Nat
      BY <1>0, <1>2, <3>1, <3>2, BatchesAreFirst DEF WithToken
    <3> QED BY <1>0, <3>2
  <2>3. Sending'
    BY <1>0, <2>1 DEF Sending
  <2>4. Once'
    BY <1>0, <2>1 DEF Once, Sending
  <2>5. Covered'
    BY <1>0, <2>1, <2>2 DEF Covered, Sending
  <2> QED BY <1>1, <2>3, <2>4, <2>5
<1>3. CASE NextBatch # {}
  <2> DEFINE last == CHOOSE d \in NextBatch : \A e \in NextBatch : e <= d
  <2>1. /\ NextBatch \subseteq WithToken /\ \A d \in NextBatch : d > sender.after
        /\ \A d \in WithToken, e \in NextBatch : d > sender.after /\ d < e => d \in NextBatch
        /\ Cardinality(NextBatch) < BatchSize => \A d \in WithToken : d > sender.after => d \in NextBatch
    BY BatchesAreFirst
  <2>2. last \in NextBatch /\ \A e \in NextBatch : e <= last
    BY <1>3, <2>1, EndsOfDevices DEF WithToken
  <2>3. sender' = [at |-> "send", batch |-> NextBatch, tokens |-> {pushToken[d] : d \in NextBatch}, after |-> last]
    BY <1>3 DEF ReadBatch
  <2> HIDE DEF last
  <2>4. last \in Devices /\ last \in Nat /\ last > sender.after /\ NextBatch \subseteq Devices
    BY <1>0, <2>1, <2>2 DEF WithToken
  <2>5. {pushToken[d] : d \in NextBatch} \subseteq PushTokens
    BY <2>1 DEF WithToken, Tokens
  <2>6. Sending'
    BY <1>0, <2>2, <2>3, <2>4, <2>5 DEF Sending
  <2>7. Once'
    <3>1. ASSUME NEW d \in Devices, ~again, reached[d] = 1 PROVE d <= last /\ d \notin NextBatch
      <4>1. d <= sender.after /\ d \in Nat
        BY <1>0, <3>1 DEF Once
      <4> QED BY <1>0, <2>1, <2>4, <4>1
    <3> QED BY <1>0, <2>3, <3>1 DEF Once
  <2>8. Covered'
    <3>1. ASSUME NEW d \in kept, d <= last PROVE reached[d] > 0 \/ d \in NextBatch
      <4>1. CASE d <= sender.after
        BY <1>0, <4>1 DEF Covered
      <4>2. CASE ~(d <= sender.after)
        <5>1. d \in WithToken /\ d \in Nat /\ d > sender.after
          BY <1>0, <4>2 DEF WithToken
        <5>2. d = last \/ d < last
          BY <3>1, <5>1, <2>4
        <5> QED BY <2>1, <2>2, <5>1, <5>2
      <4> QED BY <4>1, <4>2
    <3>2. ASSUME Cardinality(NextBatch) < BatchSize, NEW d \in kept PROVE d <= last
      <4>1. d \in WithToken /\ d \in Nat
        BY <1>0 DEF WithToken
      <4>2. CASE d > sender.after
        BY <2>1, <2>2, <3>2, <4>1, <4>2
      <4>3. CASE ~(d > sender.after)
        BY <1>0, <2>4, <4>1, <4>3
      <4> QED BY <4>2, <4>3
    <3> QED BY <1>0, <2>3, <3>1, <3>2 DEF Covered, Sending
  <2> QED BY <1>1, <2>6, <2>7, <2>8
<1> QED BY <1>2, <1>3

\* Firebase takes the batch.
LEMMA SendKeepsPush ==
  ASSUME PushInv, SendBatch
  PROVE  PushInv'
<1> USE DEF PushInv
<1>0. /\ job = "active" /\ sender.at = "send" /\ UNCHANGED <<pushToken, message, job, again, kept>>
      /\ reached' = [d \in Devices |-> IF d \in sender.batch /\ reached[d] < 2 THEN reached[d] + 1 ELSE reached[d]]
      /\ message = "sending"
  BY DEF SendBatch, Worker, Sending
<1>1. PICK dead \in SUBSET sender.tokens :
        sender' = [sender EXCEPT !.at = IF dead = {} THEN Done(sender.batch) ELSE "drop", !.tokens = dead]
  BY DEF SendBatch
<1>2. /\ sender'.after = sender.after /\ sender'.batch = sender.batch
      /\ sender'.at \in {"drop", "sent", "read"}
      /\ sender'.at = "sent" => Cardinality(sender.batch) < BatchSize
  BY <1>1 DEF Done, Sending
<1>3. Tokens'
  BY <1>0 DEF Tokens
<1>4. Sending'
  <2>1. reached' \in [Devices -> 0..2]
    BY <1>0 DEF Sending
  <2>2. sender' \in [at : {"idle", "read", "send", "drop", "sent"}, after : 0..LastDevice,
                     batch : SUBSET Devices, tokens : SUBSET PushTokens]
    BY <1>1 DEF Sending, Done
  <2> QED BY <1>0, <1>2, <2>1, <2>2 DEF Sending
<1>5. Once'
  <2>1. ASSUME NEW d \in Devices, ~again PROVE reached'[d] <= 1 /\ (reached'[d] = 1 => d <= sender.after)
    <3>1. CASE d \in sender.batch
      <4>1. reached[d] = 0 /\ d <= sender.after
        BY <1>0, <2>1, <3>1 DEF Once, Sending
      <4> QED BY <1>0, <3>1, <4>1
    <3>2. CASE d \notin sender.batch
      BY <1>0, <2>1, <3>2 DEF Once
    <3> QED BY <3>1, <3>2
  <2> QED BY <1>0, <1>2, <2>1 DEF Once
<1>6. Covered'
  <2>1. ASSUME NEW d \in kept, d <= sender.after PROVE reached'[d] > 0
    <3>1. reached[d] \in 0..2 /\ d \in Devices
      BY DEF Sending, Tokens
    <3>2. CASE d \in sender.batch
      BY <1>0, <3>1, <3>2
    <3>3. CASE d \notin sender.batch
      BY <1>0, <2>1, <3>1, <3>3 DEF Covered
    <3> QED BY <3>2, <3>3
  <2>2. Cardinality(sender.batch) < BatchSize => \A d \in kept : d <= sender.after
    BY <1>0 DEF Covered
  <2> QED BY <1>0, <1>2, <2>1, <2>2 DEF Covered
<1> QED BY <1>3, <1>4, <1>5, <1>6

\* The tokens that Firebase reported dead are dropped from whoever has them now.
LEMMA DropKeepsPush ==
  ASSUME PushInv, DropDead
  PROVE  PushInv'
<1> USE DEF PushInv
<1>0. /\ job = "active" /\ sender.at = "drop" /\ UNCHANGED <<message, job, again, reached>>
      /\ sender' = [sender EXCEPT !.at = Done(sender.batch), !.tokens = {}]
      /\ message = "sending"
  BY DEF DropDead, Worker, Sending
<1>1. Tokens' /\ kept' \subseteq kept
  <2> DEFINE f == [d \in Devices |-> IF Dead(d) THEN None ELSE pushToken[d]]
  <2>1. f \in [Devices -> PushTokens \union {None}]
    BY DEF Tokens
  <2>2. \A e, g \in Devices : f[e] = f[g] => e = g \/ f[e] = None
    BY DEF Tokens
  <2>3. Become(f)
    BY DEF DropDead
  <2> HIDE DEF f, PushInv
  <2> QED BY <2>1, <2>2, <2>3, TokensMove
<1>2. /\ sender'.after = sender.after /\ sender'.at \in {"sent", "read"}
      /\ sender'.at = "sent" => Cardinality(sender.batch) < BatchSize
  BY <1>0 DEF Done, Sending
<1>3. Sending'
  BY <1>0 DEF Sending, Done
<1>4. Once' /\ Covered'
  BY <1>0, <1>1, <1>2 DEF Once, Covered
<1> QED BY <1>1, <1>3, <1>4

\* The other steps of the server and of the worker.
LEMMA JobStepKeepsPush ==
  ASSUME PushInv, CountTargets \/ CreateMessage \/ AddJob \/ TakeJob \/ Finish \/ WorkerDies
  PROVE  PushInv'
<1> USE DEF PushInv
<1>0. LastDevice \in Nat /\ Devices \subseteq Nat \ {0} /\ None \notin PushTokens
  BY PushAssumption DEF Devices
<1>1. CASE CountTargets \/ CreateMessage
  BY <1>1 DEF CountTargets, CreateMessage, Tokens, Sending, Once, Covered
<1>2. CASE AddJob
  BY <1>2 DEF AddJob, Tokens, Sending, Once, Covered, WithToken
<1>3. CASE TakeJob
  <2>1. /\ job' = "active" /\ sender' = [Halted EXCEPT !.at = "read"] /\ again' = (job = "stalled")
        /\ job \in {"waiting", "stalled"} /\ UNCHANGED <<pushToken, message, kept, reached>>
    BY <1>3 DEF TakeJob, Sending
  <2>2. sender'.after = 0 /\ sender'.at = "read"
    BY <2>1 DEF Halted
  <2>3. Tokens'
    BY <2>1 DEF Tokens
  <2>4. Sending'
    BY <1>0, <2>1 DEF Sending, Halted
  <2>5. Once'
    <3>1. CASE job = "stalled"
      <4>1. again' = TRUE
        BY <2>1, <3>1
      <4> QED BY <4>1 DEF Once
    <3>2. CASE job = "waiting"
      <4>1. \A d \in Devices : reached'[d] = 0
        BY <2>1, <3>2 DEF Sending
      <4> QED BY <4>1 DEF Once
    <3> QED BY <2>1, <3>1, <3>2
  <2>6. Covered'
    <3>1. \A d \in kept : ~(d <= 0)
      BY <1>0 DEF Tokens
    <3> QED BY <2>1, <2>2, <3>1 DEF Covered, Sending
  <2> QED BY <2>3, <2>4, <2>5, <2>6
<1>4. CASE Finish
  <2>1. PICK step \in {"read", "send", "drop", "sent"} :
          Worker(step) /\ message' \in {"failed"} \union (IF step = "sent" THEN {"sent"} ELSE {})
    BY <1>4 DEF Finish
  <2>2. /\ job = "active" /\ sender.at = step /\ again' = again /\ job' = "gone" /\ sender' = Halted
        /\ UNCHANGED <<pushToken, kept, reached>> /\ message' \in {"failed", "sent"}
        /\ message' = "sent" => sender.at = "sent"
    BY <1>4, <2>1 DEF Finish, Worker
  <2>3. Tokens' /\ Sending' /\ Once'
    BY <1>0, <2>2 DEF Tokens, Sending, Once, Halted
  <2>4. Covered'
    BY <2>2 DEF Covered
  <2> QED BY <2>3, <2>4
<1>5. CASE WorkerDies
  <2>1. /\ job = "active" /\ job' \in {"gone", "stalled"} /\ (job' = "stalled" => ~again)
        /\ sender' = Halted /\ UNCHANGED <<pushToken, message, again, kept, reached>>
    BY <1>5 DEF WorkerDies
  <2>2. Tokens' /\ Sending'
    BY <1>0, <2>1 DEF Tokens, Sending, Halted
  <2>3. Once' /\ Covered'
    BY <2>1 DEF Once, Covered
  <2> QED BY <2>2, <2>3
<1> QED BY <1>1, <1>2, <1>3, <1>4, <1>5

-----------------------------------------------------------------------------
(* Push: the theorems *)

\* What PushWorker.deliver keeps, whatever tokens come, move and go meanwhile.
THEOREM PushInvHolds == PushSpec => []PushInv
<1>1. PushInit => PushInv
  BY PushStarts
<1>2. PushInv /\ [PushNext]_pushVars => PushInv'
  <2>1. ASSUME PushInv, PushNext PROVE PushInv'
    BY <2>1, TokenStepKeepsPush, ReadKeepsPush, SendKeepsPush, DropKeepsPush, JobStepKeepsPush DEF PushNext
  <2>2. ASSUME PushInv, UNCHANGED pushVars PROVE PushInv'
    BY <2>2 DEF PushInv, pushVars, Tokens, Sending, Once, Covered
  <2> QED BY <2>1, <2>2
<1> QED BY <1>1, <1>2, PTL DEF PushSpec

\* A message that was sent was sent to every install that kept its token, and twice
\* to none unless a run died: batches are taken after an id, not by their number.
THEOREM EveryInstallOnce == PushSpec => []ReachedOnce
<1>1. ASSUME PushInv PROVE ReachedOnce
  <2>1. ASSUME NEW d \in Devices, reached[d] > 1 PROVE again
    BY <1>1, <2>1 DEF PushInv, Once, Sending
  <2> QED BY <1>1, <2>1 DEF PushInv, Covered, ReachedOnce
<1> QED BY <1>1, PushInvHolds, PTL

\* The types, and that no token is on two installs.
THEOREM PushTyped == PushSpec => []PushTypeOK
<1>1. ASSUME PushInv PROVE PushTypeOK
  BY <1>1 DEF PushInv, Tokens, Sending, PushTypeOK, WithToken
<1> QED BY <1>1, PushInvHolds, PTL

-----------------------------------------------------------------------------
(* Catalog: the invariant *)

\* What EditsShow says of a page, for any history.
Right(h, page, asked, since) ==
  \E v \in since .. Len(h) :
    /\ Exists(h[v], asked)
    /\ IF asked.list = "tree" THEN page = ShownUnder(h[v], Root) \ {Root}
       ELSE \E w \in v .. Len(h) : page = Listed(h[w], Under(h[v], asked))

\* Between the two queries: the categories are those of some content since.
Halfway(h, under, asked, since) ==
  /\ asked.list # "tree"
  /\ \E v \in since .. Len(h) : Exists(h[v], asked) /\ under = Under(h[v], asked)

Edits == [at : {"idle", "checkItems", "remove", "bump"}, category : Categories \cup {None}]

Reads == [at : {"idle", "lookUp", "load", "loadItems", "store", "served"}, asked : Asked \cup {None},
          since : Nat, gen : Nat \cup {None}, under : SUBSET (Categories \cup {None}),
          page : SUBSET (Items \cup Categories)]

Entries == [gen : Nat, asked : Asked, page : SUBSET (Items \cup Categories)]

Bumping == {e \in Admins : edit[e].at = "bump"}

\* The types; every bump there was or will be is for a commit of its own.
Stored ==
  /\ history \in Seq(Tables) /\ Len(history) \in 1 .. MaxEdits + 1
  /\ generation \in Nat /\ generation + Cardinality(Bumping) < Len(history)
  /\ settled \in 1 .. Len(history)
  /\ edit \in [Admins -> Edits] /\ read \in [Apps -> Reads]
  /\ cache \subseteq Entries /\ \A entry \in cache : entry.gen <= generation

\* A request whose generation is the present one asked after the last bump; what
\* it has loaded so far is right.
ReadOK(x) ==
  /\ x.since \in 1 .. Len(history)
  /\ x.gen # None => x.gen <= generation /\ (x.gen = generation => x.since = settled)
  /\ x.at # "idle" => x.asked \in Asked
  /\ x.at = "lookUp" => x.gen # None
  /\ x.at = "loadItems" => Halfway(history, x.under, x.asked, x.since)
  /\ x.at \in {"store", "served"} => Right(history, x.page, x.asked, x.since)

\* A generation stands for one moment.
SameSince(x, y) == x.gen # None /\ x.gen = y.gen => x.since = y.since

\* A page kept under a generation is right for all who have that generation.
PageOK(entry) ==
  /\ entry.gen = generation => Right(history, entry.page, entry.asked, settled)
  /\ \A r \in Apps : read[r].gen # None /\ read[r].gen = entry.gen =>
       Right(history, entry.page, entry.asked, read[r].since)

CatalogInv ==
  /\ Stored
  /\ \A r \in Apps : ReadOK(read[r])
  /\ \A r, q \in Apps : SameSince(read[r], read[q])
  /\ \A entry \in cache : PageOK(entry)

-----------------------------------------------------------------------------
(* Catalog: the steps *)

\* A commit takes nothing from what was right before it.
LEMMA CommitsAdd ==
  ASSUME NEW h \in Seq(Tables), NEW db \in Tables, NEW page, NEW under, NEW asked, NEW since \in Nat \ {0}
  PROVE  /\ Right(h, page, asked, since) => Right(Append(h, db), page, asked, since)
         /\ Halfway(h, under, asked, since) => Halfway(Append(h, db), under, asked, since)
<1> DEFINE g == Append(h, db)
<1>1. Len(h) \in Nat /\ Len(g) = Len(h) + 1 /\ \A n \in 1 .. Len(h) : g[n] = h[n]
  OBVIOUS
<1> HIDE DEF g
<1>2. ASSUME Right(h, page, asked, since) PROVE Right(g, page, asked, since)
  <2>1. PICK v \in since .. Len(h) :
          /\ Exists(h[v], asked)
          /\ IF asked.list = "tree" THEN page = ShownUnder(h[v], Root) \ {Root}
             ELSE \E w \in v .. Len(h) : page = Listed(h[w], Under(h[v], asked))
    BY <1>2 DEF Right
  <2>2. v \in since .. Len(g) /\ g[v] = h[v]
    BY <1>1
  <2>3. CASE asked.list = "tree"
    BY <2>1, <2>2, <2>3 DEF Right
  <2>4. CASE asked.list # "tree"
    <3>1. PICK w \in v .. Len(h) : page = Listed(h[w], Under(h[v], asked))
      BY <2>1, <2>4
    <3>2. w \in v .. Len(g) /\ g[w] = h[w]
      BY <1>1
    <3>3. \E y \in v .. Len(g) : page = Listed(g[y], Under(g[v], asked))
      BY <2>2, <3>1, <3>2
    <3> QED BY <2>1, <2>2, <2>4, <3>3 DEF Right
  <2> QED BY <2>3, <2>4
<1>3. ASSUME Halfway(h, under, asked, since) PROVE Halfway(g, under, asked, since)
  <2>1. PICK v \in since .. Len(h) : Exists(h[v], asked) /\ under = Under(h[v], asked)
    BY <1>3 DEF Halfway
  <2>2. v \in since .. Len(g) /\ g[v] = h[v]
    BY <1>1
  <2> QED BY <1>3, <2>1, <2>2 DEF Halfway
<1> QED BY <1>2, <1>3 DEF g

LEMMA CatalogStarts ==
  ASSUME CatalogInit
  PROVE  CatalogInv
<1> USE CatalogAssumption DEF CatalogInit
<1>1. Stored
  <2>1. PICK content \in Starts : history = <<content>>
    OBVIOUS
  <2>2. history \in Seq(Tables) /\ Len(history) = 1
    BY <2>1
  <2>3. Bumping = {}
    BY DEF Bumping, NoEdit
  <2>4. edit \in [Admins -> Edits] /\ read \in [Apps -> Reads]
    BY DEF NoEdit, NoRead, Edits, Reads
  <2> QED BY <2>2, <2>3, <2>4, FS_EmptySet DEF Stored
<1>2. \A r \in Apps : read[r] = NoRead
  OBVIOUS
<1>3. \A r \in Apps : ReadOK(read[r])
  BY <1>1, <1>2 DEF ReadOK, NoRead, Stored
<1>4. \A r, q \in Apps : SameSince(read[r], read[q])
  BY <1>2 DEF SameSince
<1> QED BY <1>1, <1>3, <1>4 DEF CatalogInv

\* A step of one request of an app that leaves the cache alone.
LEMMA ReadMoves ==
  ASSUME CatalogInv, NEW r \in Apps, read' \in [Apps -> Reads],
         \A q \in Apps : q # r => read'[q] = read[q],
         UNCHANGED <<history, generation, cache, edit, settled>>, ReadOK(read'[r]),
         read'[r].gen # None =>
           \/ read'[r].gen = read[r].gen /\ read'[r].since = read[r].since
           \/ read'[r].gen = generation /\ read'[r].since = settled
  PROVE  CatalogInv'
<1>1. Stored'
  BY DEF CatalogInv, Stored, Bumping
<1>2. \A q \in Apps : ReadOK(read[q])'
  BY DEF CatalogInv, ReadOK
<1>3. \A q \in Apps : q # r => SameSince(read'[q], read'[r])
  BY DEF CatalogInv, SameSince, ReadOK
<1>4. \A q, p \in Apps : SameSince(read[q], read[p])'
  BY <1>3 DEF CatalogInv, SameSince
<1>5. ASSUME NEW entry \in cache PROVE PageOK(entry)'
  <2>1. PageOK(entry)
    BY DEF CatalogInv
  <2>2. read'[r].gen # None /\ read'[r].gen = entry.gen => Right(history, entry.page, entry.asked, read'[r].since)
    BY <2>1 DEF PageOK
  <2> QED BY <2>1, <2>2 DEF PageOK
<1> QED BY <1>1, <1>2, <1>4, <1>5 DEF CatalogInv

\* A page that is kept.
LEMMA KeepKeepsCatalog ==
  ASSUME CatalogInv, NEW r \in Apps, Keep(r)
  PROVE  CatalogInv'
<1> DEFINE x == read[r]
           pages == {entry \in cache : ~Hit(r, entry)} \cup {Entry(r, x.gen)}
<1>1. /\ x \in Reads /\ x.at = "store" /\ ReadOK(x)
      /\ cache' = IF x.gen = None THEN cache ELSE pages
      /\ read' = [read EXCEPT ![r].at = "served", ![r].page = x.page, ![r].gen = None, ![r].under = {}]
      /\ UNCHANGED <<history, generation, edit, settled>>
  BY DEF Keep, Serve, CatalogInv, Stored
<1>2. /\ read' \in [Apps -> Reads] /\ \A q \in Apps : q # r => read'[q] = read[q]
      /\ read'[r].at = "served" /\ read'[r].asked = x.asked /\ read'[r].since = x.since
      /\ read'[r].page = x.page /\ read'[r].gen = None
  BY <1>1 DEF CatalogInv, Stored, Reads
<1> HIDE DEF x, pages
<1>3. \A entry \in cache' : entry \in cache \/ (x.gen # None /\ entry = Entry(r, x.gen))
  <2>1. CASE x.gen = None
    BY <1>1, <2>1
  <2>2. CASE x.gen # None
    <3>1. cache' = pages
      BY <1>1, <2>2
    <3>2. \A entry \in pages : entry \in cache \/ entry = Entry(r, x.gen)
      BY DEF pages
    <3> QED BY <2>2, <3>1, <3>2
  <2> QED BY <2>1, <2>2
<1>4. ASSUME x.gen # None
      PROVE  Entry(r, x.gen) \in Entries /\ x.gen <= generation /\ PageOK(Entry(r, x.gen))
  <2>1. Entry(r, x.gen) = [gen |-> x.gen, asked |-> x.asked, page |-> x.page]
    BY DEF Entry, x
  <2>2. x.gen \in Nat /\ x.asked \in Asked /\ x.page \in SUBSET (Items \cup Categories)
    BY <1>1, <1>4 DEF Reads, ReadOK
  <2>3. Right(history, x.page, x.asked, x.since) /\ x.gen <= generation /\ (x.gen = generation => x.since = settled)
    BY <1>1, <1>4 DEF ReadOK
  <2>4. \A q \in Apps : read[q].gen = x.gen => read[q].since = x.since
    BY <1>4 DEF CatalogInv, SameSince, x
  <2>5. PageOK(Entry(r, x.gen))
    BY <2>1, <2>3, <2>4 DEF PageOK
  <2> QED BY <2>1, <2>2, <2>3, <2>5 DEF Entries
<1>5. Stored'
  <2>1. Bumping' = Bumping
    BY <1>1 DEF Bumping
  <2>2. cache' \subseteq Entries /\ \A entry \in cache' : entry.gen <= generation
    <3>1. ASSUME x.gen # None PROVE Entry(r, x.gen).gen = x.gen
      BY DEF Entry
    <3> QED BY <1>3, <1>4, <3>1 DEF CatalogInv, Stored
  <2> QED BY <1>1, <1>2, <2>1, <2>2 DEF CatalogInv, Stored
<1>6. \A q \in Apps : ReadOK(read[q])'
  <2>1. ReadOK(read[r])'
    BY <1>1, <1>2 DEF ReadOK
  <2>2. ASSUME NEW q \in Apps, q # r PROVE ReadOK(read[q])'
    BY <1>1, <1>2, <2>2 DEF CatalogInv, ReadOK
  <2> QED BY <2>1, <2>2
<1>7. \A q, p \in Apps : SameSince(read[q], read[p])'
  BY <1>2 DEF CatalogInv, SameSince
<1>8. ASSUME NEW entry \in cache' PROVE PageOK(entry)'
  <2>1. PageOK(entry)
    BY <1>3, <1>4, <1>8 DEF CatalogInv
  <2> QED BY <1>1, <1>2, <2>1 DEF PageOK
<1> QED BY <1>5, <1>6, <1>7, <1>8 DEF CatalogInv

LEMMA AppStepKeepsCatalog ==
  ASSUME CatalogInv, NEW r \in Apps, AppStep(r)
  PROVE  CatalogInv'
<1> DEFINE x == read[r]
<1>0. /\ x \in Reads /\ ReadOK(x) /\ read \in [Apps -> Reads] /\ Len(history) \in Nat \ {0}
      /\ history \in Seq(Tables) /\ settled \in 1 .. Len(history) /\ generation \in Nat
      /\ NoRead \in Reads
  BY CatalogAssumption DEF CatalogInv, Stored, NoRead, Reads
<1>1. ReadOK(NoRead)
  BY <1>0 DEF ReadOK, NoRead
<1>2. \A db \in Tables : \A top : ShownUnder(db, top) \subseteq Categories
  BY DEF Tables, ShownUnder, Shown
<1>3. Db \in Tables /\ Db = history[Len(history)]
  BY <1>0 DEF Db, Last
<1>4. CASE \E asked \in Asked : Ask(r, asked)
  <2>1. PICK asked \in Asked : Ask(r, asked)
    BY <1>4
  <2>2. PICK gen \in {generation, None} :
          read' = [read EXCEPT ![r] = [NoRead EXCEPT !.at = IF gen = None THEN "load" ELSE "lookUp",
                                                     !.asked = asked, !.since = settled, !.gen = gen]]
    BY <2>1 DEF Ask
  <2> DEFINE y == [NoRead EXCEPT !.at = IF gen = None THEN "load" ELSE "lookUp",
                                 !.asked = asked, !.since = settled, !.gen = gen]
  <2>3. /\ y \in Reads /\ y.at = (IF gen = None THEN "load" ELSE "lookUp") /\ y.asked = asked
        /\ y.since = settled /\ y.gen = gen
    <3>1. y = [at |-> IF gen = None THEN "load" ELSE "lookUp", asked |-> asked, since |-> settled,
               gen |-> gen, under |-> {}, page |-> {}]
      <4> DEFINE step == IF gen = None THEN "load" ELSE "lookUp"
      <4>1. y = [NoRead EXCEPT !.at = step, !.asked = asked, !.since = settled, !.gen = gen]
        OBVIOUS
      <4> HIDE DEF step, y
      <4>2. y = [at |-> step, asked |-> asked, since |-> settled, gen |-> gen, under |-> {}, page |-> {}]
        BY <4>1 DEF NoRead
      <4> QED BY <4>2 DEF step
    <3>2. gen \in Nat \cup {None} /\ settled \in Nat
      BY <1>0
    <3> HIDE DEF y
    <3> QED BY <3>1, <3>2 DEF Reads
  <2> HIDE DEF y
  <2>4. read' = [read EXCEPT ![r] = y]
    BY <2>2 DEF y
  <2>5. ReadOK(y)
    BY <1>0, <2>3 DEF ReadOK
  <2>6. read' \in [Apps -> Reads] /\ read'[r] = y /\ \A q \in Apps : q # r => read'[q] = read[q]
    BY <1>0, <2>3, <2>4
  <2> QED BY <2>1, <2>3, <2>5, <2>6, ReadMoves DEF Ask
<1>5. CASE LookUp(r)
  <2>1. x.at = "lookUp" /\ x.gen # None /\ x.asked \in Asked
    BY <1>0, <1>5 DEF LookUp, ReadOK
  <2>2. CASE Go(r, "load")
    <3>1. /\ read' \in [Apps -> Reads] /\ \A q \in Apps : q # r => read'[q] = read[q]
          /\ read'[r].at = "load" /\ read'[r].asked = x.asked /\ read'[r].since = x.since /\ read'[r].gen = x.gen
      BY <1>0, <2>2 DEF Go, Reads
    <3>2. ReadOK(read'[r])
      BY <1>0, <2>1, <3>1 DEF ReadOK
    <3> QED BY <1>5, <3>1, <3>2, ReadMoves DEF LookUp
  <2>3. CASE \E entry \in cache : Hit(r, entry) /\ Serve(r, entry.page)
    <3>1. PICK entry \in cache : Hit(r, entry) /\ Serve(r, entry.page)
      BY <2>3
    <3>2. entry.page \in SUBSET (Items \cup Categories) /\ entry.asked = x.asked /\ entry.gen = x.gen
      BY <3>1 DEF CatalogInv, Stored, Entries, Hit
    <3>3. Right(history, entry.page, x.asked, x.since)
      BY <2>1, <3>2 DEF CatalogInv, PageOK
    <3>4. /\ read' \in [Apps -> Reads] /\ \A q \in Apps : q # r => read'[q] = read[q]
          /\ read'[r].at = "served" /\ read'[r].asked = x.asked /\ read'[r].since = x.since
          /\ read'[r].gen = None /\ read'[r].page = entry.page
      BY <1>0, <3>1, <3>2 DEF Serve, Reads
    <3>5. ReadOK(read'[r])
      BY <1>0, <2>1, <3>3, <3>4 DEF ReadOK
    <3> QED BY <1>5, <3>4, <3>5, ReadMoves DEF LookUp
  <2> QED BY <1>5, <2>2, <2>3 DEF LookUp
<1>6. CASE LoadCategories(r)
  <2>1. x.at = "load" /\ x.asked \in Asked /\ UNCHANGED <<history, generation, cache, edit, settled>>
    BY <1>0, <1>6 DEF LoadCategories, ReadOK
  <2>2. CASE ~Exists(Db, x.asked)
    <3>1. read' = [read EXCEPT ![r] = NoRead]
      BY <1>6, <2>2 DEF LoadCategories
    <3>2. read' \in [Apps -> Reads] /\ read'[r] = NoRead /\ \A q \in Apps : q # r => read'[q] = read[q]
      BY <1>0, <3>1
    <3>3. ReadOK(read'[r]) /\ read'[r].gen = None
      BY <1>1, <3>2 DEF NoRead
    <3> QED BY <2>1, <3>2, <3>3, ReadMoves
  <2>3. CASE Exists(Db, x.asked) /\ x.asked.list = "tree"
    <3> DEFINE page == ShownUnder(Db, Root) \ {Root}
    <3>1. page \in SUBSET (Items \cup Categories)
      BY <1>2, <1>3
    <3>2. Right(history, page, x.asked, x.since)
      <4>1. Len(history) \in x.since .. Len(history)
        BY <1>0 DEF ReadOK
      <4> QED BY <1>3, <2>3, <4>1 DEF Right
    <3>3. read' = [read EXCEPT ![r].at = "store", ![r].page = page]
      BY <1>6, <2>3 DEF LoadCategories
    <3> HIDE DEF page
    <3>4. /\ read' \in [Apps -> Reads] /\ \A q \in Apps : q # r => read'[q] = read[q]
          /\ read'[r].at = "store" /\ read'[r].asked = x.asked /\ read'[r].since = x.since
          /\ read'[r].gen = x.gen /\ read'[r].page = page
      BY <1>0, <3>1, <3>3 DEF Reads
    <3>5. ReadOK(read'[r])
      BY <1>0, <2>1, <3>2, <3>4 DEF ReadOK
    <3> QED BY <2>1, <3>4, <3>5, ReadMoves
  <2>4. CASE Exists(Db, x.asked) /\ x.asked.list # "tree"
    <3> DEFINE under == Under(Db, x.asked)
    <3>1. under \in SUBSET (Categories \cup {None})
      <4>1. x.asked.category \in Categories \cup {None}
        BY <2>1, CatalogAssumption DEF Asked
      <4> QED BY <1>2, <1>3, <4>1 DEF Under
    <3>2. Halfway(history, under, x.asked, x.since)
      <4>1. Len(history) \in x.since .. Len(history)
        BY <1>0 DEF ReadOK
      <4> QED BY <1>3, <2>4, <4>1 DEF Halfway
    <3>3. read' = [read EXCEPT ![r].at = "loadItems", ![r].under = under]
      BY <1>6, <2>4 DEF LoadCategories
    <3> HIDE DEF under
    <3>4. /\ read' \in [Apps -> Reads] /\ \A q \in Apps : q # r => read'[q] = read[q]
          /\ read'[r].at = "loadItems" /\ read'[r].asked = x.asked /\ read'[r].since = x.since
          /\ read'[r].gen = x.gen /\ read'[r].under = under
      BY <1>0, <3>1, <3>3 DEF Reads
    <3>5. ReadOK(read'[r])
      BY <1>0, <2>1, <3>2, <3>4 DEF ReadOK
    <3> QED BY <2>1, <3>4, <3>5, ReadMoves
  <2> QED BY <2>2, <2>3, <2>4
<1>7. CASE LoadItems(r)
  <2> DEFINE page == Listed(Db, x.under)
  <2>1. /\ x.at = "loadItems" /\ x.asked \in Asked /\ UNCHANGED <<history, generation, cache, edit, settled>>
        /\ Halfway(history, x.under, x.asked, x.since)
    BY <1>0, <1>7 DEF LoadItems, ReadOK
  <2>2. Right(history, page, x.asked, x.since)
    <3>1. PICK v \in x.since .. Len(history) : Exists(history[v], x.asked) /\ x.under = Under(history[v], x.asked)
      BY <2>1 DEF Halfway
    <3>2. Len(history) \in v .. Len(history)
      BY <1>0 DEF ReadOK
    <3>3. page = Listed(history[Len(history)], Under(history[v], x.asked))
      BY <1>3, <3>1
    <3> HIDE DEF page
    <3> QED BY <2>1, <3>1, <3>2, <3>3 DEF Right, Halfway
  <2>3. page \in SUBSET (Items \cup Categories)
    BY DEF Listed
  <2>4. read' = [read EXCEPT ![r].at = "store", ![r].page = page]
    BY <1>7 DEF LoadItems
  <2> HIDE DEF page
  <2>5. /\ read' \in [Apps -> Reads] /\ \A q \in Apps : q # r => read'[q] = read[q]
        /\ read'[r].at = "store" /\ read'[r].asked = x.asked /\ read'[r].since = x.since
        /\ read'[r].gen = x.gen /\ read'[r].page = page
    BY <1>0, <2>3, <2>4 DEF Reads
  <2>6. ReadOK(read'[r])
    BY <1>0, <2>1, <2>2, <2>5 DEF ReadOK
  <2> QED BY <2>1, <2>5, <2>6, ReadMoves
<1>8. CASE Keep(r)
  BY <1>8, KeepKeepsCatalog
<1>9. CASE Fetched(r)
  <2>1. read' = [read EXCEPT ![r] = NoRead] /\ UNCHANGED <<history, generation, cache, edit, settled>>
    BY <1>9 DEF Fetched
  <2>2. read' \in [Apps -> Reads] /\ read'[r] = NoRead /\ \A q \in Apps : q # r => read'[q] = read[q]
    BY <1>0, <2>1
  <2>3. ReadOK(read'[r]) /\ read'[r].gen = None
    BY <1>1, <2>2 DEF NoRead
  <2> QED BY <2>1, <2>2, <2>3, ReadMoves
<1> QED BY <1>4, <1>5, <1>6, <1>7, <1>8, <1>9 DEF AppStep

\* A commit: one bump is owed for it.
LEMMA CommitKeepsCatalog ==
  ASSUME CatalogInv, NEW e \in Admins, NEW db \in Tables, edit[e].at # "bump", Commit(e, db)
  PROVE  CatalogInv'
<1>1. /\ Len(history) <= MaxEdits /\ history' = Append(history, db)
      /\ edit' = [edit EXCEPT ![e] = [at |-> "bump", category |-> None]]
      /\ UNCHANGED <<generation, cache, read, settled>>
  BY DEF Commit
<1>2. /\ history \in Seq(Tables) /\ Len(history) \in Nat \ {0} /\ settled \in 1 .. Len(history)
      /\ MaxEdits \in Nat /\ generation \in Nat
  BY CatalogAssumption DEF CatalogInv, Stored
<1>3. history' \in Seq(Tables) /\ Len(history') = Len(history) + 1
  BY <1>1, <1>2
<1>4. IsFiniteSet(Bumping) /\ Cardinality(Bumping) \in Nat
  BY CatalogAssumption, FS_Subset, FS_CardinalityType DEF Bumping
<1>5. Cardinality(Bumping') = Cardinality(Bumping) + 1
  <2>1. Bumping' = Bumping \cup {e} /\ e \notin Bumping
    BY <1>1 DEF Bumping, CatalogInv, Stored
  <2> QED BY <1>4, <2>1, FS_AddElement
<1>6. edit' \in [Admins -> Edits]
  BY <1>1 DEF CatalogInv, Stored, Edits
<1>7. Stored'
  BY <1>1, <1>2, <1>3, <1>4, <1>5, <1>6 DEF CatalogInv, Stored
<1>8. ASSUME NEW r \in Apps PROVE ReadOK(read[r])'
  <2> DEFINE x == read[r]
  <2>1. ReadOK(x) /\ x.since \in Nat \ {0} /\ x.since \in 1 .. Len(history')
    BY <1>2, <1>3 DEF CatalogInv, ReadOK
  <2>2. x.at = "loadItems" => Halfway(history', x.under, x.asked, x.since)
    <3>1. x.at = "loadItems" => Halfway(history, x.under, x.asked, x.since)
      BY <2>1 DEF ReadOK
    <3> HIDE DEF x
    <3> QED BY <1>1, <1>2, <2>1, <3>1, CommitsAdd
  <2>3. x.at \in {"store", "served"} => Right(history', x.page, x.asked, x.since)
    <3>1. x.at \in {"store", "served"} => Right(history, x.page, x.asked, x.since)
      BY <2>1 DEF ReadOK
    <3> HIDE DEF x
    <3> QED BY <1>1, <1>2, <2>1, <3>1, CommitsAdd
  <2> QED BY <1>1, <2>1, <2>2, <2>3 DEF ReadOK
<1>9. \A r, q \in Apps : SameSince(read[r], read[q])'
  BY <1>1 DEF CatalogInv, SameSince
<1>10. ASSUME NEW entry \in cache PROVE PageOK(entry)'
  <2>1. entry.gen = generation => Right(history', entry.page, entry.asked, settled)
    <3>1. entry.gen = generation => Right(history, entry.page, entry.asked, settled)
      BY DEF CatalogInv, PageOK
    <3> QED BY <1>1, <1>2, <3>1, CommitsAdd
  <2>2. ASSUME NEW r \in Apps, read[r].gen # None, read[r].gen = entry.gen
        PROVE  Right(history', entry.page, entry.asked, read[r].since)
    <3>1. Right(history, entry.page, entry.asked, read[r].since)
      BY <2>2 DEF CatalogInv, PageOK
    <3>2. read[r].since \in Nat \ {0}
      BY <1>2 DEF CatalogInv, ReadOK
    <3> QED BY <1>1, <1>2, <3>1, <3>2, CommitsAdd
  <2> QED BY <1>1, <2>1, <2>2 DEF PageOK
<1> QED BY <1>1, <1>7, <1>8, <1>9, <1>10 DEF CatalogInv

\* A step of an administrator that changes nothing the app sees.
LEMMA EditMoves ==
  ASSUME CatalogInv, edit' \in [Admins -> Edits], Bumping' \subseteq Bumping,
         UNCHANGED <<history, generation, cache, read, settled>>
  PROVE  CatalogInv'
<1>1. Cardinality(Bumping) \in Nat /\ Cardinality(Bumping') \in Nat /\ Cardinality(Bumping') <= Cardinality(Bumping)
  BY CatalogAssumption, FS_Subset, FS_CardinalityType DEF Bumping
<1>2. Stored'
  BY <1>1 DEF CatalogInv, Stored
<1> QED BY <1>2 DEF CatalogInv, ReadOK, SameSince, PageOK

\* The bump: no page and no request has the new generation yet.
LEMMA BumpKeepsCatalog ==
  ASSUME CatalogInv, NEW e \in Admins, Bump(e)
  PROVE  CatalogInv'
<1>1. /\ edit[e].at = "bump" /\ generation' = generation + 1 /\ settled' = Len(history)
      /\ edit' = [edit EXCEPT ![e] = NoEdit] /\ UNCHANGED <<history, cache, read>>
  BY DEF Bump
<1>2. generation \in Nat /\ Len(history) \in Nat \ {0} /\ edit \in [Admins -> Edits] /\ cache \subseteq Entries
  BY CatalogAssumption DEF CatalogInv, Stored
<1>3. Stored'
  <2>1. IsFiniteSet(Bumping) /\ Cardinality(Bumping) \in Nat
    BY CatalogAssumption, FS_Subset, FS_CardinalityType DEF Bumping
  <2>2. Bumping' = Bumping \ {e} /\ e \in Bumping
    BY <1>1, <1>2 DEF Bumping, NoEdit
  <2>3. Cardinality(Bumping') = Cardinality(Bumping) - 1
    BY <2>1, <2>2, FS_RemoveElement
  <2>4. edit' \in [Admins -> Edits]
    BY <1>1, <1>2 DEF NoEdit, Edits
  <2>5. \A entry \in cache : entry.gen <= generation'
    BY <1>1, <1>2 DEF CatalogInv, Stored, Entries
  <2> QED BY <1>1, <1>2, <2>1, <2>3, <2>4, <2>5 DEF CatalogInv, Stored
<1>4. ASSUME NEW r \in Apps PROVE ReadOK(read[r])'
  <2>1. read[r].gen # None => read[r].gen <= generation' /\ read[r].gen # generation'
    BY <1>1, <1>2 DEF CatalogInv, ReadOK, Stored, Reads
  <2> QED BY <1>1, <2>1 DEF CatalogInv, ReadOK
<1>5. \A r, q \in Apps : SameSince(read[r], read[q])'
  BY <1>1 DEF CatalogInv, SameSince
<1>6. ASSUME NEW entry \in cache PROVE PageOK(entry)'
  <2>1. entry.gen # generation'
    BY <1>1, <1>2 DEF CatalogInv, Stored, Entries
  <2> QED BY <1>1, <2>1 DEF CatalogInv, PageOK
<1> QED BY <1>1, <1>3, <1>4, <1>5, <1>6 DEF CatalogInv

LEMMA AdminStepKeepsCatalog ==
  ASSUME CatalogInv, NEW e \in Admins, AdminStep(e)
  PROVE  CatalogInv'
<1>0. /\ edit \in [Admins -> Edits] /\ history \in Seq(Tables) /\ Len(history) \in Nat \ {0}
      /\ NoEdit.at # "bump" /\ NoEdit \in Edits
  BY CatalogAssumption DEF CatalogInv, Stored, NoEdit, Edits
<1>1. Db \in Tables
  BY <1>0 DEF Db, Last
<1>2. CASE \E c \in Categories, parent \in Categories \cup {None} : CreateCategory(e, c, parent)
  <2>1. PICK c \in Categories, parent \in Categories \cup {None} : CreateCategory(e, c, parent)
    BY <1>2
  <2>2. [Db EXCEPT !.categories = @ \cup {c}, !.parent[c] = parent] \in Tables
    BY <1>1 DEF Tables
  <2>3. Commit(e, [Db EXCEPT !.categories = @ \cup {c}, !.parent[c] = parent]) /\ edit[e].at # "bump"
    BY <1>0, <2>1 DEF CreateCategory
  <2> QED BY <2>2, <2>3, CommitKeepsCatalog
<1>3. CASE \E c \in Categories : ShowOrHide(e, c)
  <2>1. PICK c \in Categories : ShowOrHide(e, c)
    BY <1>3
  <2> DEFINE db == [Db EXCEPT !.hidden = IF c \in @ THEN @ \ {c} ELSE @ \cup {c}]
  <2>2. db \in Tables
    BY <1>1 DEF Tables
  <2>3. Commit(e, db) /\ edit[e].at # "bump"
    BY <1>0, <2>1 DEF ShowOrHide
  <2> HIDE DEF db
  <2> QED BY <2>2, <2>3, CommitKeepsCatalog
<1>4. CASE \E i \in Items, c \in Categories \cup {None} : File(e, i, c)
  <2>1. PICK i \in Items, c \in Categories \cup {None} : File(e, i, c)
    BY <1>4
  <2>2. [Db EXCEPT !.filed[i] = c] \in Tables
    BY <1>1 DEF Tables
  <2>3. Commit(e, [Db EXCEPT !.filed[i] = c]) /\ edit[e].at # "bump"
    BY <1>0, <2>1 DEF File
  <2> QED BY <2>2, <2>3, CommitKeepsCatalog
<1>5. CASE \E i \in Items : Publication(e, i)
  <2>1. PICK i \in Items : Publication(e, i)
    BY <1>5
  <2> DEFINE db == [Db EXCEPT !.published = IF i \in @ THEN @ \ {i} ELSE @ \cup {i}]
  <2>2. db \in Tables
    BY <1>1 DEF Tables
  <2>3. Commit(e, db) /\ edit[e].at # "bump"
    BY <1>0, <2>1 DEF Publication
  <2> HIDE DEF db
  <2> QED BY <2>2, <2>3, CommitKeepsCatalog
<1>6. CASE RemoveCategory(e)
  <2> DEFINE c == edit[e].category
             Cleared(f) == [x \in DOMAIN f |-> IF f[x] = c THEN None ELSE f[x]]
             db == [Db EXCEPT !.categories = @ \ {c}, !.hidden = @ \ {c},
                              !.parent = [Cleared(@) EXCEPT ![c] = None], !.filed = Cleared(@)]
  <2>1. Commit(e, db) /\ edit[e].at = "remove"
    BY <1>6 DEF RemoveCategory
  <2>2. db \in Tables
    <3>1. /\ Cleared(Db.filed) \in [Items -> Categories \cup {None}]
          /\ [Cleared(Db.parent) EXCEPT ![c] = None] \in [Categories -> Categories \cup {None}]
      BY <1>1 DEF Tables
    <3> QED BY <1>1, <3>1 DEF Tables
  <2> HIDE DEF db
  <2> QED BY <2>1, <2>2, CommitKeepsCatalog
<1>7. CASE Bump(e)
  BY <1>7, BumpKeepsCatalog
<1>8. CASE (\E c \in Categories : CheckChildren(e, c)) \/ CheckItems(e) \/ EditEnds(e)
  <2>1. edit' \in [Admins -> Edits] /\ \A a \in Admins : edit'[a] = edit[a] \/ edit'[a].at # "bump"
    <3>1. CASE \E c \in Categories : CheckChildren(e, c)
      <4>1. PICK c \in Categories : CheckChildren(e, c)
        BY <3>1
      <4>2. edit' = [edit EXCEPT ![e] = [@ EXCEPT !.at = "checkItems", !.category = c]]
        BY <1>0, <4>1 DEF CheckChildren
      <4> QED BY <1>0, <4>2 DEF Edits
    <3>2. CASE CheckItems(e)
      BY <1>0, <3>2 DEF CheckItems, Edits
    <3>3. CASE EditEnds(e)
      BY <1>0, <3>3 DEF EditEnds
    <3> QED BY <1>8, <3>1, <3>2, <3>3
  <2>2. Bumping' \subseteq Bumping
    BY <2>1 DEF Bumping
  <2>3. UNCHANGED <<history, generation, cache, read, settled>>
    BY <1>8 DEF CheckChildren, CheckItems, EditEnds
  <2> QED BY <2>1, <2>2, <2>3, EditMoves
<1> QED BY <1>2, <1>3, <1>4, <1>5, <1>6, <1>7, <1>8 DEF AdminStep

\* The catalog's invariant holds throughout.
THEOREM CatalogInvHolds == CatalogSpec => []CatalogInv
<1>1. CatalogInv /\ [CatalogNext]_catalogVars => CatalogInv'
  <2> SUFFICES ASSUME CatalogInv, [CatalogNext]_catalogVars PROVE CatalogInv'
    OBVIOUS
  <2>1. CASE CatalogNext
    BY <2>1, AdminStepKeepsCatalog, AppStepKeepsCatalog DEF CatalogNext
  <2>2. CASE UNCHANGED catalogVars
    BY <2>2 DEF catalogVars, CatalogInv, Stored, Bumping, ReadOK, SameSince, PageOK
  <2> QED BY <2>1, <2>2
<1> QED BY <1>1, CatalogStarts, PTL DEF CatalogSpec

\* "every admin change bumps, so edits show at once": what an app is served was in
\* the database when, or after, the last change bumped before it asked.
THEOREM EditsShowAtOnce == CatalogSpec => []EditsShow
<1>1. CatalogInv => EditsShow
  BY DEF CatalogInv, ReadOK, Right, EditsShow
<1> QED BY <1>1, CatalogInvHolds, PTL

\* The types, and one generation to a committed change.
THEOREM CatalogTyped == CatalogSpec => []CatalogTypeOK
<1>1. ASSUME CatalogInv PROVE CatalogTypeOK
  <2>1. Cardinality(Bumping) \in Nat
    BY CatalogAssumption, FS_Subset, FS_CardinalityType DEF Bumping
  <2>2. history # <<>> /\ Len(history) <= MaxEdits + 1
    BY <1>1, CatalogAssumption DEF CatalogInv, Stored
  <2>3. generation \in 0 .. MaxEdits
    BY <1>1, <2>1, CatalogAssumption DEF CatalogInv, Stored
  <2> QED BY <1>1, <2>2, <2>3 DEF CatalogInv, Stored, ReadOK, Entries, Reads, CatalogTypeOK
<1> QED BY <1>1, CatalogInvHolds, PTL

=============================================================================
