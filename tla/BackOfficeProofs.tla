--------------------------- MODULE BackOfficeProofs ---------------------------
(***************************************************************************)
(* Proofs about what the owner and the administrators do, each part for    *)
(* any values of its constants: Backups (the newest backup stays, and      *)
(* automatic ones keep their interval), AdminTokens (the budget of failed  *)
(* logins), Pricing (there is one price, and it is right), Providers (one  *)
(* provider is active) and Settings.  The parts share no variable.         *)
(***************************************************************************)
EXTENDS Backups, AdminTokens, Pricing, Providers, Settings, FiniteSetTheorems, WellFoundedInduction, TLAPS

-----------------------------------------------------------------------------
(* Backups: the invariant *)

Days == Intervals \union {0}

Stored == [at : 0..MaxTime, trigger : {"auto", "manual"}, days : Days]

\* A manual backup has no interval.
Proper(b) == b \in Stored /\ (b.days = 0 <=> b.trigger = "manual")

\* The order of names.
Rank(b) == 2 * b.at + (IF b.trigger = "manual" THEN 1 ELSE 0)

\* The types, what a job's step says of it, and the backup it makes.
Working ==
  /\ now \in 0..MaxTime /\ every \in Days
  /\ worker \in [at : {"idle", "settings", "list", "file", "dump", "upload", "remove", "record"},
                 kind : {"check", "run", None}, again : BOOLEAN, called : 0..MaxTime,
                 item : Stored \union {None}, days : Days]
  /\ worker.kind = None <=> worker.at = "idle"
  /\ worker.at \in {"settings", "list"} => worker.kind = "check"
  /\ worker.called <= now
  /\ worker.at \in {"list", "file", "dump", "upload", "remove", "record"} =>
       (worker.days = 0 <=> worker.kind = "run")
  /\ worker.at = "settings" => worker.days = 0
  /\ worker.item # None <=> worker.at \in {"dump", "upload", "remove", "record"}
  /\ worker.item # None =>
       /\ Proper(worker.item) /\ worker.item.days = worker.days
       /\ worker.item.at >= worker.called /\ worker.item.at <= now

\* Jobs and files.
Queued ==
  /\ check \in {"delayed", "waiting"} /\ request \in {"idle", "asking", "waiting"}
  /\ stalled \subseteq {"check", "run"} /\ booting \in BOOLEAN
  /\ temps \subseteq {"own", "left"} /\ deleting \in [Deleters -> Stored \union {None}]
  /\ worker.at \in {"dump", "upload"} => "own" \in temps
  /\ (worker.kind = "run" \/ "run" \in stalled) => request # "waiting"

\* The bucket, of which the newest backup is one, and ahead of all others.
Ordered ==
  /\ \A b \in bucket : Proper(b) /\ b.at <= now
  /\ newest # None => newest \in bucket
  /\ newest = None => bucket = {}
  /\ \A b \in bucket : b = newest \/ Rank(b) < Rank(newest)

\* A deletion is of a backup that is not the newest, and so never will be.
Older == \A d \in Deleters : deleting[d] # None =>
  newest # None /\ deleting[d] \in Stored /\ Rank(deleting[d]) < Rank(newest)

\* A check that goes on to a backup has asked whether one is due, and nobody else
\* adds automatic ones; a backup that is being made is not older than any.
Waited ==
  /\ worker.at \in {"file", "dump", "upload"} /\ worker.kind = "check" =>
       \A a \in Autos : worker.called + Slack >= a.at + worker.days * DayLength
  /\ worker.at \in {"dump", "upload"} => \A b \in bucket : b.at <= worker.item.at

BackupsInv == Working /\ Queued /\ Ordered /\ Older /\ Waited /\ AutosAreSpaced

\* A set of natural numbers that has a bound has a greatest element.
LEMMA GreatestExists ==
  ASSUME NEW N \in Nat, NEW T \in SUBSET (0..N), T # {}
  PROVE  \E m \in T : \A n \in T : n <= m
<1> DEFINE U == {x..N : x \in T}
<1>1. U \subseteq FiniteSubsetsOf(Nat)
  <2>1. ASSUME NEW x \in T PROVE x..N \in SUBSET Nat /\ IsFiniteSet(x..N)
    BY FS_Interval
  <2> QED BY <2>1 DEF FiniteSubsetsOf
<1>2. U # {}
  OBVIOUS
<1>3. PICK M \in U : \A L \in U : ~(<<L, M>> \in StrictSubsetOrdering(Nat))
  <2> HIDE DEF U
  <2> QED BY <1>1, <1>2, WFMin, FS_StrictSubsetOrderingWellFounded
<1>4. PICK m \in T : M = m..N
  BY <1>3
<1>5. ASSUME NEW n \in T, ~(n <= m) PROVE FALSE
  <2>1. n..N \in U /\ n..N \subseteq m..N /\ n..N # m..N
    BY <1>5
  <2>2. <<n..N, m..N>> \in StrictSubsetOrdering(Nat)
    BY <2>1 DEF StrictSubsetOrdering
  <2> QED BY <2>1, <2>2, <1>3, <1>4
<1> QED BY <1>5

-----------------------------------------------------------------------------
(* Backups: the steps *)

\* The initial state has no job and no backup.
LEMMA BackupsStart ==
  ASSUME BackupsInit
  PROVE  BackupsInv
<1> USE BackupsAssumption DEF BackupsInit, Asleep
<1>1. Working
  BY DEF Working, Stored, Days
<1>2. Queued
  BY DEF Queued
<1>3. Ordered /\ Older /\ Waited /\ AutosAreSpaced
  BY DEF Ordered, Older, Waited, AutosAreSpaced, Autos
<1> QED BY <1>1, <1>2, <1>3 DEF BackupsInv

\* Of a step of the worker and the scheduler, what it does to the job.
LEMMA StepWorks ==
  ASSUME BackupsInv, BackupsNext
  PROVE  Working'
<1> USE DEF BackupsInv, Working, Asleep, jobs, files, Days, Proper
<1>0. /\ None \notin Stored /\ None \notin {"check", "run"} /\ 0 \notin Intervals /\ MaxTime \in Nat
      /\ \A b \in Stored : b.at \in Int
  BY BackupsAssumption DEF Stored
<1>1. CASE TimePasses \/ UpdateSettings \/ AskBackup \/ AddRun \/ RemoveLeftovers
  BY <1>0, <1>1 DEF TimePasses, UpdateSettings, AskBackup, AddRun, RemoveLeftovers
<1>2. CASE TakeCheck \/ TakeRun \/ TakeStalled
  <2>1. PICK kind \in {"check", "run"}, again \in BOOLEAN : PickUp(kind, again)
    BY <1>2 DEF TakeCheck, TakeRun, TakeStalled, Queued
  <2>2. /\ worker' = [at |-> First(kind), kind |-> kind, again |-> again, called |-> now,
                      item |-> None, days |-> 0]
        /\ UNCHANGED <<now, every>>
    BY <2>1 DEF PickUp
  <2> QED BY <1>0, <2>2 DEF First
<1>a. ASSUME worker' = Asleep, UNCHANGED <<now, every>> PROVE Working'
  BY <1>0, <1>a
<1>3. CASE ReadSettings
  <2>1. CASE every > 0
    <3>1. /\ worker' = [worker EXCEPT !.at = "list", !.days = every] /\ worker.at = "settings"
          /\ UNCHANGED <<now, every>>
      BY <1>3, <2>1 DEF ReadSettings
    <3>2. worker.kind = "check" /\ every # 0 /\ worker.item = None
      BY <3>1, <2>1
    <3>3. /\ worker'.at = "list" /\ worker'.kind = "check" /\ worker'.item = None
          /\ worker'.days = every /\ worker'.called = worker.called
      BY <3>1, <3>2
    <3>4. worker' \in [at : {"idle", "settings", "list", "file", "dump", "upload", "remove", "record"},
                       kind : {"check", "run", None}, again : BOOLEAN, called : 0..MaxTime,
                       item : Stored \union {None}, days : Days]
      BY <3>1
    <3> HIDE <2>1
    <3> QED BY <3>1, <3>2, <3>3, <3>4, <1>0
  <2> QED BY <2>1, <1>3, <1>a DEF ReadSettings
<1>4. CASE ListBucket
  <2>1. CASE worker' = [worker EXCEPT !.at = "file"]
    <3>1. worker.at = "list" /\ UNCHANGED <<now, every>>
      BY <1>4 DEF ListBucket
    <3> QED BY <2>1, <3>1, <1>0
  <2> QED BY <2>1, <1>4, <1>a DEF ListBucket
<1>5. CASE CreateFile
  <2>1. /\ worker' = [worker EXCEPT !.at = "dump", !.item = worker'.item]
        /\ worker.at = "file" /\ UNCHANGED <<now, every>>
    BY <1>5 DEF CreateFile
  <2>2. worker'.item = [at |-> now, trigger |-> IF worker.kind = "check" THEN "auto" ELSE "manual",
                        days |-> worker.days]
    BY <1>5 DEF CreateFile
  <2>3. worker'.item \in Stored /\ (worker'.item.days = 0 <=> worker'.item.trigger = "manual")
    BY <2>1, <2>2, <1>0 DEF Stored
  <2>4. worker'.item # None /\ worker'.item.at = now
    BY <2>2, <2>3, <1>0
  <2>5. /\ worker'.at = "dump" /\ worker'.kind = worker.kind /\ worker'.days = worker.days
        /\ worker'.called = worker.called
    BY <2>1
  <2>6. worker' \in [at : {"idle", "settings", "list", "file", "dump", "upload", "remove", "record"},
                     kind : {"check", "run", None}, again : BOOLEAN, called : 0..MaxTime,
                     item : Stored \union {None}, days : Days]
    BY <2>1, <2>3
  <2>7. worker'.item.days = worker'.days
    BY <2>2, <2>5
  <2>8. UNCHANGED <<now, every>> /\ worker.at = "file"
    BY <2>1
  <2> HIDE <1>5
  <2> QED BY <2>3, <2>4, <2>5, <2>6, <2>7, <2>8, <1>0
<1>6. CASE Dump
  BY <1>0, <1>6 DEF Dump
<1>7. CASE Upload
  BY <1>0, <1>7 DEF Upload
<1>8. CASE RemoveFile
  BY <1>0, <1>8 DEF RemoveFile
<1>9. CASE RunFails \/ RecordRun \/ Restart
  BY <1>9, <1>a DEF RunFails, RecordRun, Restart
<1>10. ASSUME NEW d \in Deleters, FindBackup(d) \/ DeleteObject(d) PROVE Working'
  BY <1>0, <1>10 DEF FindBackup, DeleteObject
<1> QED BY <1>1, <1>2, <1>3, <1>4, <1>5, <1>6, <1>7, <1>8, <1>9, <1>10 DEF BackupsNext

\* And to the queue and the files.
LEMMA StepQueues ==
  ASSUME BackupsInv, BackupsNext
  PROVE  Queued'
<1> USE BackupsAssumption DEF BackupsInv, Queued, Asleep, jobs, files
<1>1. CASE TimePasses \/ UpdateSettings \/ AskBackup \/ AddRun \/ RemoveLeftovers
  BY <1>1 DEF TimePasses, UpdateSettings, AskBackup, AddRun, RemoveLeftovers, Spared, Working
<1>2. CASE TakeCheck \/ TakeRun \/ TakeStalled
  <2>1. PICK kind \in {"check", "run"}, again \in BOOLEAN : PickUp(kind, again)
    BY <1>2 DEF TakeCheck, TakeRun, TakeStalled
  <2>2. worker'.kind = kind /\ worker'.at \in {"settings", "file"} /\ UNCHANGED <<temps, booting, deleting>>
    BY <2>1 DEF PickUp, First
  <2>3. /\ check' \in {"delayed", "waiting"} /\ request' \in {"idle", "asking", "waiting"}
        /\ stalled' \subseteq stalled
        /\ kind = "run" => request' # "waiting"
        /\ request' = request \/ request' = "idle"
    BY <1>2, <2>1, <2>2 DEF TakeCheck, TakeRun, TakeStalled, PickUp
  <2> QED BY <2>2, <2>3
<1>3. CASE ReadSettings
  BY <1>3 DEF ReadSettings, Working
<1>d. CASE ListBucket
  BY <1>d DEF ListBucket, Working
<1>4. CASE CreateFile
  BY <1>4 DEF CreateFile, Working
<1>a. CASE Dump \/ Upload
  BY <1>a DEF Dump, Upload, Working
<1>b. CASE RemoveFile
  BY <1>b DEF RemoveFile, Working
<1>c. CASE RecordRun
  BY <1>c DEF RecordRun, Working
<1>5. CASE RunFails
  BY <1>5 DEF RunFails, Working
<1>6. CASE Restart
  BY <1>6 DEF Restart, Working
<1>7. ASSUME NEW d \in Deleters, FindBackup(d) \/ DeleteObject(d) PROVE Queued'
  BY ZenonT(40), <1>7 DEF FindBackup, DeleteObject, Ordered, Proper
<1> QED BY <1>1, <1>2, <1>3, <1>d, <1>4, <1>a, <1>b, <1>c, <1>5, <1>6, <1>7 DEF BackupsNext

\* A positive multiple of a number is no smaller.
LEMMA NoSmaller ==
  ASSUME NEW n \in Nat \ {0}, NEW m \in Nat
  PROVE  n * m \in Nat /\ n * m >= m
<1>1. (n - 1) * m \in Nat /\ n * m = (n - 1) * m + m
  OBVIOUS
<1> QED BY <1>1

\* A backup that is about to be stored has a name of its own, or is there already:
\* an automatic one is later than the automatic ones before it, by the interval it
\* has waited for.
LEMMA NamedApart ==
  ASSUME BackupsInv, worker.at = "upload", NEW b \in bucket
  PROVE  /\ Rank(b) = Rank(worker.item) => b = worker.item
         /\ Rank(b) <= 2 * worker.item.at + 1
         /\ b.trigger = "auto" /\ worker.item.trigger = "auto" => b.at < worker.item.at
<1> DEFINE i == worker.item
<1>1. /\ i \in Stored /\ (i.days = 0 <=> i.trigger = "manual") /\ i.days = worker.days
      /\ worker.called \in Nat /\ i.at >= worker.called
      /\ worker.kind \in {"check", "run"} /\ (worker.days = 0 <=> worker.kind = "run")
  BY BackupsAssumption DEF BackupsInv, Working, Proper
<1>2. b \in Stored /\ (b.days = 0 <=> b.trigger = "manual") /\ b.at <= i.at
  BY DEF BackupsInv, Ordered, Proper, Waited
<1>3. ASSUME b.trigger = "auto", i.trigger = "auto" PROVE b.at < i.at
  <2>1. worker.called + Slack >= b.at + i.days * DayLength
    BY <1>1, <1>3 DEF BackupsInv, Waited, Autos
  <2>2. i.days \in Nat \ {0} /\ DayLength \in Nat /\ Slack \in Nat /\ Slack < DayLength
    BY BackupsAssumption, <1>1, <1>3 DEF Stored, Days
  <2>3. i.days * DayLength \in Nat /\ i.days * DayLength >= DayLength
    BY <2>2, NoSmaller
  <2>4. i.at \in Nat /\ b.at \in Nat
    BY BackupsAssumption, <1>1, <1>2 DEF Stored
  <2> QED BY <2>1, <2>2, <2>3, <2>4, <1>1
<1>4. i.at \in Nat /\ b.at \in Nat /\ i.trigger \in {"auto", "manual"} /\ b.trigger \in {"auto", "manual"}
  BY BackupsAssumption, <1>1, <1>2 DEF Stored
<1>5. Rank(b) <= 2 * i.at + 1
  BY <1>2, <1>4 DEF Rank
<1>6. ASSUME Rank(b) = Rank(i) PROVE b = i
  <2>1. b.at = i.at /\ b.trigger = i.trigger
    BY <1>4, <1>6 DEF Rank
  <2>2. b.trigger = "manual"
    BY <2>1, <1>3, <1>4
  <2>3. b.days = 0 /\ i.days = 0
    BY <2>1, <2>2, <1>1, <1>2
  <2>4. \A x \in Stored : x = [at |-> x.at, trigger |-> x.trigger, days |-> x.days]
    BY DEF Stored
  <2>5. b = [at |-> b.at, trigger |-> b.trigger, days |-> b.days]
    BY <2>4, <1>2
  <2>6. i = [at |-> i.at, trigger |-> i.trigger, days |-> i.days]
    BY <2>4, <1>1
  <2> HIDE DEF i
  <2> QED BY <2>1, <2>3, <2>5, <2>6
<1> QED BY <1>3, <1>5, <1>6

\* What the names are compared by is their rank.
LEMMA NewestIsHighest ==
  ASSUME NEW list \in SUBSET Stored, NEW m \in list,
         \A b \in list : b = m \/ Rank(b) < Rank(m)
  PROVE  Newest(list) = m
<1> DEFINE Higher(b, a) == a.at < b.at \/ (a.at = b.at /\ (b.trigger = "manual" \/ a.trigger = "auto"))
<1>1. ASSUME NEW a \in list, NEW b \in list PROVE Higher(b, a) <=> Rank(a) <= Rank(b)
  BY BackupsAssumption, <1>1 DEF Rank, Stored
<1>2. \A a \in list : Rank(a) \in Int
  BY BackupsAssumption DEF Rank, Stored
<1>3. \A a \in list : Higher(m, a)
  BY <1>1, <1>2
<1>4. ASSUME NEW b \in list, \A a \in list : Higher(b, a) PROVE b = m
  BY <1>1, <1>2, <1>4
<1> HIDE DEF Higher
<1>5. Newest(list) = CHOOSE b \in list : \A a \in list : Higher(b, a)
  BY DEF Newest, Higher
<1> QED BY <1>3, <1>4, <1>5

\* Storing a backup keeps the order, and never lowers the newest.
LEMMA StoreOrders ==
  ASSUME BackupsInv, worker.at = "upload", Store, UNCHANGED now
  PROVE  /\ Ordered'
         /\ newest' # None /\ newest' \in Stored
         /\ newest # None => Rank(newest) <= Rank(newest')
<1> DEFINE i == worker.item
           list == {i} \union ({newest} \ {None})
<1>1. /\ i \in Stored /\ (i.days = 0 <=> i.trigger = "manual") /\ i.at <= now
      /\ None \notin Stored
  BY BackupsAssumption DEF BackupsInv, Working, Proper, Stored, Days
<1>2. /\ \A b \in bucket : b \in Stored /\ (b.days = 0 <=> b.trigger = "manual") /\ b.at <= now
      /\ newest # None => newest \in bucket
      /\ newest = None => bucket = {}
      /\ \A b \in bucket : b = newest \/ Rank(b) < Rank(newest)
  BY DEF BackupsInv, Ordered, Proper
<1>3. \A b \in Stored : Rank(b) \in Int
  BY BackupsAssumption DEF Rank, Stored
<1>4. \A b \in bucket : Rank(b) = Rank(i) => b = i
  BY NamedApart
<1>5. PICK m \in list : \A b \in list : b = m \/ Rank(b) < Rank(m)
  BY <1>1, <1>2, <1>3, <1>4
<1>6. newest' = m /\ bucket' = bucket \union {i}
  <2>1. list \in SUBSET Stored
    BY <1>1, <1>2
  <2>2. Newest(list) = m
    <3> HIDE DEF list
    <3> QED BY <2>1, <1>5, NewestIsHighest
  <2> QED BY <2>2 DEF Store
<1>7. m \in bucket' /\ m \in Stored /\ m # None
  BY <1>1, <1>2, <1>6
<1>8. ASSUME NEW b \in bucket' PROVE b = m \/ Rank(b) < Rank(m)
  <2>1. CASE b = i
    BY <2>1, <1>5
  <2>2. CASE b \in bucket
    <3>1. newest \in list /\ newest \in Stored /\ b \in Stored /\ m \in Stored
      BY <2>2, <1>1, <1>2, <1>7
    <3> QED BY <2>2, <3>1, <1>2, <1>3, <1>5
  <2> QED BY <2>1, <2>2, <1>6
<1>9. newest # None => Rank(newest) <= Rank(m)
  BY <1>1, <1>2, <1>3, <1>5, <1>7
<1>10. \A b \in bucket' : Proper(b) /\ b.at <= now'
  BY <1>1, <1>2, <1>6 DEF Proper
<1> QED BY <1>6, <1>7, <1>8, <1>9, <1>10 DEF Ordered

\* The order of the backups.
LEMMA StepOrders ==
  ASSUME BackupsInv, BackupsNext
  PROVE  Ordered' /\ Older'
<1>0. /\ None \notin Stored /\ \A b \in Stored : Rank(b) \in Int
      /\ now \in Nat /\ deleting \in [Deleters -> Stored \union {None}]
  BY BackupsAssumption DEF BackupsInv, Working, Queued, Stored, Days, Rank
<1>1. ASSUME UNCHANGED <<bucket, newest>>, now <= now', now' \in Nat PROVE Ordered'
  BY BackupsAssumption, <1>0, <1>1 DEF BackupsInv, Ordered, Proper, Stored
<1>2. ASSUME UNCHANGED newest, deleting' = deleting \/ deleting' = [d \in Deleters |-> None] PROVE Older'
  BY <1>0, <1>2 DEF BackupsInv, Older, Rank
<1>3. CASE TimePasses \/ UpdateSettings \/ AskBackup \/ AddRun \/ RemoveLeftovers \/ Restart
  BY <1>0, <1>1, <1>2, <1>3
     DEF TimePasses, UpdateSettings, AskBackup, AddRun, RemoveLeftovers, Restart, jobs, files
<1>4. CASE TakeCheck \/ TakeRun \/ TakeStalled
  <2>1. \E kind \in {"check", "run"} : \E again \in BOOLEAN : PickUp(kind, again)
    BY <1>4 DEF TakeCheck, TakeRun, TakeStalled, BackupsInv, Queued
  <2>2. UNCHANGED <<now, bucket, newest, deleting>>
    BY <2>1 DEF PickUp, files
  <2> QED BY <1>0, <1>1, <1>2, <2>2
<1>5. CASE \/ ReadSettings \/ ListBucket \/ CreateFile \/ Dump \/ RemoveFile \/ RecordRun
  BY <1>0, <1>1, <1>2, <1>5
     DEF ReadSettings, ListBucket, CreateFile, Dump, RemoveFile, RecordRun, jobs, files
<1>6. CASE Upload \/ RunFails
  <2>1. UNCHANGED <<now, deleting>> /\ (UNCHANGED <<bucket, newest>> \/ (worker.at = "upload" /\ Store))
    BY <1>6 DEF Upload, RunFails
  <2>2. CASE UNCHANGED <<bucket, newest>>
    BY <2>1, <2>2, <1>0, <1>1, <1>2
  <2>3. CASE worker.at = "upload" /\ Store
    <3>1. /\ Ordered' /\ newest' # None /\ newest' \in Stored
          /\ newest # None => Rank(newest) <= Rank(newest')
      BY <2>1, <2>3, StoreOrders
    <3>2. ASSUME NEW d \in Deleters, deleting[d] # None
          PROVE  deleting[d] \in Stored /\ Rank(deleting[d]) < Rank(newest')
      <4>1. newest # None /\ deleting[d] \in Stored /\ Rank(deleting[d]) < Rank(newest) /\ newest \in Stored
        BY <3>2 DEF BackupsInv, Older, Ordered, Proper
      <4> QED BY <4>1, <3>1, <1>0
    <3>3. Older'
      BY <2>1, <3>1, <3>2 DEF Older, Rank
    <3> QED BY <3>1, <3>3
  <2> QED BY <2>1, <2>2, <2>3
<1>7. ASSUME NEW d \in Deleters, FindBackup(d) PROVE Ordered' /\ Older'
  <2>1. PICK b \in bucket : b # Newest(bucket) /\ deleting' = [deleting EXCEPT ![d] = b]
    BY <1>7 DEF FindBackup, Deletable
  <2>2. UNCHANGED <<now, bucket, newest>>
    BY <1>7 DEF FindBackup, files
  <2>3. /\ bucket \in SUBSET Stored /\ newest # None /\ newest \in bucket
        /\ \A a \in bucket : a = newest \/ Rank(a) < Rank(newest)
    BY <2>1 DEF BackupsInv, Ordered, Proper
  <2>4. Newest(bucket) = newest
    BY <2>3, NewestIsHighest
  <2>5. b \in Stored /\ Rank(b) < Rank(newest)
    BY <2>1, <2>3, <2>4
  <2>6. Older'
    BY <1>0, <2>1, <2>2, <2>3, <2>5 DEF BackupsInv, Older, Rank
  <2> QED BY <1>0, <1>1, <2>2, <2>6
<1>8. ASSUME NEW d \in Deleters, DeleteObject(d) PROVE Ordered' /\ Older'
  <2>1. /\ deleting[d] # None /\ bucket' = bucket \ {deleting[d]} /\ UNCHANGED <<now, newest>>
        /\ deleting' = [deleting EXCEPT ![d] = None]
    BY <1>8 DEF DeleteObject
  <2>2. newest # None /\ newest \in bucket /\ deleting[d] # newest
    BY <2>1, <1>0 DEF BackupsInv, Older, Ordered, Proper
  <2>3. Ordered'
    BY <2>1, <2>2 DEF BackupsInv, Ordered, Proper, Rank
  <2>4. Older'
    BY <1>0, <2>1 DEF BackupsInv, Older, Rank
  <2> QED BY <2>3, <2>4
<1> QED BY <1>3, <1>4, <1>5, <1>6, <1>7, <1>8 DEF BackupsNext

\* A check finds the latest automatic backup, so what is due after it is due after
\* all of them.
LEMMA DueAfterAll ==
  ASSUME BackupsInv, Due(worker.called, LastAuto, worker.days), NEW a \in Autos
  PROVE  worker.called + Slack >= a.at + worker.days * DayLength
<1> DEFINE Times == {b.at : b \in Autos}
<1>1. \A b \in Autos : b \in Stored /\ b.at \in 0..MaxTime
  BY DEF BackupsInv, Ordered, Proper, Autos, Stored
<1>2. MaxTime \in Nat /\ Times \in SUBSET (0..MaxTime) /\ Times # {}
  BY BackupsAssumption, <1>1
<1>3. PICK m \in Times : \A n \in Times : n <= m
  <2> HIDE DEF Times
  <2> QED BY <1>2, GreatestExists
<1>4. \E b \in Autos : \A c \in Autos : c.at <= b.at
  BY <1>3
<1>5. PICK b \in Autos : (\A c \in Autos : c.at <= b.at) /\ LastAuto = b.at
  BY <1>4 DEF LastAuto
<1>6. worker.called + Slack >= b.at + worker.days * DayLength
  <2>1. LastAuto # None
    BY BackupsAssumption, <1>1, <1>5
  <2> QED BY <2>1, <1>5 DEF Due
<1>7. /\ worker.called \in Nat /\ Slack \in Nat /\ b.at \in Nat /\ a.at \in Nat /\ a.at <= b.at
      /\ worker.days \in Nat /\ DayLength \in Nat
  <2>1. worker.called \in 0..MaxTime /\ worker.days \in Days
    BY DEF BackupsInv, Working
  <2>2. Days \subseteq Nat /\ Slack \in Nat /\ DayLength \in Nat /\ MaxTime \in Nat
    BY BackupsAssumption DEF Days
  <2>3. a.at \in Nat /\ b.at \in Nat /\ a.at <= b.at
    BY <1>1, <1>5, <2>2
  <2>4. worker.days \in Nat
    BY <2>1, <2>2
  <2>5. worker.called \in Nat
    BY <2>1, <2>2
  <2> QED BY <2>2, <2>3, <2>4, <2>5
<1>8. worker.days * DayLength \in Nat
  BY <1>7
<1> QED BY <1>6, <1>7, <1>8

\* What a check that goes on has waited for stays true until its backup is there,
\* and so the automatic backups keep their distance.
LEMMA StepWaits ==
  ASSUME BackupsInv, BackupsNext
  PROVE  Waited' /\ AutosAreSpaced'
<1>0. \A b \in bucket : b \in Stored /\ b.at <= now /\ b.at \in Nat
  BY BackupsAssumption DEF BackupsInv, Ordered, Proper, Stored
<1>1. ASSUME bucket' \subseteq bucket,
             \/ worker' = worker
             \/ worker'.at \notin {"file", "dump", "upload"}
             \/ worker'.at = "file" /\ worker'.kind # "check"
      PROVE  Waited' /\ AutosAreSpaced'
  <2>1. AutosAreSpaced'
    BY <1>1 DEF BackupsInv, AutosAreSpaced, Autos
  <2>2. Waited'
    BY <1>1 DEF BackupsInv, Waited, Autos
  <2> QED BY <2>1, <2>2
<1>2. CASE TimePasses \/ UpdateSettings \/ AskBackup \/ AddRun \/ RemoveLeftovers
  BY <1>1, <1>2 DEF TimePasses, UpdateSettings, AskBackup, AddRun, RemoveLeftovers, jobs, files
<1>3. CASE TakeCheck \/ TakeRun \/ TakeStalled
  <2>1. PICK kind \in {"check", "run"}, again \in BOOLEAN : PickUp(kind, again)
    BY <1>3 DEF TakeCheck, TakeRun, TakeStalled, BackupsInv, Queued
  <2>2. bucket' = bucket
    BY <2>1 DEF PickUp, files
  <2>3. worker'.at = First(kind) /\ worker'.kind = kind
    BY <2>1 DEF PickUp, Asleep
  <2>4. \/ worker'.at \notin {"file", "dump", "upload"}
        \/ worker'.at = "file" /\ worker'.kind # "check"
    BY <2>3 DEF First
  <2> QED BY <1>1, <2>2, <2>4
<1>4. CASE ReadSettings
  <2>1. bucket' = bucket /\ worker'.at \in {"idle", "list"}
    BY <1>4 DEF ReadSettings, files, Asleep, BackupsInv, Working
  <2> QED BY <1>1, <2>1
<1>5. CASE ListBucket
  <2>1. CASE worker' = Asleep
    BY <1>1, <1>5, <2>1 DEF ListBucket, files, Asleep
  <2>2. CASE Due(worker.called, LastAuto, worker.days)
    <3>1. worker' = [worker EXCEPT !.at = "file"] /\ UNCHANGED bucket
      BY <1>5, <2>2 DEF ListBucket, files
    <3>2. worker'.at = "file" /\ worker'.called = worker.called /\ worker'.days = worker.days
      BY <3>1 DEF BackupsInv, Working
    <3>3. \A a \in Autos : worker.called + Slack >= a.at + worker.days * DayLength
      BY <2>2, DueAfterAll
    <3>4. Waited'
      BY <3>1, <3>2, <3>3 DEF Waited, Autos
    <3>5. AutosAreSpaced'
      BY <3>1 DEF BackupsInv, AutosAreSpaced, Autos
    <3> QED BY <3>4, <3>5
  <2> QED BY <1>5, <2>1, <2>2 DEF ListBucket
<1>6. CASE CreateFile
  <2>1. /\ worker.at = "file" /\ worker'.at = "dump" /\ worker'.kind = worker.kind
        /\ worker'.called = worker.called /\ worker'.days = worker.days
        /\ worker'.item.at = now /\ UNCHANGED bucket
    BY <1>6 DEF CreateFile, BackupsInv, Working
  <2>2. Waited'
    BY <2>1, <1>0 DEF BackupsInv, Waited, Autos
  <2>3. AutosAreSpaced'
    BY <2>1 DEF BackupsInv, AutosAreSpaced, Autos
  <2> QED BY <2>2, <2>3
<1>7. CASE Dump
  <2>1. /\ worker.at = "dump" /\ worker'.at = "upload" /\ worker'.kind = worker.kind
        /\ worker'.called = worker.called /\ worker'.days = worker.days
        /\ worker'.item = worker.item /\ UNCHANGED bucket
    BY <1>7 DEF Dump, files, BackupsInv, Working
  <2>2. Waited'
    BY <2>1 DEF BackupsInv, Waited, Autos
  <2>3. AutosAreSpaced'
    BY <2>1 DEF BackupsInv, AutosAreSpaced, Autos
  <2> QED BY <2>2, <2>3
<1>8. CASE Upload \/ RunFails
  <2>1. worker'.at \in {"remove", "idle"}
    BY <1>8 DEF Upload, RunFails, Asleep, BackupsInv, Working
  <2>2. CASE UNCHANGED bucket
    BY <1>1, <2>1, <2>2
  <2>3. CASE worker.at = "upload" /\ Store
    <3>1. bucket' = bucket \union {worker.item}
      BY <2>3 DEF Store
    <3>2. /\ worker.item.trigger = "auto" => worker.kind = "check"
          /\ worker.item.days = worker.days /\ worker.item.at >= worker.called
          /\ worker.item \in Stored /\ worker.called \in Nat
      BY BackupsAssumption, <2>3 DEF BackupsInv, Working, Proper
    <3>3. ASSUME NEW a \in Autos, worker.item.trigger = "auto"
          PROVE  /\ a.at < worker.item.at
                 /\ worker.item.at + Slack >= a.at + worker.item.days * DayLength
      <4>1. a.at < worker.item.at
        BY <2>3, <3>3, NamedApart DEF Autos
      <4>2. worker.called + Slack >= a.at + worker.item.days * DayLength
        BY <2>3, <3>2, <3>3 DEF BackupsInv, Waited
      <4>3. worker.item.days * DayLength \in Nat /\ Slack \in Nat /\ a.at \in Nat /\ worker.item.at \in Nat
        <5>1. Days \subseteq Nat /\ Slack \in Nat /\ DayLength \in Nat /\ MaxTime \in Nat
          BY BackupsAssumption DEF Days
        <5>2. worker.item.days \in Days /\ worker.item.at \in 0..MaxTime
          BY <3>2 DEF Stored
        <5>3. worker.item.days * DayLength \in Nat
          <6>1. worker.item.days \in Nat
            BY <5>1, <5>2
          <6> QED BY <5>1, <6>1
        <5> QED BY <1>0, <5>1, <5>2, <5>3 DEF Autos
      <4> QED BY <4>1, <4>2, <4>3, <3>2
    <3>4. ASSUME NEW a \in Autos', NEW b \in Autos', a.at < b.at
          PROVE  b.at + Slack >= a.at + b.days * DayLength
      <4>1. \A c \in Autos' : c \in Autos \/ (c = worker.item /\ c.trigger = "auto")
        BY <3>1 DEF Autos
      <4>2. CASE a \in Autos /\ b \in Autos
        BY <3>4, <4>2 DEF BackupsInv, AutosAreSpaced
      <4>3. CASE b = worker.item /\ b.trigger = "auto"
        <5>1. a # b
          BY BackupsAssumption, <3>2, <3>4, <4>3 DEF Stored
        <5> QED BY <3>3, <4>1, <4>3, <5>1
      <4>4. CASE a = worker.item /\ a.trigger = "auto" /\ b \in Autos
        <5>1. b.at < a.at /\ a.at \in Nat /\ b.at \in Nat
          BY BackupsAssumption, <1>0, <3>2, <3>3, <4>4 DEF Autos, Stored
        <5> QED BY <5>1, <3>4
      <4> QED BY <4>1, <4>2, <4>3, <4>4
    <3>5. AutosAreSpaced'
      BY <3>4 DEF AutosAreSpaced
    <3> QED BY <2>1, <3>5 DEF Waited
  <2> QED BY <1>8, <2>2, <2>3 DEF Upload, RunFails
<1>9. CASE RemoveFile \/ RecordRun
  <2>1. worker'.at \in {"record", "idle"} /\ UNCHANGED bucket
    BY <1>9 DEF RemoveFile, RecordRun, files, Asleep, BackupsInv, Working
  <2> QED BY <1>1, <2>1
<1>10. CASE Restart
  BY <1>1, <1>10 DEF Restart, Asleep
<1>11. ASSUME NEW d \in Deleters, FindBackup(d) \/ DeleteObject(d) PROVE Waited' /\ AutosAreSpaced'
  BY <1>1, <1>11 DEF FindBackup, DeleteObject, files
<1> QED BY <1>2, <1>3, <1>4, <1>5, <1>6, <1>7, <1>8, <1>9, <1>10, <1>11 DEF BackupsNext

\* Whatever restarts, runs and deletions overlap, the invariant holds.
THEOREM BackupsInvHolds == BackupsSpec => []BackupsInv
<1>1. BackupsInit => BackupsInv
  BY BackupsStart
<1>2. BackupsInv /\ [BackupsNext]_(backupVars) => BackupsInv'
  <2>1. ASSUME BackupsInv, BackupsNext PROVE BackupsInv'
    BY <2>1, StepWorks, StepQueues, StepOrders, StepWaits DEF BackupsInv
  <2>2. ASSUME BackupsInv, UNCHANGED backupVars PROVE BackupsInv'
    BY <2>2 DEF BackupsInv, backupVars, Working, Queued, Ordered, Older, Waited, AutosAreSpaced,
                Autos, Proper, Rank
  <2> QED BY <2>1, <2>2
<1> QED BY <1>1, <1>2, PTL DEF BackupsSpec

\* The newest backup ever made is in the bucket, whatever deletions cross it
\* (deleteBackup: "The newest backup can't be deleted").
THEOREM NewestIsKept == BackupsSpec => []NewestStays
<1>1. BackupsInv => NewestStays
  BY DEF BackupsInv, Ordered, NewestStays
<1> QED BY <1>1, BackupsInvHolds, PTL

\* Automatic backups are as far apart as their interval says, less the slack, also
\* when a check is run again (isDue).
THEOREM AutosKeepInterval == BackupsSpec => []AutosAreSpaced
<1>1. BackupsInv => AutosAreSpaced
  BY DEF BackupsInv
<1> QED BY <1>1, BackupsInvHolds, PTL

\* The types of the variables of Backups.
THEOREM BackupsTyped == BackupsSpec => []BackupsTypeOK
<1>1. BackupsInv => BackupsTypeOK
  BY DEF BackupsInv, Working, Queued, Ordered, Proper, Stored, Days, BackupsTypeOK, Items
<1> QED BY <1>1, BackupsInvHolds, PTL

-----------------------------------------------------------------------------
(* AdminTokens: the budget of failed logins *)

\* Logins whose password is being compared, and those that are to count a failure.
Comparing == {c \in Clients : client[c].at = "password"}
Counting == {c \in Clients : client[c].at = "incr"}

\* Every wrong password since the last clear has been counted, will be, or was
\* lost; and those that may still prove wrong were let in before the budget ended.
Counted ==
  /\ guesses <= failures + Cardinality(Counting) + unsaid
  /\ guesses + Cardinality(Comparing) <= MaxAttempts + (Cardinality(Clients) - 1) + unsaid
  /\ failures + unsaid + Cardinality(Counting) <= wrong

Steps == {"idle", "password", "incr", "expire", "clear", "retire", "issue", "revoke"}

\* The types, without the bounds that Counted gives.
CountersTyped ==
  /\ failures \in Nat /\ guesses \in Nat /\ guesses <= wrong /\ unsaid \in Nat
  /\ wrong \in 0..MaxFailures /\ expires \in BOOLEAN

RowsTyped ==
  /\ refresh \in [AdminTokenIds -> [family : Families \union {None}, state : {"absent", "live", "revoked"}]]
  /\ \A t \in AdminTokenIds : refresh[t].state = "absent" <=> refresh[t].family = None
  /\ ended \subseteq Families

ClientsTyped ==
  /\ client \in [Clients -> [at : Steps, token : AdminTokenIds \union {None}, family : Families \union {None}]]
  /\ \A c \in Clients :
       /\ client[c].at \in {"issue", "revoke"} => client[c].family \in Families
       /\ client[c].at = "retire" => client[c].family \in Families /\ client[c].token \in AdminTokenIds
                                     /\ refresh[client[c].token].state # "absent"

AdminTypes == CountersTyped /\ RowsTyped /\ ClientsTyped

AdminInv == AdminTypes /\ Counted

\* Two sets without a common member are together no larger than what holds both.
LEMMA DisjointSizes ==
  ASSUME NEW S, IsFiniteSet(S), NEW X \in SUBSET S, NEW Y \in SUBSET S, X \intersect Y = {}
  PROVE  /\ IsFiniteSet(X) /\ IsFiniteSet(Y)
         /\ Cardinality(X) \in Nat /\ Cardinality(Y) \in Nat /\ Cardinality(S) \in Nat
         /\ Cardinality(X) + Cardinality(Y) <= Cardinality(S)
<1>1. IsFiniteSet(X) /\ IsFiniteSet(Y)
  BY FS_Subset
<1>2. Cardinality(X) \in Nat /\ Cardinality(Y) \in Nat /\ Cardinality(S) \in Nat /\ Cardinality({}) = 0
  BY <1>1, FS_CardinalityType, FS_EmptySet
<1>3. Cardinality(X \union Y) = Cardinality(X) + Cardinality(Y) - Cardinality(X \intersect Y)
  BY <1>1, FS_Union
<1>5. Cardinality(X \intersect Y) = 0
  BY <1>2
<1>4. Cardinality(X \union Y) <= Cardinality(S)
  BY FS_Subset
<1> QED BY <1>1, <1>2, <1>3, <1>4, <1>5

\* How the size of a set changes with one member.
LEMMA OneMember ==
  ASSUME NEW X, IsFiniteSet(X), NEW x, NEW Y, Y \ {x} = X \ {x}
  PROVE  Cardinality(Y) = Cardinality(X) + (IF x \in Y THEN 1 ELSE 0) - (IF x \in X THEN 1 ELSE 0)
<1>1. Cardinality(X) \in Nat
  BY FS_CardinalityType
<1>2. Cardinality(X \union {x}) = IF x \in X THEN Cardinality(X) ELSE Cardinality(X) + 1
  BY FS_AddElement
<1>3. Cardinality(X \ {x}) = IF x \in X THEN Cardinality(X) - 1 ELSE Cardinality(X)
  BY FS_RemoveElement
<1>4. CASE x \in Y
  <2>1. Y = X \union {x}
    BY <1>4
  <2> QED BY <1>1, <1>2, <1>4, <2>1
<1>5. CASE x \notin Y
  <2>1. Y = X \ {x}
    BY <1>5
  <2> QED BY <1>1, <1>3, <1>5, <2>1
<1> QED BY <1>4, <1>5

\* The sizes of the two sets, of which no client is in both.
LEMMA Sizes ==
  /\ IsFiniteSet(Comparing) /\ IsFiniteSet(Counting)
  /\ Cardinality(Comparing) \in Nat /\ Cardinality(Counting) \in Nat /\ Cardinality(Clients) \in Nat
  /\ Cardinality(Comparing) + Cardinality(Counting) <= Cardinality(Clients)
<1>1. Comparing \in SUBSET Clients /\ Counting \in SUBSET Clients /\ Comparing \intersect Counting = {}
  BY DEF Comparing, Counting
<1> QED BY <1>1, DisjointSizes, AdminAssumption

\* What a step of one client does to the sizes.
LEMMA SizesMove ==
  ASSUME NEW c \in Clients, \A d \in Clients \ {c} : client'[d] = client[d]
  PROVE  /\ Cardinality(Comparing') = Cardinality(Comparing)
              + (IF client'[c].at = "password" THEN 1 ELSE 0) - (IF client[c].at = "password" THEN 1 ELSE 0)
         /\ Cardinality(Counting') = Cardinality(Counting)
              + (IF client'[c].at = "incr" THEN 1 ELSE 0) - (IF client[c].at = "incr" THEN 1 ELSE 0)
<1>1. IsFiniteSet(Comparing) /\ IsFiniteSet(Counting)
  BY Sizes
<1>2. Comparing' \ {c} = Comparing \ {c} /\ Counting' \ {c} = Counting \ {c}
  BY DEF Comparing, Counting
<1>3. /\ c \in Comparing <=> client[c].at = "password"
      /\ c \in Counting <=> client[c].at = "incr"
      /\ c \in Comparing' <=> client'[c].at = "password"
      /\ c \in Counting' <=> client'[c].at = "incr"
  BY DEF Comparing, Counting
<1>4. Cardinality(Comparing') = Cardinality(Comparing)
              + (IF c \in Comparing' THEN 1 ELSE 0) - (IF c \in Comparing THEN 1 ELSE 0)
  BY <1>1, <1>2, OneMember
<1>5. Cardinality(Counting') = Cardinality(Counting)
              + (IF c \in Counting' THEN 1 ELSE 0) - (IF c \in Counting THEN 1 ELSE 0)
  BY <1>1, <1>2, OneMember
<1> QED BY <1>3, <1>4, <1>5

\* A step keeps the types.
LEMMA StepTyped ==
  ASSUME AdminInv, AdminNext
  PROVE  AdminTypes'
<1> USE DEF AdminInv, AdminTypes, budget
<1>0. None \notin Families /\ MaxFailures \in Nat
  BY AdminAssumption
<1>1. CountersTyped'
  <2> USE DEF CountersTyped
  <2>1. ASSUME NEW c \in Clients, WrongPassword(c) PROVE CountersTyped'
    BY <1>0, <2>1 DEF WrongPassword
  <2>2. ASSUME NEW c \in Clients, CountFailure(c) \/ SetExpiry(c) \/ ClientEnds(c) PROVE CountersTyped'
    <3>1. expires' \in BOOLEAN
      <4>1. expires \in BOOLEAN
        OBVIOUS
      <4>2. expires' = (expires /\ failures > 0) \/ expires' = (failures > 0) \/ expires' = expires
        BY <2>2 DEF CountFailure, SetExpiry, ClientEnds
      <4>3. CASE expires' = (expires /\ failures > 0)
        BY ONLY <4>3, Zenon
      <4>4. CASE expires' = (failures > 0)
        BY ONLY <4>4, SMT
      <4> QED BY <4>1, <4>2, <4>3, <4>4
    <3>2. /\ failures' \in {failures, failures + 1} /\ unsaid' \in {unsaid, unsaid + 1}
          /\ UNCHANGED <<guesses, wrong>>
      BY <2>2 DEF CountFailure, SetExpiry, ClientEnds
    <3> HIDE <2>2
    <3> QED BY <1>0, <3>1, <3>2
  <2>3. ASSUME NoCounter PROVE CountersTyped'
    <3>1. expires' \in BOOLEAN
      BY <2>3, Zenon DEF NoCounter
    <3>2. failures' = 0 /\ guesses' = 0 /\ unsaid' = 0 /\ UNCHANGED wrong
      BY <2>3 DEF NoCounter
    <3> QED BY <1>0, <3>1, <3>2
  <2>4. ASSUME UNCHANGED <<failures, expires, guesses, wrong, unsaid>> PROVE CountersTyped'
    BY <2>4
  <2> QED
    BY <2>1, <2>2, <2>3, <2>4
       DEF AdminNext, AdminStep, AskLogin, AskRotate, AskLogout, RightPassword, ClearFailures,
           Retire, IssuePair, RevokeFamily, WindowEnds
<1>2. RowsTyped' /\ \A t \in AdminTokenIds : refresh[t].state # "absent" => refresh'[t].state # "absent"
  <2> USE DEF RowsTyped
  <2>1. ASSUME NEW c \in Clients, Retire(c)
        PROVE  RowsTyped' /\ \A t \in AdminTokenIds : refresh[t].state # "absent" => refresh'[t].state # "absent"
    <3>1. client[c].token \in AdminTokenIds /\ refresh[client[c].token].state # "absent"
      BY <2>1 DEF Retire, ClientsTyped
    <3>2. refresh' = [refresh EXCEPT ![client[c].token].state = "revoked"] /\ UNCHANGED ended
      BY <2>1 DEF Retire
    <3> QED BY <3>1, <3>2, <1>0
  <2>2. ASSUME NEW c \in Clients, IssuePair(c)
        PROVE  RowsTyped' /\ \A t \in AdminTokenIds : refresh[t].state # "absent" => refresh'[t].state # "absent"
    <3>1. PICK t \in AdminTokenIds :
            /\ refresh[t].state = "absent"
            /\ refresh' = [refresh EXCEPT ![t] = [family |-> client[c].family, state |-> "live"]]
      BY <2>2 DEF IssuePair
    <3>2. client[c].family \in Families /\ UNCHANGED ended
      BY <2>2 DEF IssuePair, ClientsTyped
    <3> QED BY <3>1, <3>2, <1>0
  <2>3. ASSUME NEW c \in Clients, RevokeFamily(c)
        PROVE  RowsTyped' /\ \A t \in AdminTokenIds : refresh[t].state # "absent" => refresh'[t].state # "absent"
    <3>1. client[c].family \in Families /\ ended' = ended \union {client[c].family}
      BY <2>3 DEF RevokeFamily, ClientsTyped
    <3>2. refresh' = [t \in AdminTokenIds |->
            IF refresh[t].family = client[c].family THEN [refresh[t] EXCEPT !.state = "revoked"] ELSE refresh[t]]
      BY <2>3 DEF RevokeFamily
    <3>3. ASSUME NEW t \in AdminTokenIds
          PROVE  /\ refresh'[t] \in [family : Families \union {None}, state : {"absent", "live", "revoked"}]
                 /\ refresh'[t].family = refresh[t].family
                 /\ \/ refresh'[t].state = refresh[t].state
                    \/ refresh'[t].state = "revoked" /\ refresh[t].family \in Families
      <4>3. refresh[t] \in [family : Families \union {None}, state : {"absent", "live", "revoked"}]
        OBVIOUS
      <4>1. CASE refresh[t].family = client[c].family
        BY <3>1, <3>2, <4>1, <4>3
      <4>2. CASE refresh[t].family # client[c].family
        BY <3>2, <4>2, <4>3
      <4> QED BY <4>1, <4>2
    <3>4. refresh' \in [AdminTokenIds -> [family : Families \union {None}, state : {"absent", "live", "revoked"}]]
      BY <3>2, <3>3
    <3> HIDE <3>2
    <3> QED BY <3>1, <3>3, <3>4, <1>0
  <2>4. ASSUME UNCHANGED <<refresh, ended>>
        PROVE  RowsTyped' /\ \A t \in AdminTokenIds : refresh[t].state # "absent" => refresh'[t].state # "absent"
    BY <2>4
  <2> QED
    BY <2>1, <2>2, <2>3, <2>4
       DEF AdminNext, AdminStep, AskLogin, AskRotate, AskLogout, WrongPassword, RightPassword,
           CountFailure, SetExpiry, ClearFailures, ClientEnds, WindowEnds
<1>3. ClientsTyped'
  <2>1. ASSUME NEW c \in Clients,
               NEW r \in [at : Steps, token : AdminTokenIds \union {None}, family : Families \union {None}],
               client' = [client EXCEPT ![c] = r],
               r.at \in {"issue", "revoke"} => r.family \in Families,
               r.at = "retire" => r.family \in Families /\ r.token \in AdminTokenIds
                                  /\ refresh'[r.token].state # "absent"
        PROVE  ClientsTyped'
    BY <1>2, <2>1 DEF ClientsTyped
  <2>2. ASSUME NEW c \in Clients, NEW step \in Steps \ {"issue", "retire", "revoke"}, Move(c, step)
        PROVE  ClientsTyped'
    BY <1>2, <2>2 DEF ClientsTyped, Move
  <2>3. ASSUME NEW c \in Clients, Reply(c) PROVE ClientsTyped'
    BY <1>2, <2>3 DEF ClientsTyped, Reply, Free, Steps
  <2>4. ASSUME UNCHANGED client PROVE ClientsTyped'
    BY <1>2, <2>4 DEF ClientsTyped
  <2>5. ASSUME NEW c \in Clients, AskLogin(c) \/ WrongPassword(c) \/ RightPassword(c) \/ CountFailure(c)
        PROVE  ClientsTyped'
    <3>1. \E step \in {"password", "incr", "clear", "expire"} : Move(c, step)
      BY <2>5 DEF AskLogin, WrongPassword, RightPassword, CountFailure
    <3> QED BY <3>1, <2>2 DEF Steps
  <2>6. ASSUME NEW c \in Clients, NEW t \in AdminTokenIds, AskRotate(c, t) \/ AskLogout(c, t)
        PROVE ClientsTyped'
    <3>1. refresh[t].family \in Families /\ refresh'[t].state # "absent"
      BY <2>6, <1>2 DEF AskRotate, AskLogout, RowsTyped
    <3>2. PICK step \in {"revoke", "retire"} :
            client' = [client EXCEPT ![c] = [at |-> step, token |-> t, family |-> refresh[t].family]]
      BY <2>6 DEF AskRotate, AskLogout
    <3> DEFINE r == [at |-> step, token |-> t, family |-> refresh[t].family]
    <3>3. /\ r \in [at : Steps, token : AdminTokenIds \union {None}, family : Families \union {None}]
          /\ r.family \in Families /\ r.token = t
      BY <3>1 DEF Steps
    <3> QED BY <3>1, <3>2, <3>3, <2>1
  <2>7. ASSUME NEW c \in Clients, ClearFailures(c) PROVE ClientsTyped'
    <3>1. PICK f \in Families : client' = [client EXCEPT ![c] = [at |-> "issue", token |-> None, family |-> f]]
      BY <2>7 DEF ClearFailures
    <3> DEFINE r == [at |-> "issue", token |-> None, family |-> f]
    <3>2. /\ r \in [at : Steps, token : AdminTokenIds \union {None}, family : Families \union {None}]
          /\ r.family \in Families /\ r.at = "issue"
      BY DEF Steps
    <3> QED BY <3>1, <3>2, <2>1
  <2>8. ASSUME NEW c \in Clients, Retire(c) PROVE ClientsTyped'
    <3>1. client[c].at = "retire" /\ client' = [client EXCEPT ![c].at = "issue"]
      BY <2>8 DEF Retire, Move
    <3>2. client[c].family \in Families
      BY <3>1 DEF ClientsTyped
    <3> QED BY <3>1, <3>2, <1>2 DEF ClientsTyped, Steps
  <2>9. ASSUME NEW c \in Clients, SetExpiry(c) \/ IssuePair(c) \/ RevokeFamily(c) \/ ClientEnds(c)
        PROVE  ClientsTyped'
    BY <2>9, <2>3 DEF SetExpiry, IssuePair, RevokeFamily, ClientEnds
  <2>10. CASE WindowEnds
    BY <2>10, <2>4 DEF WindowEnds
  <2> QED BY <2>5, <2>6, <2>7, <2>8, <2>9, <2>10 DEF AdminNext, AdminStep
<1> QED BY <1>1, <1>2, <1>3

\* And the count: a login that is let in finds a counter below the budget, and no
\* more others can be on their way than there are clients.
LEMMA StepCounted ==
  ASSUME AdminInv, AdminNext
  PROVE  Counted'
<1> DEFINE n == Cardinality(Comparing)
           k == Cardinality(Counting)
           all == Cardinality(Clients)
<1>0. /\ n \in Nat /\ k \in Nat /\ all \in Nat /\ n + k <= all
      /\ MaxAttempts \in Nat \ {0} /\ MaxFailures \in Nat
  BY Sizes, AdminAssumption
<1>t. /\ failures \in Nat /\ guesses \in Nat /\ unsaid \in Nat /\ wrong \in Nat /\ DOMAIN client = Clients
      /\ client \in [Clients -> [at : Steps, token : AdminTokenIds \union {None}, family : Families \union {None}]]
  BY <1>0 DEF AdminInv, AdminTypes, CountersTyped, ClientsTyped
<1>c. /\ guesses <= failures + k + unsaid
      /\ guesses + n <= MaxAttempts + (all - 1) + unsaid
      /\ failures + unsaid + k <= wrong
  BY DEF AdminInv, Counted
<1>m. ASSUME NEW c \in Clients, \A d \in Clients \ {c} : client'[d] = client[d]
      PROVE  /\ Cardinality(Comparing') = n
                  + (IF client'[c].at = "password" THEN 1 ELSE 0) - (IF client[c].at = "password" THEN 1 ELSE 0)
             /\ Cardinality(Counting') = k
                  + (IF client'[c].at = "incr" THEN 1 ELSE 0) - (IF client[c].at = "incr" THEN 1 ELSE 0)
  BY <1>m, SizesMove
<1> USE DEF budget
<1> HIDE DEF n, k, all
<1>g. ASSUME /\ guesses' <= failures' + Cardinality(Counting') + unsaid'
             /\ guesses' + Cardinality(Comparing') <= MaxAttempts + (all - 1) + unsaid'
             /\ failures' + unsaid' + Cardinality(Counting') <= wrong'
      PROVE  Counted'
  BY <1>g DEF Counted, all
<1>1. CASE WindowEnds
  <2>1. Cardinality(Comparing') = n /\ Cardinality(Counting') = k
    BY <1>1 DEF WindowEnds, Comparing, Counting, n, k
  <2> QED BY <2>1, <1>0, <1>t, <1>c, <1>1, <1>g DEF WindowEnds, NoCounter
<1>2. ASSUME NEW c \in Clients, AskLogin(c) PROVE Counted'
  <2>1. /\ client[c].at = "idle" /\ client'[c].at = "password"
        /\ \A d \in Clients \ {c} : client'[d] = client[d]
    BY <1>2, <1>t DEF AskLogin, Move
  <2>2. Cardinality(Comparing') = n + 1 /\ Cardinality(Counting') = k /\ n + 1 + k <= all
    <3>1. Cardinality(Comparing') = n + 1 /\ Cardinality(Counting') = k
      BY <2>1, <1>m, <1>t, <1>0
    <3>2. Cardinality(Comparing') + Cardinality(Counting') <= Cardinality(Clients)
      <4>1. Comparing' \in SUBSET Clients /\ Counting' \in SUBSET Clients /\ Comparing' \intersect Counting' = {}
        BY DEF Comparing, Counting
      <4> QED BY <4>1, DisjointSizes, AdminAssumption
    <3> QED BY <3>1, <3>2, <1>0 DEF all
  <2>3. failures <= MaxAttempts - 1 /\ UNCHANGED <<failures, guesses, unsaid, wrong>>
    BY <1>2, <1>t, <1>0 DEF AskLogin, LockedOut
  <2> QED BY <2>2, <2>3, <1>0, <1>t, <1>c, <1>g
<1>3. ASSUME NEW c \in Clients, NEW t \in AdminTokenIds, AskRotate(c, t) \/ AskLogout(c, t) PROVE Counted'
  <2>1. PICK step \in {"revoke", "retire"} :
          client' = [client EXCEPT ![c] = [at |-> step, token |-> t, family |-> refresh[t].family]]
    BY <1>3 DEF AskRotate, AskLogout
  <2>4. client'[c].at \in {"revoke", "retire"} /\ \A d \in Clients \ {c} : client'[d] = client[d]
    BY <2>1, <1>t
  <2>2. client[c].at = "idle" /\ UNCHANGED <<failures, guesses, unsaid, wrong>>
    BY <1>3 DEF AskRotate, AskLogout
  <2>3. Cardinality(Comparing') = n /\ Cardinality(Counting') = k
    BY <2>2, <2>4, <1>m, <1>0
  <2> QED BY <2>2, <2>3, <1>0, <1>t, <1>c, <1>g
<1>4. ASSUME NEW c \in Clients, WrongPassword(c) PROVE Counted'
  <2>1. /\ client[c].at = "password" /\ client'[c].at = "incr"
        /\ \A d \in Clients \ {c} : client'[d] = client[d]
    BY <1>4, <1>t DEF WrongPassword, Move
  <2>2. Cardinality(Comparing') = n - 1 /\ Cardinality(Counting') = k + 1
    BY <2>1, <1>m, <1>t, <1>0
  <2> QED BY <2>2, <1>4, <1>0, <1>t, <1>c, <1>g DEF WrongPassword
<1>5. ASSUME NEW c \in Clients, RightPassword(c) PROVE Counted'
  <2>1. /\ client[c].at = "password" /\ client'[c].at = "clear"
        /\ \A d \in Clients \ {c} : client'[d] = client[d]
    BY <1>5, <1>t DEF RightPassword, Move
  <2>2. Cardinality(Comparing') = n - 1 /\ Cardinality(Counting') = k
    BY <2>1, <1>m, <1>t, <1>0
  <2> QED BY <2>2, <1>5, <1>0, <1>t, <1>c, <1>g DEF RightPassword
<1>6. ASSUME NEW c \in Clients, CountFailure(c) PROVE Counted'
  <2>1. /\ client[c].at = "incr" /\ client'[c].at = "expire"
        /\ \A d \in Clients \ {c} : client'[d] = client[d]
    BY <1>6, <1>t DEF CountFailure, Move
  <2>2. Cardinality(Comparing') = n /\ Cardinality(Counting') = k - 1
    BY <2>1, <1>m, <1>t, <1>0
  <2> QED BY <2>2, <1>6, <1>0, <1>t, <1>c, <1>g DEF CountFailure
<1>7. ASSUME NEW c \in Clients, ClearFailures(c) PROVE Counted'
  <2>1. PICK f \in Families : client' = [client EXCEPT ![c] = [at |-> "issue", token |-> None, family |-> f]]
    BY <1>7 DEF ClearFailures
  <2>2. client[c].at = "clear" /\ client'[c].at = "issue" /\ \A d \in Clients \ {c} : client'[d] = client[d]
    BY <2>1, <1>7, <1>t DEF ClearFailures
  <2>3. Cardinality(Comparing') = n /\ Cardinality(Counting') = k
    BY <2>2, <1>m, <1>0
  <2> QED BY <2>3, <1>7, <1>0, <1>t, <1>c, <1>g DEF ClearFailures, NoCounter
<1>8. ASSUME NEW c \in Clients, SetExpiry(c) \/ IssuePair(c) \/ RevokeFamily(c) PROVE Counted'
  <2>1. client' = [client EXCEPT ![c] = Free] /\ client[c].at \in {"expire", "issue", "revoke"}
    BY <1>8 DEF SetExpiry, IssuePair, RevokeFamily, Reply
  <2>2. client'[c].at = "idle" /\ \A d \in Clients \ {c} : client'[d] = client[d]
    BY <2>1, <1>t DEF Free
  <2>3. Cardinality(Comparing') = n /\ Cardinality(Counting') = k
    BY <2>1, <2>2, <1>m, <1>0
  <2>4. UNCHANGED <<failures, guesses, unsaid, wrong>>
    BY <1>8 DEF SetExpiry, IssuePair, RevokeFamily
  <2> QED BY <2>3, <2>4, <1>0, <1>t, <1>c, <1>g
<1>9. ASSUME NEW c \in Clients, Retire(c) PROVE Counted'
  <2>1. /\ client[c].at = "retire" /\ client'[c].at = "issue"
        /\ \A d \in Clients \ {c} : client'[d] = client[d]
    BY <1>9, <1>t DEF Retire, Move
  <2>2. Cardinality(Comparing') = n /\ Cardinality(Counting') = k
    BY <2>1, <1>m, <1>t, <1>0
  <2> QED BY <2>2, <1>9, <1>0, <1>t, <1>c, <1>g DEF Retire
<1>10. ASSUME NEW c \in Clients, ClientEnds(c) PROVE Counted'
  <2>1. client'[c].at = "idle" /\ \A d \in Clients \ {c} : client'[d] = client[d]
    BY <1>10, <1>t DEF ClientEnds, Reply, Free
  <2>2. /\ Cardinality(Comparing') = n - (IF client[c].at = "password" THEN 1 ELSE 0)
        /\ Cardinality(Counting') = k - (IF client[c].at = "incr" THEN 1 ELSE 0)
    BY <2>1, <1>m, <1>0
  <2> QED BY <2>2, <1>10, <1>0, <1>t, <1>c, <1>g DEF ClientEnds
<1> QED BY <1>1, <1>2, <1>3, <1>4, <1>5, <1>6, <1>7, <1>8, <1>9, <1>10 DEF AdminNext, AdminStep

\* Whatever logins, refreshes and deaths overlap, the invariant holds.
THEOREM AdminInvHolds == AdminSpec => []AdminInv
<1>1. ASSUME AdminInit PROVE AdminInv
  <2>1. AdminTypes
    <3>1. CountersTyped
      <4>1. expires = FALSE /\ failures = 0 /\ guesses = 0 /\ unsaid = 0 /\ wrong = 0
        BY <1>1 DEF AdminInit
      <4> HIDE <1>1
      <4>2. wrong \in 0..MaxFailures /\ guesses <= wrong
        BY <4>1, AdminAssumption
      <4> QED BY <4>1, <4>2 DEF CountersTyped
    <3>2. RowsTyped
      BY <1>1, AdminAssumption DEF AdminInit, RowsTyped
    <3>3. ClientsTyped
      BY <1>1, AdminAssumption DEF AdminInit, ClientsTyped, Free, Steps
    <3> QED BY <3>1, <3>2, <3>3 DEF AdminTypes
  <2>2. Comparing = {} /\ Counting = {}
    BY <1>1 DEF AdminInit, Free, Comparing, Counting
  <2>3. Cardinality({}) = 0 /\ Cardinality(Clients) \in Nat /\ MaxAttempts \in Nat \ {0}
    BY FS_EmptySet, Sizes, AdminAssumption
  <2>4. Counted
    BY <2>2, <2>3, <1>1 DEF Counted, AdminInit
  <2> QED BY <2>1, <2>4 DEF AdminInv
<1>2. AdminInv /\ [AdminNext]_(adminVars) => AdminInv'
  <2>1. ASSUME AdminInv, AdminNext PROVE AdminInv'
    BY <2>1, StepTyped, StepCounted DEF AdminInv
  <2>2. ASSUME AdminInv, UNCHANGED adminVars PROVE AdminInv'
    BY <2>2 DEF AdminInv, AdminTypes, CountersTyped, RowsTyped, ClientsTyped, Counted, Comparing,
      Counting, adminVars
  <2> QED BY <2>1, <2>2
<1> QED BY <1>1, <1>2, PTL DEF AdminSpec

\* Between two clears of the counter no more passwords are tried than the budget,
\* those that were being compared, and those whose count was lost (login,
\* LoginAttemptService).
THEOREM LoginsStayInBudget == AdminSpec => []LoginBudget
<1>1. ASSUME AdminInv PROVE LoginBudget
  BY <1>1, Sizes, AdminAssumption DEF AdminInv, AdminTypes, CountersTyped, Counted, LoginBudget
<1> QED BY <1>1, AdminInvHolds, PTL

\* The types of the variables of AdminTokens.
THEOREM AdminTyped == AdminSpec => []AdminTypeOK
<1>1. ASSUME AdminInv PROVE AdminTypeOK
  <2>1. Cardinality(Counting) \in Nat
    BY Sizes
  <2> QED BY <1>1, <2>1, AdminAssumption DEF AdminInv, AdminTypes, CountersTyped, RowsTyped,
    ClientsTyped, Counted, AdminTypeOK, Steps
<1> QED BY <1>1, AdminInvHolds, PTL

-----------------------------------------------------------------------------
(* Pricing: one price, and the right one *)

\* An administrator's request.
TaskType == [at : {"idle", "create", "find", "off", "on"}, rule : Rules \union {None},
             version : Nat, found : SUBSET Nat, locked : SUBSET Nat]

\* The versions are valid rules, requests are about versions there are, a version
\* that is about to be made is a valid rule, and one version at most is in use.
PricingInv ==
  /\ PricingTypeOK
  /\ task \in [Managers -> TaskType]
  /\ \A m \in Managers : task[m].at = "create" => task[m].rule \in Rules /\ Valid(task[m].rule)
                                                  /\ task[m].version < MaxVersion
  /\ \A m \in Managers : task[m].at \in {"find", "off", "on"} => task[m].version \in DOMAIN version
  /\ \A v, w \in inUse : v = w

\* A step keeps it.
LEMMA PricingStep ==
  ASSUME PricingInv, PricingNext
  PROVE  PricingInv'
<1> DEFINE Sound == {r \in Rules : Valid(r)}
<1> USE DEF PricingInv, PricingTypeOK, Become
<1>0. /\ MaxVersion \in Nat /\ version \in Seq(Sound) /\ Len(version) \in Nat /\ DOMAIN version = 1..Len(version)
  BY PricingAssumption
<1>1. ASSUME NEW m \in Managers, NEW r \in Rules, AskRule(m, r) PROVE PricingInv'
  <2> DEFINE r0 == [Resting EXCEPT !.at = "create", !.rule = r, !.version = Len(version)]
  <2>1. /\ task' = [task EXCEPT ![m] = r0] /\ UNCHANGED <<version, inUse>>
        /\ Valid(r) /\ Len(version) < MaxVersion
    BY <1>1 DEF AskRule
  <2>2. /\ r0 \in TaskType /\ r0.at = "create" /\ r0.rule = r /\ r0.version = Len(version)
        /\ r0.found = {} /\ r0.locked = {}
    BY <1>0 DEF Resting, TaskType
  <2> HIDE DEF r0
  <2> QED BY <2>1, <2>2, <1>0
<1>2. ASSUME NEW m \in Managers, NEW v \in DOMAIN version, AskActivate(m, v) PROVE PricingInv'
  <2> DEFINE r0 == [Resting EXCEPT !.at = "find", !.version = v]
  <2>1. task' = [task EXCEPT ![m] = r0] /\ UNCHANGED <<version, inUse>>
    BY <1>2 DEF AskActivate
  <2>3. v \in DOMAIN version /\ v \in 0..Len(version) /\ v \in Nat
    BY <1>0
  <2>2. /\ r0 \in TaskType /\ r0.at = "find" /\ r0.rule = None /\ r0.version = v
        /\ r0.found = {} /\ r0.locked = {}
    BY <2>3 DEF Resting, TaskType
  <2> HIDE DEF r0
  <2> QED BY <2>1, <2>2, <2>3, <1>0
<1>3. ASSUME NEW m \in Managers, CreateRule(m) PROVE PricingInv'
  BY <1>0, <1>3 DEF CreateRule, Resting, TaskType
<1>4. ASSUME NEW m \in Managers, FindActive(m) PROVE PricingInv'
  <2> DEFINE r0 == [task[m] EXCEPT !.at = "off", !.found = inUse]
  <2>1. task[m].at = "find" /\ UNCHANGED <<version, inUse>> /\ task' = [task EXCEPT ![m] = r0]
    BY <1>4 DEF FindActive
  <2>2. task[m] \in TaskType /\ inUse \in SUBSET Nat
    BY <1>0
  <2>3. /\ r0 \in TaskType /\ r0.at = "off" /\ r0.rule = task[m].rule /\ r0.version = task[m].version
        /\ r0.found = inUse /\ r0.locked = task[m].locked
    BY ONLY <2>2 DEF TaskType
  <2>4. task[m].version \in DOMAIN version
    BY <2>1
  <2> HIDE DEF r0
  <2> QED BY <2>1, <2>3, <2>4, <1>0
<1>5. ASSUME NEW m \in Managers, RuleOff(m) PROVE PricingInv'
  <2> DEFINE r0 == [task[m] EXCEPT !.at = "on", !.locked = task[m].found \intersect inUse]
  <2>1. task[m].at = "off" /\ UNCHANGED <<version, inUse>> /\ task' = [task EXCEPT ![m] = r0]
    BY <1>5 DEF RuleOff
  <2>2. task[m] \in TaskType /\ task[m].found \intersect inUse \in SUBSET Nat
    BY <1>0
  <2>3. /\ r0 \in TaskType /\ r0.at = "on" /\ r0.rule = task[m].rule /\ r0.version = task[m].version
        /\ r0.found = task[m].found /\ r0.locked = task[m].found \intersect inUse
    BY ONLY <2>2 DEF TaskType
  <2>4. task[m].version \in DOMAIN version
    BY <2>1
  <2> HIDE DEF r0
  <2> QED BY <2>1, <2>3, <2>4, <1>0
<1>6. ASSUME NEW m \in Managers, RuleOn(m) PROVE PricingInv'
  <2>1. Left(m) \subseteq {task[m].version} /\ inUse' = Left(m) \union {task[m].version}
    BY <1>6 DEF RuleOn, OnlyOne
  <2>2. inUse' = {task[m].version} /\ task[m].version \in DOMAIN version
    BY <2>1, <1>6 DEF RuleOn
  <2> QED BY <2>2, <1>0, <1>6 DEF RuleOn, Resting, TaskType
<1>7. ASSUME NEW m \in Managers, ActivateFails(m) PROVE PricingInv'
  BY <1>0, <1>7 DEF ActivateFails, Resting, TaskType
<1> QED BY <1>1, <1>2, <1>3, <1>4, <1>5, <1>6, <1>7 DEF PricingNext

\* Whatever versions are created and activated at once, the invariant holds.
THEOREM PricingInvHolds == PricingSpec => []PricingInv
<1>1. ASSUME PricingInit PROVE PricingInv
  BY PricingAssumption, <1>1 DEF PricingInit, PricingInv, PricingTypeOK, Resting, TaskType
<1>2. PricingInv /\ [PricingNext]_(pricingVars) => PricingInv'
  <2>1. ASSUME PricingInv, UNCHANGED pricingVars PROVE PricingInv'
    BY <2>1 DEF PricingInv, PricingTypeOK, pricingVars
  <2> QED BY <2>1, PricingStep
<1> QED BY <1>1, <1>2, PTL DEF PricingSpec

\* Activations that overlap or fail never leave two rules in use, nor none where
\* there was one (PricingService.activate and the index PricingRule_one_active).
THEOREM OnePriceAtATime == PricingSpec => JobsStayPriced
<1>1. ASSUME PricingInv, PricingInv', [PricingNext]_(pricingVars)
      PROVE  Cardinality(inUse') <= 1 /\ (inUse # {} => inUse' # {})
  <2>1. Cardinality(inUse') <= 1
    <3>1. CASE inUse' = {}
      BY <3>1, FS_EmptySet
    <3>2. ASSUME NEW v \in inUse' PROVE Cardinality(inUse') <= 1
      <4>1. inUse' = {v}
        BY <1>1, <3>2 DEF PricingInv
      <4>2. Cardinality({v}) = 1
        BY FS_Singleton
      <4> QED BY <4>1, <4>2
    <3> QED BY <3>1, <3>2
  <2>2. ASSUME inUse # {} PROVE inUse' # {}
    BY <1>1, <2>2 DEF PricingNext, AskRule, AskActivate, CreateRule, FindActive, RuleOff, RuleOn,
      ActivateFails, pricingVars
  <2> QED BY <2>1, <2>2
<1> QED BY <1>1, PricingInvHolds, PTL DEF PricingSpec, JobsStayPriced

\* The types of the variables of Pricing.
THEOREM PricingTyped == PricingSpec => []PricingTypeOK
<1>1. PricingInv => PricingTypeOK
  BY DEF PricingInv
<1> QED BY <1>1, PricingInvHolds, PTL

\* Division with a remainder.
LEMMA Quotient ==
  ASSUME NEW m \in Nat, NEW n \in Nat \ {0}
  PROVE  /\ m \div n \in Nat
         /\ (m \div n) * n <= m /\ m < (m \div n) * n + n
OBVIOUS

\* Products grow with a factor.
LEMMA Multiples ==
  ASSUME NEW j \in Nat, NEW k \in Nat, NEW n \in Nat, j <= k
  PROVE  j * n \in Nat /\ k * n \in Nat /\ j * n <= k * n
<1>1. k * n = j * n + (k - j) * n /\ (k - j) * n \in Nat /\ j * n \in Nat
  OBVIOUS
<1> QED BY <1>1

\* Fewer than the quotient rounded up are the numbers whose multiple is less.
LEMMA BelowCeiling ==
  ASSUME NEW m \in Nat, NEW n \in Nat \ {0}, NEW k \in Nat
  PROVE  Ceiling(m, n) \in Nat /\ k * n \in Nat /\ (k < Ceiling(m, n) <=> k * n < m)
<1> DEFINE q == (m + n - 1) \div n
<1>1. m + n - 1 \in Nat /\ Ceiling(m, n) = q
  BY DEF Ceiling
<1>2. q \in Nat /\ q * n \in Nat /\ q * n <= m + n - 1 /\ m + n - 1 < q * n + n
  BY <1>1, Quotient
<1> HIDE DEF q
<1>3. k * n \in Nat
  OBVIOUS
<1>4. ASSUME k < q PROVE k * n < m
  <2>1. (k + 1) * n <= q * n
    BY <1>2, <1>4, Multiples
  <2>2. (k + 1) * n = k * n + n
    OBVIOUS
  <2> QED BY <2>1, <2>2, <1>2, <1>3
<1>5. ASSUME k * n < m PROVE k < q
  <2>1. ASSUME q <= k PROVE FALSE
    <3>1. q * n <= k * n
      BY <2>1, <1>2, Multiples
    <3> QED BY <3>1, <1>2, <1>3, <1>5
  <2> QED BY <2>1, <1>2
<1> QED BY <1>1, <1>2, <1>3, <1>4, <1>5

\* A duration is rounded to more than so many milliseconds when it goes half a
\* millisecond or more beyond them.
LEMMA RoundedBeyond ==
  ASSUME NEW d \in Nat, NEW x \in Nat, TicksPerMs \in Nat \ {0}
  PROVE  Milliseconds(d) \in Nat /\ (x < Milliseconds(d) <=> 2 * d >= (2 * x + 1) * TicksPerMs)
<1> DEFINE T == TicksPerMs
           p == (2 * d + T) \div (2 * T)
<1>1. Milliseconds(d) = p /\ 2 * d + T \in Nat /\ 2 * T \in Nat \ {0}
  BY DEF Milliseconds
<1>2. p \in Nat /\ p * (2 * T) \in Nat /\ p * (2 * T) <= 2 * d + T /\ 2 * d + T < p * (2 * T) + 2 * T
  <2>1. \A m \in Nat, n \in Nat \ {0} :
          m \div n \in Nat /\ (m \div n) * n \in Nat /\ (m \div n) * n <= m /\ m < (m \div n) * n + n
    BY Quotient
  <2> QED BY <1>1, <2>1
<1> HIDE DEF p
<1>3. (x + 1) * (2 * T) = (2 * x + 1) * T + T /\ (x + 1) * (2 * T) \in Nat /\ (2 * x + 1) * T \in Nat
  OBVIOUS
<1>4. ASSUME x < p PROVE 2 * d >= (2 * x + 1) * T
  <2>1. (x + 1) * (2 * T) <= p * (2 * T)
    BY <1>1, <1>2, <1>4, Multiples
  <2> QED BY <2>1, <1>2, <1>3
<1>5. ASSUME 2 * d >= (2 * x + 1) * T PROVE x < p
  <2>1. ASSUME p <= x PROVE FALSE
    <3>1. (p + 1) * (2 * T) <= (x + 1) * (2 * T) /\ (p + 1) * (2 * T) = p * (2 * T) + 2 * T
      BY <2>1, <1>1, <1>2, Multiples
    <3> QED BY <3>1, <1>2, <1>3, <1>5
  <2> QED BY <2>1, <1>2
<1> QED BY <1>1, <1>2, <1>4, <1>5

\* The blocks that a duration reaches are the first so many.
LEMMA BlocksAreCounted ==
  ASSUME NEW d \in Nat, NEW length \in Nat \ {0}, TicksPerMs \in Nat \ {0}
  PROVE  /\ Ceiling(Milliseconds(d), length) \in Nat
         /\ StartedBlocks(d, length) = 0..(Ceiling(Milliseconds(d), length) - 1)
         /\ Cardinality(StartedBlocks(d, length) \union {0}) = Larger(1, Ceiling(Milliseconds(d), length))
<1> DEFINE q == Ceiling(Milliseconds(d), length)
<1>1. Milliseconds(d) \in Nat /\ q \in Nat
  BY RoundedBeyond, BelowCeiling
<1>2. ASSUME NEW k \in Nat PROVE k < q <=> 2 * d >= (2 * k * length + 1) * TicksPerMs
  <2>1. k * length \in Nat /\ (k < q <=> k * length < Milliseconds(d))
    BY <1>1, BelowCeiling
  <2>2. k * length < Milliseconds(d) <=> 2 * d >= (2 * (k * length) + 1) * TicksPerMs
    BY <2>1, RoundedBeyond
  <2>3. 2 * k * length = 2 * (k * length)
    OBVIOUS
  <2> QED BY <2>1, <2>2, <2>3
<1>3. ASSUME NEW k \in Nat, k < q PROVE k \in 0..d
  <2>1. k * length \in Nat /\ k <= k * length
    OBVIOUS
  <2>2. 2 * d >= (2 * k * length + 1) * TicksPerMs /\ 2 * k * length = 2 * (k * length)
    BY <1>2, <1>3
  <2>3. (2 * (k * length) + 1) * TicksPerMs >= 2 * (k * length) + 1
    <3>1. \A y \in Nat, t \in Nat \ {0} : y * t >= y
      BY NoSmaller
    <3> QED BY <2>1, <3>1
  <2>4. (2 * (k * length) + 1) * TicksPerMs \in Nat
    BY <2>1
  <2> QED BY <2>1, <2>2, <2>3, <2>4
<1> HIDE DEF q
<1>4. StartedBlocks(d, length) = 0..(q - 1)
  BY <1>1, <1>2, <1>3 DEF StartedBlocks
<1>5. Cardinality(StartedBlocks(d, length) \union {0}) = Larger(1, q)
  <2>1. CASE q = 0
    <3>1. StartedBlocks(d, length) \union {0} = {0}
      BY <1>4, <2>1
    <3>2. Cardinality({0}) = 1
      BY FS_Singleton
    <3> QED BY <3>1, <3>2, <2>1 DEF Larger
  <2>2. CASE q # 0
    <3>1. StartedBlocks(d, length) \union {0} = 0..(q - 1)
      BY <1>1, <1>4, <2>2
    <3>2. Cardinality(0..(q - 1)) = q
      BY <1>1, <2>2, FS_Interval
    <3>3. Larger(1, q) = q
      BY <1>1, <2>2 DEF Larger
    <3> QED BY <3>1, <3>2, <3>3
  <2> QED BY <2>1, <2>2
<1> QED BY <1>1, <1>4, <1>5 DEF q

\* The first of some numbers.
LEMMA LeastExists ==
  ASSUME NEW N \in Nat, NEW T \in SUBSET (1..N), T # {}
  PROVE  \E m \in T : \A n \in T : m <= n
<1> DEFINE U == {N - x : x \in T}
<1>1. U \in SUBSET (0..N) /\ U # {}
  <2>1. \A x \in T : x \in 1..N /\ N - x \in 0..N
    OBVIOUS
  <2> QED BY <2>1
<1>2. PICK m \in U : \A n \in U : n <= m
  <2> HIDE DEF U
  <2> QED BY <1>1, GreatestExists
<1>3. PICK x \in T : m = N - x
  BY <1>2
<1>4. ASSUME NEW y \in T PROVE x <= y
  <2>1. N - y \in U
    BY <1>4
  <2>2. N - y <= N - x
    BY <2>1, <1>2, <1>3
  <2> QED BY <2>2, <1>4
<1> QED BY <1>4

\* What PricesAreRight says of one rule and one duration.
RightPrice(r, d) ==
  LET price == PriceFor(r, d)
  IN CASE r.mode = "per_job" -> price = r.perJobCredits
       [] r.mode = "per_second" ->
            LET blocks == StartedBlocks(d, r.blockSeconds * MsPerSecond) \union {0} IN
            /\ price >= r.minCredits /\ price >= Cardinality(blocks) * r.blockCredits
            /\ price \in {r.minCredits, Cardinality(blocks) * r.blockCredits}
       [] r.mode = "duration_tiers" ->
            \E i \in DOMAIN r.tiers :
              /\ price = r.tiers[i].credits
              /\ r.tiers[i].upTo # Open => d <= Ticks(r.tiers[i].upTo)
              /\ i > 1 => d > Ticks(r.tiers[i - 1].upTo)

\* Blocks are charged as started, and never below the minimum.
LEMMA BlockPrice ==
  ASSUME NEW d \in Nat, NEW r, r.mode = "per_second", BlocksAreValid(r),
         TicksPerMs \in Nat \ {0}, MsPerSecond \in Nat \ {0},
         r.blockSeconds \in Int, r.blockCredits \in Int, r.minCredits \in Int
  PROVE  RightPrice(r, d)
<1> DEFINE length == r.blockSeconds * MsPerSecond
           blocks == StartedBlocks(d, length) \union {0}
           n == Larger(1, Ceiling(Milliseconds(d), length))
<1>1. length \in Nat \ {0}
  <2>1. r.blockSeconds \in Nat \ {0}
    <3>1. MaxBlockSeconds \in Nat
      BY DEF MaxBlockSeconds
    <3>2. r.blockSeconds \in 1..MaxBlockSeconds
      BY DEF BlocksAreValid
    <3> QED BY <3>1, <3>2
  <2>2. r.blockSeconds * MsPerSecond \in Nat /\ r.blockSeconds * MsPerSecond >= MsPerSecond
    BY <2>1, NoSmaller
  <2> QED BY <2>2
<1>2. Cardinality(blocks) = n /\ n \in Nat
  <2> HIDE DEF length
  <2>1. Cardinality(blocks) = n /\ Ceiling(Milliseconds(d), length) \in Nat
    BY <1>1, BlocksAreCounted
  <2> QED BY <2>1 DEF Larger
<1>3. PriceFor(r, d) = Larger(r.minCredits, n * r.blockCredits)
  BY DEF PriceFor
<1> HIDE DEF n, blocks
<1>4. n * r.blockCredits \in Int
  BY <1>2
<1>5. /\ PriceFor(r, d) >= r.minCredits /\ PriceFor(r, d) >= n * r.blockCredits
      /\ PriceFor(r, d) \in {r.minCredits, n * r.blockCredits}
  BY <1>3, <1>4 DEF Larger
<1> QED BY <1>2, <1>5 DEF RightPrice, blocks

\* A valid list has a tier for every duration, the first that covers it.
LEMMA TierPrice ==
  ASSUME NEW d \in Nat, NEW r, r.mode = "duration_tiers", TiersAreValid(r.tiers),
         TicksPerMs \in Nat \ {0}, MsPerSecond \in Nat \ {0},
         DOMAIN r.tiers = 1..Len(r.tiers), Len(r.tiers) \in Nat, r.tiers # <<>> => Len(r.tiers) # 0,
         \A i \in DOMAIN r.tiers : r.tiers[i].upTo \in Int \union {Open} /\ r.tiers[i].credits \in Int
  PROVE  RightPrice(r, d)
<1> DEFINE N == Len(r.tiers)
           fits == {i \in DOMAIN r.tiers : Covers(r.tiers[i], d)}
<1>1. N \in fits
  BY DEF TiersAreValid, Covers
<1>2. fits \in SUBSET (1..N) /\ fits # {}
  BY <1>1
<1>3. PICK i \in fits : (\A j \in fits : i <= j) /\ PriceFor(r, d) = r.tiers[i].credits
  <2> HIDE DEF fits
  <2>1. \E i \in fits : \A j \in fits : i <= j
    BY <1>2, LeastExists
  <2> DEFINE f == CHOOSE i \in fits : \A j \in fits : i <= j
  <2>2. f \in fits /\ \A j \in fits : f <= j
    BY <2>1
  <2>3. PriceFor(r, d) = r.tiers[f].credits
    BY <1>2 DEF PriceFor, fits
  <2> QED BY <2>2, <2>3
<1>4. r.tiers[i].upTo # Open => d <= Ticks(r.tiers[i].upTo)
  BY <1>3 DEF Covers
<1>5. ASSUME i > 1 PROVE d > Ticks(r.tiers[i - 1].upTo)
  <2>1. i - 1 \in DOMAIN r.tiers /\ i - 1 \notin fits
    BY <1>3, <1>5
  <2>2. r.tiers[i - 1].upTo \in Int /\ ~(d <= Ticks(r.tiers[i - 1].upTo))
    BY <2>1 DEF Covers
  <2>3. Ticks(r.tiers[i - 1].upTo) \in Int
    BY <2>2 DEF Ticks
  <2> QED BY <2>2, <2>3
<1> QED BY <1>3, <1>4, <1>5 DEF RightPrice

\* A rule of each mode has the right price.
LEMMA RuleIsPriced ==
  ASSUME NEW r \in Rules, Valid(r), NEW d \in Durations
  PROVE  RightPrice(r, d)
<1>2. d \in Nat /\ TicksPerMs \in Nat \ {0} /\ MsPerSecond \in Nat \ {0}
  BY PricingAssumption
<1>3. CASE r.mode = "per_job"
  <2>1. PriceFor(r, d) = r.perJobCredits
    BY <1>3 DEF PriceFor
  <2> QED BY <1>3, <2>1 DEF RightPrice
<1>4. CASE r.mode = "per_second"
  <2>1. BlocksAreValid(r)
    BY <1>4 DEF Valid
  <2>2. r.blockSeconds \in Int /\ r.blockCredits \in Int /\ r.minCredits \in Int
    BY PricingAssumption, <1>4
  <2> QED BY <1>2, <1>4, <2>1, <2>2, BlockPrice
<1>5. CASE r.mode = "duration_tiers"
  <2>1. TiersAreValid(r.tiers)
    BY <1>5 DEF Valid
  <2>2. /\ DOMAIN r.tiers = 1..Len(r.tiers) /\ Len(r.tiers) \in Nat
        /\ \A i \in DOMAIN r.tiers : r.tiers[i].upTo \in Int \union {Open} /\ r.tiers[i].credits \in Int
    BY PricingAssumption, <1>5
  <2> QED BY <1>2, <1>5, <2>1, <2>2, TierPrice
<1> QED BY PricingAssumption, <1>3, <1>4, <1>5

\* Every accepted rule has a price for every duration: that of the one tier it lies
\* in, its bound included, or of its started blocks (priceFor).
THEOREM PricesAreRightAlways == PricingSpec => []PricesAreRight
<1>1. ASSUME PricingInv, NEW v \in DOMAIN version, NEW d \in Durations PROVE RightPrice(version[v], d)
  <2>1. version[v] \in Rules /\ Valid(version[v])
    BY <1>1 DEF PricingInv, PricingTypeOK
  <2> QED BY <2>1, RuleIsPriced
<1>2. PricingInv => PricesAreRight
  BY <1>1 DEF PricesAreRight, RightPrice
<1> QED BY <1>2, PricingInvHolds, PTL

-----------------------------------------------------------------------------
(* Providers *)

\* An activation is about a kind, and remembers which kinds it has switched off.
Editing == \A e \in Editors : edit[e].at \in {"deactivate", "activate"} => edit[e].kind \in Kinds

EditType == [at : {"idle", "deactivate", "activate", "clear"}, kind : Kinds \union {None},
             id : 0..MaxChanges, locked : SUBSET Kinds, change : Nat]

ProvidersInv ==
  /\ ProvidersTypeOK /\ edit \in [Editors -> EditType]
  /\ Editing /\ OneActive

LEMMA ProvidersInitOK == ProvidersInit => ProvidersInv
  BY ProvidersAssumption
  DEF ProvidersInit, ProvidersInv, ProvidersTypeOK, EditType, Editing, OneActive, Idle, At

\* A step of one administrator leaves the others as they are.
LEMMA OneEdits ==
  ASSUME ProvidersInv, NEW e \in Editors, NEW s \in EditType,
         s.at \in {"deactivate", "activate"} => s.kind \in Kinds,
         edit' = [edit EXCEPT ![e] = s]
  PROVE  /\ edit' \in [Editors -> EditType] /\ Editing'
         /\ edit'[e] = s /\ \A d \in Editors : d # e => edit'[d] = edit[d]
  BY DEF ProvidersInv, Editing

\* A step that only moves an administrator on.
LEMMA OnlyEdits ==
  ASSUME ProvidersInv, NEW e \in Editors, NEW s \in EditType,
         s.at \in {"deactivate", "activate"} => s.kind \in Kinds, s.change \in 0..changes,
         edit' = [edit EXCEPT ![e] = s], UNCHANGED <<row, active, changes, fill>>,
         cache' \in {cache, None}, cleared' \in 0..changes
  PROVE  ProvidersInv'
<1>1. /\ edit' \in [Editors -> EditType] /\ Editing'
      /\ edit'[e] = s /\ \A d \in Editors : d # e => edit'[d] = edit[d]
  BY OneEdits
<1>2. \A d \in Editors : edit'[d].change \in 0..changes
  BY <1>1 DEF ProvidersInv, ProvidersTypeOK
<1> QED
  BY <1>1, <1>2 DEF ProvidersInv, ProvidersTypeOK, OneActive, EditType

\* A commit counts a change that the cache and the fills have not seen.
LEMMA CommitsKeep ==
  ASSUME ProvidersInv, NEW e \in Editors, changes < MaxChanges, changes' \in {changes, changes + 1},
         edit' = [edit EXCEPT ![e] = At("clear", None, 0, {}, changes')],
         UNCHANGED <<cleared, cache, fill>>,
         row' \in [Kinds -> [id : 0..MaxChanges, there : BOOLEAN]], active' \subseteq Kinds,
         OneActive'
  PROVE  ProvidersInv'
<1> DEFINE s == At("clear", None, 0, {}, changes')
<1>1. changes' \in 0..MaxChanges /\ changes <= changes' /\ changes \in Nat /\ changes' \in Nat
  BY ProvidersAssumption DEF ProvidersInv, ProvidersTypeOK
<1>3. s \in EditType /\ s.at = "clear" /\ s.change = changes'
  BY <1>1, ProvidersAssumption DEF EditType, At
<1>4. edit' = [edit EXCEPT ![e] = s]
  OBVIOUS
<1> HIDE DEF s
<1>5. /\ edit' \in [Editors -> EditType] /\ Editing'
      /\ edit'[e] = s /\ \A d \in Editors : d # e => edit'[d] = edit[d]
  BY <1>3, <1>4, OneEdits
<1>6. 0..changes \subseteq 0..changes'
  BY <1>1
<1>7. \A d \in Editors : edit'[d].change \in 0..changes'
  BY <1>1, <1>3, <1>5, <1>6 DEF ProvidersInv, ProvidersTypeOK
<1> QED
  BY <1>1, <1>5, <1>6, <1>7 DEF ProvidersInv, ProvidersTypeOK, EditType

\* The requests of administrators.
LEMMA EditorsKeep ==
  ASSUME ProvidersInv, NEW e \in Editors,
         \/ \E k \in Kinds : SetKey(e, k) \/ RemoveKey(e, k) \/ Deactivate(e, k) \/ Activate(e, k)
         \/ EditStep(e) \/ SwitchFails(e)
  PROVE  ProvidersInv'
<1> USE ProvidersAssumption
<1>t. ProvidersTypeOK /\ edit \in [Editors -> EditType] /\ Editing /\ OneActive
  BY DEF ProvidersInv
<1>i. Idle \in EditType /\ Idle.at = "idle" /\ Idle.change = 0 /\ 0 \in 0..changes
  BY <1>t DEF Idle, At, EditType, ProvidersTypeOK
<1>1. ASSUME NEW k \in Kinds, SetKey(e, k) PROVE ProvidersInv'
  <2>1. /\ UNCHANGED <<active, cleared, cache, fill>>
        /\ changes < MaxChanges /\ changes' \in {changes, changes + 1}
        /\ edit' = [edit EXCEPT ![e] = At("clear", None, 0, {}, changes')]
    BY <1>1 DEF SetKey, Commits
  <2>2. row' = [row EXCEPT ![k] = IF row[k].there THEN row[k] ELSE [id |-> row[k].id + 1, there |-> TRUE]]
    BY <1>1 DEF SetKey
  <2>3. row[k] \in [id : 0..MaxChanges, there : BOOLEAN] /\ row[k].id \in 0..MaxChanges
    BY <1>t DEF ProvidersTypeOK
  <2>4. ~row[k].there => row[k].id + 1 \in 0..MaxChanges
    BY <1>1, <2>3 DEF SetKey
  <2>5. (IF row[k].there THEN row[k] ELSE [id |-> row[k].id + 1, there |-> TRUE])
          \in [id : 0..MaxChanges, there : BOOLEAN]
    BY <2>3, <2>4
  <2>6. row' \in [Kinds -> [id : 0..MaxChanges, there : BOOLEAN]]
    BY <1>t, <2>2, <2>5 DEF ProvidersTypeOK
  <2>7. \A l \in Kinds : row[l].there => row'[l].there
    BY <1>t, <2>2 DEF ProvidersTypeOK
  <2>8. OneActive' /\ active' \subseteq Kinds
    BY <1>t, <2>1, <2>7 DEF OneActive, ProvidersTypeOK
  <2> QED
    BY <2>1, <2>6, <2>8, CommitsKeep
<1>2. ASSUME NEW k \in Kinds, RemoveKey(e, k) PROVE ProvidersInv'
  <2>1. /\ UNCHANGED <<cleared, cache, fill>> /\ active' = active \ {k}
        /\ changes < MaxChanges /\ changes' \in {changes, changes + 1}
        /\ edit' = [edit EXCEPT ![e] = At("clear", None, 0, {}, changes')]
    BY <1>2 DEF RemoveKey, Commits
  <2>2. row' = [row EXCEPT ![k].there = FALSE]
    BY <1>2 DEF RemoveKey
  <2>3. row' \in [Kinds -> [id : 0..MaxChanges, there : BOOLEAN]]
    BY <1>t, <2>2 DEF ProvidersTypeOK
  <2>4. \A l \in Kinds : l # k => row'[l] = row[l]
    BY <1>t, <2>2 DEF ProvidersTypeOK
  <2>5. OneActive' /\ active' \subseteq Kinds
    BY <1>t, <2>1, <2>4 DEF OneActive, ProvidersTypeOK
  <2> QED
    BY <2>1, <2>3, <2>5, CommitsKeep
<1>3. ASSUME NEW k \in Kinds, Deactivate(e, k) PROVE ProvidersInv'
  <2>1. /\ UNCHANGED <<row, cleared, cache, fill>> /\ active' = active \ {k}
        /\ changes < MaxChanges /\ changes' \in {changes, changes + 1}
        /\ edit' = [edit EXCEPT ![e] = At("clear", None, 0, {}, changes')]
    BY <1>3 DEF Deactivate, Commits
  <2>2. OneActive' /\ active' \subseteq Kinds /\ row' \in [Kinds -> [id : 0..MaxChanges, there : BOOLEAN]]
    BY <1>t, <2>1 DEF OneActive, ProvidersTypeOK
  <2> QED
    BY <2>1, <2>2, CommitsKeep
<1>4. ASSUME NEW k \in Kinds, Activate(e, k) PROVE ProvidersInv'
  <2> DEFINE s == At("deactivate", k, row[k].id, {}, 0)
  <2>2. s \in EditType /\ s.kind \in Kinds /\ s.change \in 0..changes
    BY <1>t DEF At, EditType, ProvidersTypeOK
  <2>3. edit' = [edit EXCEPT ![e] = s]
    BY <1>4 DEF Activate, Begin
  <2>4. UNCHANGED <<row, active, changes, fill, cache>> /\ cleared' \in 0..changes
    BY <1>t, <1>4 DEF Activate, ProvidersTypeOK
  <2> HIDE DEF s
  <2> QED
    BY <2>2, <2>3, <2>4, OnlyEdits
<1>5. CASE SwitchOff(e)
  <2> DEFINE s == At("activate", edit[e].kind, edit[e].id, active, 0)
  <2>1. edit[e].id \in 0..MaxChanges /\ edit[e].kind \in Kinds
    BY <1>t, <1>5 DEF SwitchOff, Editing, ProvidersTypeOK
  <2>3. s \in EditType /\ s.kind \in Kinds /\ s.change \in 0..changes
    BY <1>t, <2>1 DEF At, EditType, ProvidersTypeOK
  <2>4. edit' = [edit EXCEPT ![e] = s]
    BY <1>t, <1>5 DEF SwitchOff
  <2>5. UNCHANGED <<row, active, changes, fill, cache>> /\ cleared' \in 0..changes
    BY <1>t, <1>5 DEF SwitchOff, ProvidersTypeOK
  <2> HIDE DEF s
  <2> QED
    BY <2>3, <2>4, <2>5, OnlyEdits
<1>6. CASE SwitchOn(e)
  <2>1. /\ UNCHANGED <<row, cleared, cache, fill>>
        /\ row[edit[e].kind] = [id |-> edit[e].id, there |-> TRUE]
        /\ changes < MaxChanges /\ changes' \in {changes, changes + 1}
        /\ edit' = [edit EXCEPT ![e] = At("clear", None, 0, {}, changes')]
        /\ active \subseteq edit[e].locked /\ active' = (active \ edit[e].locked) \union {edit[e].kind}
    BY <1>6 DEF SwitchOn, Switchable, Commits
  <2>2. edit[e].kind \in Kinds /\ active' = {edit[e].kind}
    BY <1>t, <1>6, <2>1 DEF SwitchOn, Editing
  <2>3. OneActive' /\ active' \subseteq Kinds /\ row' \in [Kinds -> [id : 0..MaxChanges, there : BOOLEAN]]
    BY <1>t, <2>1, <2>2 DEF OneActive, ProvidersTypeOK
  <2> QED
    BY <2>1, <2>3, CommitsKeep
<1>7. CASE SwitchFails(e)
  <2>1. UNCHANGED <<row, active, changes, fill, cache>> /\ cleared' \in 0..changes
        /\ edit' = [edit EXCEPT ![e] = Idle]
    BY <1>t, <1>7 DEF SwitchFails, ProvidersTypeOK
  <2> QED
    BY <1>i, <2>1, OnlyEdits
<1>8. CASE ClearCache(e)
  <2>1. /\ UNCHANGED <<row, active, changes, fill>> /\ cache' = None /\ cleared' \in 0..changes
        /\ edit' = [edit EXCEPT ![e] = Idle]
    BY <1>t, <1>8 DEF ClearCache, ProvidersTypeOK
  <2> QED
    BY <1>i, <2>1, OnlyEdits
<1> QED
  BY <1>1, <1>2, <1>3, <1>4, <1>5, <1>6, <1>7, <1>8 DEF EditStep

LEMMA ProvidersNextOK == ProvidersInv /\ [ProvidersNext]_providerVars => ProvidersInv'
<1> SUFFICES ASSUME ProvidersInv, [ProvidersNext]_providerVars PROVE ProvidersInv'
  OBVIOUS
<1>1. ASSUME \/ \E j \in Callers : ReadActive(j) \/ StoreActive(j)
             \/ CacheExpires \/ UNCHANGED providerVars
      PROVE  ProvidersInv'
  BY <1>1 DEF ReadActive, StoreActive, CacheExpires, providerVars, ProvidersInv, ProvidersTypeOK,
    OneActive, Editing, EditType
<1> QED
  BY <1>1, EditorsKeep DEF ProvidersNext

\* The invariant of Providers, from which the two below follow.
THEOREM ProvidersInvHolds == ProvidersSpec => []ProvidersInv
  BY ProvidersInitOK, ProvidersNextOK, PTL DEF ProvidersSpec

\* At most one provider is active, and only one with a key, for any number of
\* providers and of administrators who activate, deactivate and remove at once.
THEOREM OneProviderIsActive == ProvidersSpec => []OneActive
<1>1. ProvidersInv => OneActive
  BY DEF ProvidersInv
<1> QED
  BY <1>1, ProvidersInvHolds, PTL

\* Every variable of Providers always holds a value the code can store.
THEOREM ProvidersTyped == ProvidersSpec => []ProvidersTypeOK
<1>1. ProvidersInv => ProvidersTypeOK
  BY DEF ProvidersInv
<1> QED
  BY <1>1, ProvidersInvHolds, PTL

-----------------------------------------------------------------------------
(* Settings *)

\* An administrator about to clear the copy knows which update it has made.
Clearing == \A r \in Readers : use[r].at = "clear" => use[r].of \in 0..updates

UseType == [at : {"idle", "store", "update", "clear"}, admin : BOOLEAN, of : Nat \union {None}]

SettingsInv == SettingsTypeOK /\ use \in [Readers -> UseType] /\ Clearing

LEMMA SettingsInitOK == SettingsInit => SettingsInv
<1>1. Unused \in UseType /\ Unused.at = "idle" /\ Unused.of = None /\ Unused.admin \in BOOLEAN
  BY DEF Unused, UseType
<1> QED
  BY <1>1 DEF SettingsInit, SettingsInv, SettingsTypeOK, Clearing

\* A request's step, to s.
LEMMA OneUses ==
  ASSUME SettingsInv, NEW r \in Readers, NEW s \in UseType, use' = [use EXCEPT ![r] = s],
         updates' \in Nat, updates <= updates', answered' \in 0..updates',
         cached' \in (0..updates') \union {None}, s.of \in (0..updates') \union {None},
         s.at = "clear" => s.of \in 0..updates'
  PROVE  SettingsInv'
<1>1. use' \in [Readers -> UseType] /\ use'[r] = s /\ \A q \in Readers : q # r => use'[q] = use[q]
  BY DEF SettingsInv
<1>2. 0..updates \subseteq 0..updates'
  BY DEF SettingsInv, SettingsTypeOK
<1>3. Clearing'
  BY <1>1, <1>2 DEF SettingsInv, Clearing
<1>4. \A q \in Readers : use'[q].of \in (0..updates') \union {None}
  BY <1>1, <1>2 DEF SettingsInv, SettingsTypeOK
<1> QED
  BY <1>1, <1>3, <1>4 DEF SettingsInv, SettingsTypeOK, UseType

\* What a get() leaves behind.
LEMMA AfterGet ==
  ASSUME NEW r \in Readers, NEW admin \in BOOLEAN
  PROVE  After(r, admin) \in UseType /\ After(r, admin).of = None /\ After(r, admin).at # "clear"
  BY DEF After, Unused, UseType

LEMMA SettingsNextOK == SettingsInv /\ [SettingsNext]_settingsVars => SettingsInv'
<1> SUFFICES ASSUME SettingsInv, [SettingsNext]_settingsVars PROVE SettingsInv'
  OBVIOUS
<1>t. SettingsTypeOK /\ use \in [Readers -> UseType] /\ Clearing
  BY DEF SettingsInv
<1>1. ASSUME NEW r \in Readers, NEW admin \in BOOLEAN, GetCached(r, admin) PROVE SettingsInv'
  <2>1. UNCHANGED <<updates, answered, cached>> /\ use' = [use EXCEPT ![r] = After(r, admin)]
    BY <1>1 DEF GetCached
  <2>2. /\ updates' \in Nat /\ updates <= updates' /\ answered' \in 0..updates'
        /\ cached' \in (0..updates') \union {None}
    BY <1>t, <2>1 DEF SettingsTypeOK
  <2>3. /\ After(r, admin) \in UseType /\ After(r, admin).of \in (0..updates') \union {None}
        /\ After(r, admin).at # "clear"
    BY AfterGet
  <2> QED
    BY <2>1, <2>2, <2>3, OneUses
<1>2. ASSUME NEW r \in Readers, NEW admin \in BOOLEAN, GetRow(r, admin) PROVE SettingsInv'
  <2> DEFINE s == [at |-> "store", admin |-> admin, of |-> updates]
  <2>1. UNCHANGED <<updates, answered, cached>> /\ use' = [use EXCEPT ![r] = s]
    BY <1>2 DEF GetRow
  <2>2. s \in UseType /\ s.at = "store" /\ s.of \in 0..updates
    BY <1>t DEF UseType, SettingsTypeOK
  <2>3. /\ updates' \in Nat /\ updates <= updates' /\ answered' \in 0..updates'
        /\ cached' \in (0..updates') \union {None}
    BY <1>t, <2>1 DEF SettingsTypeOK
  <2>4. s.of \in (0..updates') \union {None}
    BY <2>1, <2>2
  <2> HIDE DEF s
  <2> QED
    BY <2>1, <2>2, <2>3, <2>4, OneUses
<1>3. ASSUME NEW r \in Readers, StoreRow(r) PROVE SettingsInv'
  <2>1. UNCHANGED <<updates, answered>> /\ cached' = use[r].of /\ use' = [use EXCEPT ![r] = After(r, use[r].admin)]
    BY <1>3 DEF StoreRow
  <2>2. use[r].admin \in BOOLEAN /\ use[r].of \in (0..updates) \union {None}
    BY <1>t DEF SettingsTypeOK
  <2>3. /\ updates' \in Nat /\ updates <= updates' /\ answered' \in 0..updates'
        /\ cached' \in (0..updates') \union {None}
    BY <1>t, <2>1, <2>2 DEF SettingsTypeOK
  <2>4. /\ After(r, use[r].admin) \in UseType /\ After(r, use[r].admin).at # "clear"
        /\ After(r, use[r].admin).of \in (0..updates') \union {None}
    BY <2>2, AfterGet
  <2> QED
    BY <2>1, <2>3, <2>4, OneUses
<1>4. ASSUME NEW r \in Readers, UpdateRow(r) PROVE SettingsInv'
  <2> DEFINE s == [at |-> "clear", admin |-> TRUE, of |-> updates + 1]
  <2>1. UNCHANGED <<answered, cached>> /\ updates' = updates + 1 /\ use' = [use EXCEPT ![r] = s]
    BY <1>4 DEF UpdateRow
  <2>2. s \in UseType /\ s.of = updates'
    BY <1>t, <2>1 DEF UseType, SettingsTypeOK
  <2>3. updates' \in Nat /\ updates <= updates' /\ 0..updates \subseteq 0..updates' /\ updates' \in 0..updates'
    BY <1>t, <2>1 DEF SettingsTypeOK
  <2> HIDE DEF s
  <2> QED
    BY <1>t, <2>1, <2>2, <2>3, OneUses DEF SettingsTypeOK
<1>5. ASSUME NEW r \in Readers, ClearCopy(r) PROVE SettingsInv'
  <2>1. UNCHANGED updates /\ cached' = None /\ use' = [use EXCEPT ![r] = Unused]
    BY <1>5 DEF ClearCopy
  <2>2. answered' \in 0..updates
    BY <1>t, <1>5 DEF ClearCopy, SettingsTypeOK, Clearing
  <2>3. Unused \in UseType /\ Unused.at = "idle" /\ Unused.of = None
    BY DEF Unused, UseType
  <2>4. /\ updates' \in Nat /\ updates <= updates' /\ answered' \in 0..updates'
        /\ cached' \in (0..updates') \union {None}
    BY <1>t, <2>1, <2>2 DEF SettingsTypeOK
  <2>5. Unused.of \in (0..updates') \union {None}
    BY <2>3
  <2> QED
    BY <2>1, <2>3, <2>4, <2>5, OneUses
<1>6. CASE CopyExpires \/ UNCHANGED settingsVars
  <2>1. UNCHANGED <<updates, answered, use>> /\ cached' \in {cached, None}
    BY <1>6 DEF CopyExpires, settingsVars
  <2> QED
    BY <1>t, <2>1 DEF SettingsInv, SettingsTypeOK, Clearing
<1> QED
  BY <1>1, <1>2, <1>3, <1>4, <1>5, <1>6 DEF SettingsNext

\* Every variable of Settings always holds a value the code can store.
THEOREM SettingsTyped == SettingsSpec => []SettingsTypeOK
<1>1. SettingsInv => SettingsTypeOK
  BY DEF SettingsInv
<1> QED
  BY <1>1, SettingsInitOK, SettingsNextOK, PTL DEF SettingsSpec

=============================================================================
