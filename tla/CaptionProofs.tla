---------------------------- MODULE CaptionProofs ----------------------------
(***************************************************************************)
(* Proofs about CaptionJobs for any uploads, job ids, prices and faults.   *)
(* IInv says what a refund rests on; SteadyInv adds that an id that is     *)
(* paid for has one upload that passed its charge, ever, and LoneInv that  *)
(* this upload is over once its job is in the queue.  Together they carry  *)
(* the refinement of Escrow.                                               *)
(***************************************************************************)
EXTENDS CaptionJobs, TLAPS

\* An upload that has passed its charge and has not replied yet.
Busy(r) == pc[r] \in {"store", "enqueue", "discard", "refund"}

Typed ==
  /\ CaptionTypeOK
  /\ upload \in [Uploads -> Jobs] /\ price \in [Uploads -> Nat] /\ provider \in BOOLEAN

\* How the worker's run of a job and the queue's record of it go together.
RunOK(j) ==
  /\ phase[j] # "none" => job[j].state = "active"
  /\ job[j].state \in {"waiting", "active"} => job[j].attempts < Attempts
  /\ phase[j] \in {"none", "resolve", "transcribe"} <=> outcome[j] = "none"
  /\ outcome[j] = "retry" => phase[j] = "finish" /\ job[j].attempts + 1 < Attempts
  /\ phase[j] = "refund" => outcome[j] \in {"fatal", "last"}
  /\ job[j].state = "absent" => job[j].credits = 0
  /\ job[j].state = "active" /\ phase[j] = "none" => job[j].stalls > 0

\* The owner of a job paid so much for it.
Took(j, credits) ==
  \E c \in entries : c.key = ChargeKey(j) /\ c.amount = -credits /\ c.user = Owner[j]

\* What an upload or the worker would give back was taken.
UploadBacked(r) == Busy(r) => price[r] = 0 \/ Took(upload[r], price[r])
JobBacked(j) == job[j].credits = 0 \/ Took(j, job[j].credits)

IInv ==
  /\ Typed
  /\ \A j \in Jobs : RunOK(j) /\ JobBacked(j)
  /\ \A r \in Uploads : UploadBacked(r)
  /\ RefundsAreBacked

-----------------------------------------------------------------------------
\* Whether captions cost anything does not change between two sends of one id.
SteadyPrices == \A j \in Jobs : 0 \in PricesOf[j] => PricesOf[j] = {0}

Costs(j) == 0 \notin PricesOf[j]

\* Nothing has been done for a job id yet.
Fresh(j) ==
  /\ job[j].state = "absent" /\ j \notin doomed \union served
  /\ ~Refunded(j)

\* Only the upload that charges an id for the first time stores audio for it.
PaidOnce(j) ==
  Costs(j) =>
    /\ ~Charged(j) => Fresh(j) /\ file[j] = "none" /\ \A r \in Uploads : upload[r] = j => ~Busy(r)
    /\ \A r \in Uploads : upload[r] = j =>
         /\ pc[r] = "store" => Fresh(j) /\ file[j] = "none"
         /\ pc[r] = "enqueue" => Fresh(j) /\ file[j] = "new"
         /\ \A q \in Uploads : upload[q] = j /\ Busy(q) /\ Busy(r) => q = r

Priced ==
  /\ \A r \in Uploads : Busy(r) \/ pc[r] \in {"find", "charge"} => price[r] \in PricesOf[upload[r]]
  /\ \A j \in Jobs : /\ job[j].state # "absent" => job[j].credits \in PricesOf[j]
                     /\ Charged(j) => Costs(j)

SteadyInv == Priced /\ \A j \in Jobs : PaidOnce(j)

\* A run that ends without a result for good has given the credits back.
EndsRefunded(j) ==
  Charged(j) /\ (job[j].state = "failed" \/ (phase[j] = "finish" /\ outcome[j] \in {"fatal", "last"}))
    => Refunded(j) \/ j \in audited

\* While its job is in the queue, or has been, no upload works on a paid id.
Lone(j) ==
  Costs(j) =>
    /\ job[j].state # "absent" \/ j \in served => \A r \in Uploads : upload[r] = j => ~Busy(r)
    /\ j \in served => job[j].state \in {"absent", "completed"}
    /\ job[j].state \in {"waiting", "active"} => j \notin doomed

\* The audio of a job whose worker never died is there until its last run ends.
Kept(j) ==
  job[j].credits > 0 /\ job[j].stalls = 0 =>
    /\ job[j].state = "waiting" => file[j] # "none"
    /\ phase[j] \in {"resolve", "transcribe"} \/ outcome[j] = "retry" => file[j] # "none"

LoneInv == \A j \in Jobs : Lone(j) /\ Kept(j)

\* Credits are given back only after the audio is gone for good.
GoneFirst(j) ==
  /\ Costs(j) =>
       /\ Refunded(j) \/ phase[j] = "refund" => file[j] = "none" /\ outcome[j] # "done"
       /\ \A r \in Uploads : upload[r] = j /\ pc[r] = "refund" => file[j] = "none"
  /\ j \in served => Charged(j) /\ ~Refunded(j)

GoneInv == \A j \in Jobs : GoneFirst(j)

-----------------------------------------------------------------------------
(* Types *)

LEMMA InitTyped == CaptionInit => Typed /\ \A j \in Jobs : RunOK(j)
  BY CaptionsAssumption
  DEF CaptionInit, Init, Typed, CaptionTypeOK, RunOK, Statuses, Replies, NoRecord, Attempts

\* A posting keeps the book typed.
LEMMA PostTyped ==
  ASSUME Typed, NEW u \in Users, NEW k \in Keys, NEW a \in Int, NEW active,
         Post(u, k, a, active)
  PROVE  /\ status' \in [Users -> Statuses] /\ balance' \in [Users -> Nat]
         /\ entries' \subseteq [user : Users, key : Keys, amount : Int]
<1> USE DEF Post, Accepts, Typed, CaptionTypeOK
<1>1. balance[u] + a \in Nat
  OBVIOUS
<1> QED
  BY <1>1

\* So does giving credits back, which an audit may record instead.
LEMMA GiveBackTyped ==
  ASSUME Typed, NEW j \in Jobs, NEW n \in Nat, GiveBack(j, n)
  PROVE  /\ status' \in [Users -> Statuses] /\ balance' \in [Users -> Nat]
         /\ entries' \subseteq [user : Users, key : Keys, amount : Int]
         /\ audited' \subseteq Jobs
<1>1. Owner[j] \in Users /\ RefundKey(j) \in Keys /\ n \in Int
  BY CaptionsAssumption
<1>2. CASE Post(Owner[j], RefundKey(j), n, FALSE) /\ UNCHANGED audited
  <2>1. /\ status' \in [Users -> Statuses] /\ balance' \in [Users -> Nat]
        /\ entries' \subseteq [user : Users, key : Keys, amount : Int]
    BY <1>1, <1>2, PostTyped
  <2> QED
    BY <1>2, <2>1 DEF Typed, CaptionTypeOK
<1>3. CASE UNCHANGED bookVars /\ audited' \in {audited, audited \union {j}}
  BY <1>3 DEF Typed, CaptionTypeOK, bookVars
<1> QED
  BY <1>2, <1>3 DEF GiveBack

\* Every step of an upload keeps the variables typed.
LEMMA UploadTyped ==
  ASSUME Typed, NEW r \in Uploads,
         (\E j \in Jobs : \E p \in PricesOf[j] : Start(r, j, p)) \/ Serve(r) \/ Cut(r)
  PROVE  Typed'
<1> USE DEF Goto, Replies
<1>1. ASSUME NEW j \in Jobs, NEW p \in PricesOf[j], Start(r, j, p) PROVE Typed'
  BY <1>1, CaptionsAssumption DEF Start, Typed, CaptionTypeOK, bookVars, workVars
<1>2. CASE FindJob(r)
  BY <1>2 DEF FindJob, Typed, CaptionTypeOK, bookVars, workVars
<1>3. CASE Charge(r)
  <2>1. upload[r] \in Jobs /\ Owner[upload[r]] \in Users /\ ChargeKey(upload[r]) \in Keys /\ -price[r] \in Int
    BY CaptionsAssumption DEF Typed
  <2>2. /\ status' \in [Users -> Statuses] /\ balance' \in [Users -> Nat]
        /\ entries' \subseteq [user : Users, key : Keys, amount : Int]
    BY <1>3, <2>1, PostTyped DEF Charge, bookVars, Typed, CaptionTypeOK
  <2> QED
    BY <1>3, <2>2 DEF Charge, Replayed, Typed, CaptionTypeOK, workVars
<1>4. CASE StoreAudio(r)
  BY <1>4 DEF StoreAudio, Typed, CaptionTypeOK, bookVars, workVars
<1>5. CASE Enqueue(r)
  <2>1. NewRecord(r) \in [state : {"absent", "waiting", "active", "completed", "failed"},
                          credits : Nat, attempts : 0..Attempts, stalls : 0..MaxStalls]
    BY CaptionsAssumption DEF NewRecord, Attempts, Typed
  <2>2. job' \in [Jobs -> [state : {"absent", "waiting", "active", "completed", "failed"},
                           credits : Nat, attempts : 0..Attempts, stalls : 0..MaxStalls]]
    BY <1>5, <2>1 DEF Enqueue, AddedJobs, Typed, CaptionTypeOK
  <2> QED
    BY <1>5, <2>2 DEF Enqueue, Typed, CaptionTypeOK, bookVars, workVars
<1>6. CASE Discard(r)
  BY ZenonT(60), <1>6 DEF Discard, TryRemove, RemovedFile, Typed, CaptionTypeOK, bookVars, workVars
<1>7. CASE RefundUpload(r)
  <2>1. /\ status' \in [Users -> Statuses] /\ balance' \in [Users -> Nat]
        /\ entries' \subseteq [user : Users, key : Keys, amount : Int]
        /\ audited' \subseteq Jobs
    BY <1>7, GiveBackTyped DEF RefundUpload, UploadRefund, Typed
  <2> QED
    BY <1>7, <2>1 DEF RefundUpload, Typed, CaptionTypeOK, workVars
<1>8. CASE Cut(r)
  BY <1>8 DEF Cut, Typed, CaptionTypeOK, bookVars, workVars
<1> QED
  BY <1>1, <1>2, <1>3, <1>4, <1>5, <1>6, <1>7, <1>8 DEF Serve

\* So does every step of the worker, the queue and the sweeper.
LEMMA WorkTyped ==
  ASSUME Typed, NEW j \in Jobs, \A i \in Jobs : RunOK(i),
         \/ Take(j) \/ Work(j) \/ WorkerDies(j) \/ Stalled(j)
         \/ Prune(j) \/ Age(j) \/ SweepCheck(j) \/ SweepDelete(j)
  PROVE  Typed' /\ \A i \in Jobs : RunOK(i)'
<1> USE DEF RunOK, Attempts
<1>t. job[j].attempts \in 0..Attempts /\ job[j].stalls \in 0..MaxStalls /\ MaxStalls \in Nat
  BY CaptionsAssumption DEF Typed, CaptionTypeOK
<1>1. CASE Take(j)
  BY <1>1, <1>t DEF Take, Typed, CaptionTypeOK, bookVars, uploadVars
<1>2. CASE Resolve(j)
  BY SMTT(40), <1>2, <1>t DEF Resolve, Decide, AfterRun, Typed, CaptionTypeOK, bookVars, uploadVars
<1>3. CASE Transcribe(j)
  BY SMTT(40), <1>3, <1>t DEF Transcribe, LastAttempt, Decide, AfterRun, Typed, CaptionTypeOK, bookVars,
    uploadVars
<1>4. CASE CleanAudio(j)
  BY <1>4, <1>t DEF CleanAudio, AfterClean, TryRemove, RemovedFile, Typed, CaptionTypeOK, bookVars,
    uploadVars
<1>5. CASE RefundJob(j)
  <2>1. /\ status' \in [Users -> Statuses] /\ balance' \in [Users -> Nat]
        /\ entries' \subseteq [user : Users, key : Keys, amount : Int]
        /\ audited' \subseteq Jobs
    BY <1>5, GiveBackTyped DEF RefundJob, Typed, CaptionTypeOK
  <2> QED
    BY <1>5, <2>1, <1>t DEF RefundJob, Typed, CaptionTypeOK, uploadVars
<1>6. CASE Finish(j)
  BY <1>6, <1>t DEF Finish, Leave, Typed, CaptionTypeOK, bookVars, uploadVars
<1>7. CASE WorkerDies(j)
  BY <1>7, <1>t DEF WorkerDies, Leave, Typed, CaptionTypeOK, bookVars, uploadVars
<1>8. CASE Stalled(j)
  BY <1>8, <1>t DEF Stalled, Typed, CaptionTypeOK, bookVars, uploadVars, workVars
<1>9. CASE Prune(j)
  BY <1>9, <1>t DEF Prune, NoRecord, Typed, CaptionTypeOK, bookVars, uploadVars, workVars
<1>10. CASE Age(j) \/ SweepCheck(j) \/ SweepDelete(j)
  BY SMTT(40), <1>10, <1>t DEF Age, SweepCheck, SweepDelete, RemovedFile, Typed, CaptionTypeOK, bookVars,
    uploadVars, workVars
<1> QED
  BY <1>1, <1>2, <1>3, <1>4, <1>5, <1>6, <1>7, <1>8, <1>9, <1>10 DEF Work

\* Uploads start and stop no run; the other steps touch no queue record.
LEMMA UploadKeepsRuns ==
  ASSUME Typed, \A i \in Jobs : RunOK(i), NEW r \in Uploads,
         (\E j \in Jobs : \E p \in PricesOf[j] : Start(r, j, p)) \/ Serve(r) \/ Cut(r)
  PROVE  \A i \in Jobs : RunOK(i)'
<1>1. UNCHANGED <<phase, outcome>>
  BY DEF Start, Serve, Cut, FindJob, Charge, StoreAudio, Enqueue, Discard, RefundUpload, workVars
<1>2. \A i \in Jobs : job'[i] = job[i] \/ (job[i].state = "absent" /\ job'[i] = NewRecord(r))
  BY DEF Start, Serve, Cut, FindJob, Charge, StoreAudio, Enqueue, AddedJobs, Discard, RefundUpload,
    Typed, CaptionTypeOK
<1> QED
  BY <1>1, <1>2 DEF RunOK, NewRecord, Attempts

\* Accounts and the provider's switch.
LEMMA RestTyped ==
  ASSUME Typed, \A i \in Jobs : RunOK(i), SwitchProvider \/ (\E u \in Users : Account(u)) \/ UNCHANGED vars
  PROVE  Typed' /\ \A i \in Jobs : RunOK(i)'
<1>1. CASE SwitchProvider \/ UNCHANGED vars
  <2>1. provider' \in BOOLEAN
    BY <1>1, Zenon DEF SwitchProvider, vars, Typed
  <2>2. UNCHANGED <<bookVars, uploadVars, job, workVars, file, doomed, audited, served, abandoned>>
    BY <1>1 DEF SwitchProvider, vars
  <2> QED
    BY <2>1, <2>2 DEF Typed, CaptionTypeOK, RunOK, bookVars, uploadVars, workVars
<1>2. ASSUME NEW u \in Users, Account(u) PROVE Typed' /\ \A i \in Jobs : RunOK(i)'
  <2>1. UNCHANGED <<provider, uploadVars, job, workVars, file, doomed, audited, served, abandoned>>
    BY <1>2 DEF Account
  <2>2. CASE GrantCredits(u)
    <3>1. GrantKey(u) \in Keys /\ Grant \in Int
      BY CaptionsAssumption
    <3>2. /\ status' \in [Users -> Statuses] /\ balance' \in [Users -> Nat]
          /\ entries' \subseteq [user : Users, key : Keys, amount : Int]
      BY <2>2, <3>1, PostTyped DEF GrantCredits
    <3> QED
      BY <2>1, <3>2 DEF Typed, CaptionTypeOK, RunOK, uploadVars, workVars
  <2>3. CASE Suspend(u) \/ Unsuspend(u)
    BY <2>1, <2>3 DEF Suspend, Unsuspend, Move, Statuses, Typed, CaptionTypeOK, RunOK, uploadVars,
      workVars
  <2>4. CASE DeleteAccount(u)
    <3>1. [user |-> u, key |-> DeletedKey(u), amount |-> -balance[u]] \in [user : Users, key : Keys, amount : Int]
      BY CaptionsAssumption DEF Typed, CaptionTypeOK
    <3>2. /\ status' \in [Users -> Statuses] /\ balance' \in [Users -> Nat]
          /\ entries' \subseteq [user : Users, key : Keys, amount : Int]
      BY <2>4, <3>1 DEF DeleteAccount, Typed, CaptionTypeOK, Statuses
    <3> QED
      BY <2>1, <3>2 DEF Typed, CaptionTypeOK, RunOK, uploadVars, workVars
  <2> QED
    BY <1>2, <2>2, <2>3, <2>4 DEF Account
<1> QED
  BY <1>1, <1>2

-----------------------------------------------------------------------------
(* The book *)

\* No step drops an entry; the only refunds written are those of the upload or
\* the job that refunds, the only charge that of the upload that charges.
Grows ==
  /\ entries \subseteq entries'
  /\ \A e \in entries' \ entries, j \in Jobs :
       /\ e.key = RefundKey(j) =>
            /\ e.user = Owner[j]
            /\ \/ \E r \in Uploads : upload[r] = j /\ pc[r] = "refund" /\ e.amount = price[r] /\ price[r] > 0
               \/ phase[j] = "refund" /\ e.amount = job[j].credits /\ job[j].credits > 0
       /\ e.key = ChargeKey(j) =>
            \E r \in Uploads :
              /\ upload[r] = j /\ pc[r] = "charge" /\ price[r] # 0
              /\ ~Charged(j) /\ entries' = entries \union {e}

LEMMA BookGrows ==
  ASSUME Typed, [CaptionNext]_vars
  PROVE  Grows
<1> USE DEF Grows
<1>1. CASE UNCHANGED entries
  BY <1>1
<1>2. ASSUME NEW r \in Uploads, Charge(r) PROVE Grows
  <2>1. CASE Post(Owner[upload[r]], ChargeKey(upload[r]), -price[r], TRUE) /\ price[r] # 0
    <3>1. entries' = entries \union {[user |-> Owner[upload[r]], key |-> ChargeKey(upload[r]), amount |-> -price[r]]}
      BY <2>1 DEF Post
    <3>2. \A j : ChargeKey(upload[r]) # RefundKey(j)
      BY DEF ChargeKey, RefundKey
    <3>3. \A j : ChargeKey(upload[r]) = ChargeKey(j) => j = upload[r]
      BY DEF ChargeKey
    <3>4. pc[r] = "charge" /\ ~Charged(upload[r])
      BY <1>2, <2>1 DEF Charge, Post, Charged
    <3> QED
      BY <2>1, <3>1, <3>2, <3>3, <3>4
  <2> QED
    BY <1>2, <1>1, <2>1 DEF Charge, bookVars
<1>3. ASSUME NEW i \in Jobs, NEW n \in Nat, GiveBack(i, n),
             \/ \E r \in Uploads : upload[r] = i /\ pc[r] = "refund" /\ n = price[r]
             \/ phase[i] = "refund" /\ n = job[i].credits
      PROVE  Grows
  <2>1. CASE Post(Owner[i], RefundKey(i), n, FALSE) /\ n > 0
    <3>1. entries' = entries \union {[user |-> Owner[i], key |-> RefundKey(i), amount |-> n]}
      BY <2>1 DEF Post
    <3>2. \A j : RefundKey(i) # ChargeKey(j)
      BY DEF ChargeKey, RefundKey
    <3>3. \A j : RefundKey(i) = RefundKey(j) => j = i
      BY DEF RefundKey
    <3> QED
      BY <2>1, <1>3, <3>1, <3>2, <3>3
  <2> QED
    BY <1>3, <1>1, <2>1 DEF GiveBack, bookVars
<1>4. ASSUME NEW r \in Uploads, RefundUpload(r) PROVE Grows
  BY <1>3, <1>4 DEF RefundUpload, UploadRefund, Typed
<1>5. ASSUME NEW j \in Jobs, RefundJob(j) PROVE Grows
  BY <1>3, <1>5 DEF RefundJob, Typed, CaptionTypeOK
<1>6. ASSUME NEW u \in Users, Account(u) PROVE Grows
  <2>1. \A j : GrantKey(u) \notin {ChargeKey(j), RefundKey(j)} /\ DeletedKey(u) \notin {ChargeKey(j), RefundKey(j)}
    BY DEF GrantKey, DeletedKey, ChargeKey, RefundKey
  <2>2. CASE GrantCredits(u)
    BY <2>1, <2>2 DEF GrantCredits, Post
  <2>3. CASE DeleteAccount(u)
    BY <2>1, <2>3 DEF DeleteAccount
  <2>4. CASE Suspend(u) \/ Unsuspend(u)
    BY <2>4, <1>1 DEF Suspend, Unsuspend, Move
  <2> QED
    BY <1>6, <2>2, <2>3, <2>4 DEF Account
<1> QED
  BY <1>1, <1>2, <1>4, <1>5, <1>6 DEF CaptionNext, Start, Serve, FindJob, StoreAudio, Enqueue,
    Discard, Cut,
    Take, Work, Resolve, Transcribe, CleanAudio, Finish, WorkerDies, Stalled, Prune, Age,
    SweepCheck, SweepDelete,
    SwitchProvider, vars, bookVars

\* What was taken stays in the book.
LEMMA TookStays ==
  ASSUME Grows
  PROVE  \A j : /\ \A n : Took(j, n) => Took(j, n)'
                /\ Charged(j) => Charged(j)'
                /\ Refunded(j) => Refunded(j)'
  BY DEF Grows, Took, Charged, Refunded, Posted

\* An upload becomes busy by its charge, and keeps its id and its price as long.
LEMMA BusyBefore ==
  ASSUME Typed, [CaptionNext]_vars, NEW r \in Uploads, Busy(r)'
  PROVE  /\ upload'[r] = upload[r] /\ price'[r] = price[r]
         /\ Busy(r) \/ Charge(r)
<1> USE DEF Busy, Goto, Replies
<1>1. ASSUME NEW q \in Uploads, NEW j \in Jobs, NEW p \in PricesOf[j], Start(q, j, p)
      PROVE  upload'[r] = upload[r] /\ price'[r] = price[r] /\ Busy(r)
  BY <1>1 DEF Start, Typed, CaptionTypeOK
<1>2. ASSUME NEW q \in Uploads, Serve(q) \/ Cut(q)
      PROVE  upload'[r] = upload[r] /\ price'[r] = price[r] /\ (Busy(r) \/ Charge(r))
  <2>1. UNCHANGED <<upload, price>>
    BY <1>2 DEF Serve, Cut, FindJob, Charge, StoreAudio, Enqueue, Discard, RefundUpload
  <2>2. CASE FindJob(q) \/ StoreAudio(q) \/ Enqueue(q) \/ Discard(q) \/ RefundUpload(q) \/ Cut(q)
    BY <2>2 DEF FindJob, StoreAudio, Enqueue, Discard, RefundUpload, Cut, Typed, CaptionTypeOK
  <2>3. CASE Charge(q)
    BY <2>3 DEF Charge, Replayed, Typed, CaptionTypeOK
  <2> QED
    BY <1>2, <2>1, <2>2, <2>3 DEF Serve
<1>3. CASE UNCHANGED uploadVars
  BY <1>3 DEF uploadVars
<1> QED
  BY <1>1, <1>2, <1>3 DEF CaptionNext, Take, Work, Resolve, Transcribe, CleanAudio, RefundJob,
    Finish, WorkerDies,
    Stalled, Prune, Age, SweepCheck, SweepDelete, SwitchProvider, Account, vars, uploadVars

\* A paid job's credits are those of the upload that queues it, or as they were.
LEMMA CreditsBefore ==
  ASSUME Typed, [CaptionNext]_vars, NEW j \in Jobs, \A i \in Jobs : RunOK(i)
  PROVE  \/ job'[j].credits = 0 /\ job'[j].state = "absent"
         \/ job'[j].credits = job[j].credits /\ (job[j].state = "absent" => job'[j].state = "absent")
         \/ \E r \in Uploads : upload[r] = j /\ pc[r] = "enqueue" /\ job'[j].credits = price[r]
<1>1. ASSUME NEW q \in Uploads, Enqueue(q)
      PROVE  \/ job'[j] = job[j]
             \/ upload[q] = j /\ pc[q] = "enqueue" /\ job'[j].credits = price[q]
  BY <1>1 DEF Enqueue, AddedJobs, NewRecord, Typed, CaptionTypeOK
<1>2. ASSUME NEW i \in Jobs, Take(i) \/ Finish(i) \/ WorkerDies(i) \/ Stalled(i) \/ Prune(i), RunOK(i)
      PROVE  \/ job'[j].credits = 0 /\ job'[j].state = "absent"
             \/ job'[j].credits = job[j].credits /\ (job[j].state = "absent" => job'[j].state = "absent")
  BY SMTT(40), <1>2 DEF Take, Finish, WorkerDies, Stalled, Prune, NoRecord, Typed, CaptionTypeOK, RunOK
<1>3. CASE UNCHANGED job
  BY <1>3
<1> QED
  BY <1>1, <1>2, <1>3 DEF CaptionNext, Start, Serve, Cut, FindJob, Charge, StoreAudio, Discard,
    RefundUpload,
    Work, Resolve, Transcribe, CleanAudio, RefundJob, Age, SweepCheck, SweepDelete, SwitchProvider,
    Account, vars

\* A refund is backed when it is written, and what backs it stays.
LEMMA NextBacked ==
  ASSUME IInv, [CaptionNext]_vars
  PROVE  /\ \A j \in Jobs : JobBacked(j)'
         /\ \A r \in Uploads : UploadBacked(r)'
         /\ RefundsAreBacked'
<1>1. Grows
  BY BookGrows DEF IInv
<1>2. ASSUME NEW r \in Uploads PROVE UploadBacked(r)'
  <2> SUFFICES ASSUME Busy(r)', price'[r] # 0, NEW j, j = upload[r], NEW n, n = price[r]
               PROVE  Took(j, n)' /\ upload'[r] = j /\ price'[r] = n
    BY BusyBefore DEF UploadBacked, Took, IInv
  <2>1. upload'[r] = j /\ price'[r] = n /\ (Busy(r) \/ Charge(r))
    BY BusyBefore DEF IInv
  <2>2. CASE Busy(r)
    BY <1>1, <2>1, <2>2, TookStays DEF IInv, UploadBacked
  <2>3. CASE Charge(r) /\ ~Busy(r)
    <3>1. Post(Owner[j], ChargeKey(j), -n, TRUE)
      BY <2>1, <2>3 DEF Charge, Replayed, Goto, Busy, IInv, Typed, CaptionTypeOK
    <3>2. [user |-> Owner[j], key |-> ChargeKey(j), amount |-> -n] \in entries'
      BY <3>1 DEF Post
    <3> QED
      BY <2>1, <3>2 DEF Took
  <2> QED
    BY <2>1, <2>2, <2>3
<1>3. ASSUME NEW j \in Jobs PROVE JobBacked(j)'
  <2>1. CASE job'[j].credits = 0
    BY <2>1 DEF JobBacked
  <2>2. CASE job'[j].credits = job[j].credits /\ job[j].credits # 0
    BY <1>1, <2>2, TookStays DEF JobBacked, Took, IInv
  <2>3. ASSUME NEW r \in Uploads, upload[r] = j, pc[r] = "enqueue", job'[j].credits = price[r]
        PROVE  JobBacked(j)'
    <3>1. price[r] = 0 \/ Took(j, price[r])
      BY <2>3 DEF IInv, UploadBacked, Busy
    <3> QED
      BY <1>1, <2>3, <3>1 DEF JobBacked, Took, Grows
  <2> QED
    BY <2>1, <2>2, <2>3, CreditsBefore DEF IInv
<1>4. RefundsAreBacked'
  <2> SUFFICES ASSUME NEW e \in entries', NEW j \in Jobs, e.key = RefundKey(j)
               PROVE  \E c \in entries' : c.key = ChargeKey(j) /\ c.amount = -e.amount /\ c.user = e.user
    BY DEF RefundsAreBacked
  <2>1. CASE e \in entries
    BY <1>1, <2>1 DEF IInv, RefundsAreBacked, Grows
  <2>2. CASE e \notin entries
    <3>1. e.user = Owner[j] /\ Took(j, e.amount)
      BY <1>1, <2>2 DEF Grows, IInv, UploadBacked, JobBacked, Busy
    <3> QED
      BY <1>1, <3>1 DEF Took, Grows
  <2> QED
    BY <2>1, <2>2
<1> QED
  BY <1>2, <1>3, <1>4

LEMMA NextKeeps == IInv /\ [CaptionNext]_vars => IInv'
<1> SUFFICES ASSUME IInv, [CaptionNext]_vars PROVE IInv'
  OBVIOUS
<1>1. Typed' /\ \A j \in Jobs : RunOK(j)'
  BY UploadTyped, UploadKeepsRuns, WorkTyped, RestTyped DEF IInv, CaptionNext
<1> QED
  BY <1>1, NextBacked DEF IInv

LEMMA InitOK == CaptionInit => IInv
<1> SUFFICES ASSUME CaptionInit PROVE IInv
  OBVIOUS
<1>1. Typed /\ \A j \in Jobs : RunOK(j)
  BY InitTyped
<1> QED
  BY <1>1 DEF IInv, CaptionInit, Init, NoRecord, JobBacked, UploadBacked, Busy, RefundsAreBacked

-----------------------------------------------------------------------------
(* An id that is paid for has one upload *)

\* What a step does to a job id's queue record, and when a sweep is decided or a
\* paid result delivered.
LEMMA JobStep ==
  ASSUME Typed, [CaptionNext]_vars, NEW j \in Jobs, RunOK(j)
  PROVE  /\ job[j].state = "absent" => job'[j] = job[j]
              \/ \E r \in Uploads : upload[r] = j /\ Enqueue(r) /\ job'[j] = NewRecord(r)
         /\ j \in doomed' \ doomed => file[j] = "old" /\ NotNeeded(j) /\ UNCHANGED <<job, file, pc>>
         /\ j \in served' \ served => phase[j] = "finish" /\ outcome[j] = "done" /\ job[j].credits > 0
                                      /\ job'[j].state = "completed"
<1> USE DEF RunOK
<1>1. ASSUME NEW q \in Uploads, Enqueue(q)
      PROVE  job'[j] = job[j] \/ (upload[q] = j /\ job'[j] = NewRecord(q))
  BY <1>1 DEF Enqueue, AddedJobs, Typed, CaptionTypeOK
<1>2. ASSUME NEW i \in Jobs, Take(i) \/ Finish(i) \/ WorkerDies(i) \/ Stalled(i) \/ Prune(i)
      PROVE  job[j].state = "absent" => job'[j] = job[j]
  BY <1>2 DEF Take, Finish, WorkerDies, Stalled, Prune, NoRecord, Typed, CaptionTypeOK
<1>3. ASSUME NEW i \in Jobs, Finish(i)
      PROVE  j \in served' \ served => phase[j] = "finish" /\ outcome[j] = "done" /\ job[j].credits > 0
                                       /\ job'[j].state = "completed"
  BY <1>3 DEF Finish, Typed, CaptionTypeOK
<1>4. ASSUME NEW i \in Jobs, SweepCheck(i)
      PROVE  j \in doomed' \ doomed => file[j] = "old" /\ NotNeeded(j) /\ UNCHANGED <<job, file, pc>>
  BY <1>4 DEF SweepCheck, Typed, CaptionTypeOK, uploadVars
<1>5. CASE UNCHANGED served
  <2>1. CASE UNCHANGED doomed
    BY <1>1, <1>2, <1>5, <2>1 DEF CaptionNext, Start, Serve, Cut, FindJob, Charge, StoreAudio,
      Discard, RefundUpload,
      Work, Resolve, Transcribe, CleanAudio, RefundJob, Age, SweepCheck, SweepDelete,
      SwitchProvider, Account, vars
  <2>2. ASSUME NEW i \in Jobs, SweepCheck(i) \/ SweepDelete(i)
        PROVE  job' = job /\ (j \in doomed' \ doomed => file[j] = "old" /\ NotNeeded(j) /\ UNCHANGED <<job, file, pc>>)
    BY <1>4, <2>2 DEF SweepCheck, SweepDelete
  <2> QED
    BY <1>5, <2>1, <2>2 DEF CaptionNext, Start, Serve, Cut, FindJob, Charge, StoreAudio, Enqueue,
      Discard, RefundUpload,
      Take, Work, Resolve, Transcribe, CleanAudio, RefundJob, Finish, WorkerDies, Stalled, Prune,
      Age, SwitchProvider, Account, vars
<1>6. CASE ~UNCHANGED served
  <2>1. PICK i \in Jobs : Finish(i)
    BY <1>6 DEF CaptionNext, Start, Serve, Cut, FindJob, Charge, StoreAudio, Enqueue, Discard,
      RefundUpload,
      Take, Work, Resolve, Transcribe, CleanAudio, RefundJob, WorkerDies, Stalled, Prune, Age,
      SweepCheck, SweepDelete,
      SwitchProvider, Account, vars
  <2> QED
    BY <1>2, <1>3, <2>1 DEF Finish
<1> QED
  BY <1>5, <1>6

\* What a step does to a job's audio.
LEMMA FileStep ==
  ASSUME Typed, [CaptionNext]_vars, NEW j \in Jobs
  PROVE  \/ file'[j] = file[j]
         \/ file'[j] = "none" /\ (j \in doomed \/ phase[j] = "clean")
         \/ file'[j] = "none" /\ \E r \in Uploads : upload[r] = j /\ Discard(r)
         \/ file'[j] = "new" /\ \E r \in Uploads : upload[r] = j /\ StoreAudio(r)
         \/ file[j] = "new" /\ file'[j] = "old" /\ \A r \in Uploads : upload[r] = j => pc[r] # "enqueue"
<1>1. ASSUME NEW i \in Jobs, CleanAudio(i) \/ SweepDelete(i)
      PROVE  file'[j] = file[j] \/ (file'[j] = "none" /\ (j \in doomed \/ phase[j] = "clean"))
  BY <1>1 DEF CleanAudio, SweepDelete, TryRemove, RemovedFile, Typed, CaptionTypeOK
<1>2. ASSUME NEW i \in Jobs, Age(i)
      PROVE  \/ file'[j] = file[j]
             \/ file[j] = "new" /\ file'[j] = "old" /\ \A r \in Uploads : upload[r] = j => pc[r] # "enqueue"
  BY <1>2 DEF Age, Typed, CaptionTypeOK
<1>3. ASSUME NEW q \in Uploads, Discard(q) \/ StoreAudio(q)
      PROVE  \/ file'[j] = file[j]
             \/ file'[j] = "none" /\ upload[q] = j /\ Discard(q)
             \/ file'[j] = "new" /\ upload[q] = j /\ StoreAudio(q)
  BY <1>3 DEF Discard, StoreAudio, TryRemove, RemovedFile, Typed, CaptionTypeOK
<1>4. CASE UNCHANGED file
  BY <1>4
<1> QED
  BY <1>1, <1>2, <1>3, <1>4 DEF CaptionNext, Start, Serve, Cut, FindJob, Charge, Enqueue, RefundUpload,
    Take, Work, Resolve, Transcribe, RefundJob, Finish, WorkerDies, Stalled, Prune, SweepCheck,
    SwitchProvider, Account, vars

\* How an upload gets where it stores and queues.
LEMMA PcStep ==
  ASSUME Typed, [CaptionNext]_vars, NEW r \in Uploads
  PROVE  /\ pc'[r] = "store" => upload'[r] = upload[r] /\ ((pc[r] = "store" /\ ~StoreAudio(r)) \/ Charge(r))
         /\ pc'[r] = "enqueue" => upload'[r] = upload[r] /\ ((pc[r] = "enqueue" /\ ~Enqueue(r)) \/ StoreAudio(r))
         /\ pc'[r] = "refund" => upload'[r] = upload[r] /\ ((pc[r] = "refund" /\ ~RefundUpload(r)) \/ Discard(r))
         /\ pc'[r] \in {"find", "charge"} =>
              \/ pc[r] \in {"find", "charge"} /\ upload'[r] = upload[r] /\ price'[r] = price[r]
              \/ price'[r] \in PricesOf[upload'[r]]
<1> USE DEF Goto, Replies
<1>1. ASSUME NEW q \in Uploads, NEW j \in Jobs, NEW p \in PricesOf[j], Start(q, j, p)
      PROVE  q = r \/ (pc'[r] = pc[r] /\ upload'[r] = upload[r] /\ price'[r] = price[r])
  BY <1>1 DEF Start, Typed, CaptionTypeOK
<1>2. ASSUME NEW q \in Uploads, Serve(q) \/ Cut(q)
      PROVE  /\ upload'[r] = upload[r] /\ price'[r] = price[r]
             /\ q = r \/ pc'[r] = pc[r]
  BY <1>2 DEF Serve, Cut, FindJob, Charge, Replayed, StoreAudio, Enqueue, Discard, RefundUpload,
    Typed, CaptionTypeOK
<1>3. ASSUME NEW j \in Jobs, NEW p \in PricesOf[j], Start(r, j, p)
      PROVE  pc'[r] \in {"find", "refused"} /\ upload'[r] = j /\ price'[r] = p
  BY <1>3 DEF Start, Typed, CaptionTypeOK
<1>4. /\ StoreAudio(r) => pc'[r] \in {"enqueue", "discard"}
      /\ Enqueue(r) => pc'[r] \in {"queued", "discard"}
      /\ RefundUpload(r) => pc'[r] = "failed"
  BY DEF StoreAudio, Enqueue, RefundUpload, Typed, CaptionTypeOK
<1>5. ASSUME Serve(r) \/ Cut(r)
      PROVE  /\ pc'[r] = "store" => Charge(r)
             /\ pc'[r] = "enqueue" => StoreAudio(r)
             /\ pc'[r] = "refund" => Discard(r)
             /\ pc'[r] # "find" /\ (pc'[r] = "charge" => pc[r] = "find")
  <2>1. CASE FindJob(r)
    BY <2>1 DEF FindJob, Typed, CaptionTypeOK
  <2>2. CASE Charge(r)
    BY <2>2 DEF Charge, Replayed, Typed, CaptionTypeOK
  <2>3. CASE Discard(r) \/ Cut(r)
    BY <2>3 DEF Discard, Cut, Typed, CaptionTypeOK
  <2> QED
    BY <1>4, <1>5, <2>1, <2>2, <2>3 DEF Serve
<1>6. CASE UNCHANGED uploadVars
  BY <1>4, <1>6 DEF uploadVars
<1>7. CASE \E q \in Uploads : \/ \E j \in Jobs : \E p \in PricesOf[j] : Start(q, j, p)
                             \/ Serve(q) \/ Cut(q)
  BY <1>1, <1>2, <1>3, <1>4, <1>5, <1>7
<1> QED
  BY <1>6, <1>7 DEF CaptionNext, Take, Work, Resolve, Transcribe, CleanAudio, RefundJob, Finish,
    WorkerDies,
    Stalled, Prune, Age, SweepCheck, SweepDelete, SwitchProvider, Account, vars, uploadVars

\* An id nothing was done for stays so while no upload queues it or refunds it.
LEMMA FreshStays ==
  ASSUME IInv, [CaptionNext]_vars, NEW j \in Jobs, Fresh(j), file[j] # "old",
         \A r \in Uploads : upload[r] = j => pc[r] # "refund" /\ ~Enqueue(r)
  PROVE  Fresh(j)'
<1>1. Grows /\ RunOK(j) /\ Typed
  BY BookGrows DEF IInv
<1>2. phase[j] = "none" /\ job[j].state = "absent"
  BY <1>1 DEF Fresh, RunOK
<1>3. job'[j] = job[j] /\ j \notin doomed' \union served'
  BY <1>1, <1>2, JobStep DEF Fresh
<1>4. ~Refunded(j)'
  BY <1>1, <1>2 DEF Grows, Fresh, Refunded, Posted
<1> QED
  BY <1>2, <1>3, <1>4 DEF Fresh

\* A paid upload is let through by the charge that it posts.
LEMMA ChargeLetsThrough ==
  ASSUME IInv, Priced, [CaptionNext]_vars, NEW r \in Uploads, Charge(r), Busy(r)',
         NEW j \in Jobs, j = upload[r], Costs(j)
  PROVE  pc'[r] = "store" /\ ~Charged(j) /\ Charged(j)' /\ \A q \in Uploads : Charge(q) /\ Busy(q)' => q = r
<1>1. pc[r] = "charge" /\ price[r] # 0
  BY DEF Charge, Priced, Costs
<1>2. /\ pc' = [pc EXCEPT ![r] = "store"] /\ pc'[r] = "store" /\ ~Charged(j)
      /\ Post(Owner[j], ChargeKey(j), -price[r], TRUE)
  BY <1>1 DEF Charge, Replayed, Goto, Busy, IInv, Typed, CaptionTypeOK, Charged
<1>3. Charged(j)'
  <2>1. [user |-> Owner[j], key |-> ChargeKey(j), amount |-> -price[r]] \in entries'
    BY <1>2 DEF Post
  <2> QED
    BY <2>1 DEF Charged, Posted
<1>4. ASSUME NEW q \in Uploads, Charge(q), Busy(q)' PROVE q = r
  BY <1>2, <1>4 DEF Charge, Busy, IInv, Typed, CaptionTypeOK
<1> QED
  BY <1>2, <1>3, <1>4

LEMMA SteadyNext ==
  ASSUME SteadyPrices, IInv, SteadyInv, [CaptionNext]_vars
  PROVE  SteadyInv'
<1>1. Grows /\ Typed /\ Priced
  BY BookGrows DEF IInv, SteadyInv
<1>2. Priced'
  <2>1. ASSUME NEW r \in Uploads, Busy(r)' \/ pc'[r] \in {"find", "charge"}
        PROVE  price'[r] \in PricesOf[upload'[r]]
    <3>1. CASE Busy(r)'
      BY <1>1, <3>1, BusyBefore DEF Priced, Charge
    <3>2. CASE pc'[r] \in {"find", "charge"}
      BY <1>1, <3>2, PcStep DEF Priced
    <3> QED
      BY <2>1, <3>1, <3>2
  <2>2. ASSUME NEW j \in Jobs, job'[j].state # "absent" PROVE job'[j].credits \in PricesOf[j]
    BY <1>1, <2>2, CreditsBefore DEF Priced, Busy, IInv
  <2>3. ASSUME NEW j \in Jobs, Charged(j)' PROVE Costs(j)
    <3>1. CASE Charged(j)
      BY <1>1, <3>1 DEF Priced
    <3>2. CASE ~Charged(j)
      <4>1. PICK r \in Uploads : upload[r] = j /\ pc[r] = "charge" /\ price[r] # 0
        BY <1>1, <2>3, <3>2 DEF Grows, Charged, Posted
      <4> QED
        BY <1>1, <4>1 DEF Priced, SteadyPrices, Costs
    <3> QED
      BY <3>1, <3>2
  <2> QED
    BY <2>1, <2>2, <2>3 DEF Priced, Costs
<1>3. ASSUME NEW j \in Jobs, Costs(j), ~Charged(j) PROVE PaidOnce(j)'
  <2>1. /\ Fresh(j) /\ file[j] = "none" /\ \A r \in Uploads : upload[r] = j => ~Busy(r)
        /\ RunOK(j) /\ phase[j] = "none"
    BY <1>3 DEF SteadyInv, PaidOnce, IInv, RunOK, Fresh
  <2>2. Fresh(j)'
    BY <2>1, FreshStays DEF Busy, Enqueue
  <2>3. file'[j] = "none"
    BY <1>1, <2>1, FileStep DEF Fresh, Busy, Discard, StoreAudio
  <2>4. ASSUME NEW r \in Uploads, upload'[r] = j, Busy(r)'
        PROVE  Charge(r) /\ upload[r] = j
    BY <1>1, <2>1, <2>4, BusyBefore
  <2>5. ASSUME NEW r \in Uploads, upload'[r] = j, Busy(r)'
        PROVE  pc'[r] = "store" /\ Charged(j)' /\ \A q \in Uploads : Charge(q) /\ Busy(q)' => q = r
    BY <1>1, <1>3, <2>4, <2>5, ChargeLetsThrough
  <2>6. \A r \in Uploads : pc'[r] \in {"store", "enqueue"} => Busy(r)'
    BY DEF Busy
  <2> QED
    BY <2>2, <2>3, <2>4, <2>5, <2>6 DEF PaidOnce, Costs
<1>4. ASSUME NEW j \in Jobs, Costs(j), Charged(j) PROVE PaidOnce(j)'
  <2>1. Charged(j)'
    BY <1>1, <1>4, TookStays
  <2>2. ASSUME NEW r \in Uploads, upload'[r] = j, Busy(r)' PROVE Busy(r) /\ upload[r] = j /\ ~Charge(r)
    <3>1. upload[r] = j /\ (Busy(r) \/ Charge(r))
      BY <1>1, <2>2, BusyBefore
    <3>2. ~Charge(r)
      BY <1>1, <1>4, <2>2, <3>1, ChargeLetsThrough
    <3> QED
      BY <3>1, <3>2
  <2>3. ASSUME NEW r \in Uploads, upload[r] = j, Busy(r), NEW q \in Uploads, upload[q] = j, Busy(q)
        PROVE  q = r
    BY <1>4, <2>3 DEF SteadyInv, PaidOnce
  <2>4. ASSUME NEW r \in Uploads, upload'[r] = j, pc'[r] = "store"
        PROVE  Fresh(j)' /\ file'[j] = "none"
    <3>1. upload[r] = j /\ pc[r] = "store" /\ ~StoreAudio(r) /\ Busy(r)
      BY <1>1, <2>2, <2>4, PcStep DEF Busy
    <3>2. Fresh(j) /\ file[j] = "none"
      BY <1>4, <3>1 DEF SteadyInv, PaidOnce
    <3>3. \A q \in Uploads : upload[q] = j /\ Busy(q) => q = r
      BY <2>3, <3>1
    <3>4. Fresh(j)'
      BY <3>1, <3>2, <3>3, FreshStays DEF Busy, Enqueue
    <3>5. phase[j] = "none"
      BY <3>2 DEF IInv, RunOK, Fresh
    <3> QED
      BY <1>1, <3>1, <3>2, <3>3, <3>4, <3>5, FileStep DEF Fresh, Busy, Discard, StoreAudio
  <2>5. ASSUME NEW r \in Uploads, upload'[r] = j, pc'[r] = "enqueue"
        PROVE  Fresh(j)' /\ file'[j] = "new"
    <3>1. /\ upload[r] = j /\ Busy(r)
          /\ (pc[r] = "enqueue" /\ ~Enqueue(r)) \/ (pc[r] = "store" /\ StoreAudio(r))
      BY <1>1, <2>2, <2>5, PcStep DEF Busy, StoreAudio
    <3>2. Fresh(j) /\ file[j] # "old" /\ (pc[r] = "enqueue" => file[j] = "new")
      BY <1>4, <3>1 DEF SteadyInv, PaidOnce
    <3>3. \A q \in Uploads : upload[q] = j /\ Busy(q) => q = r
      BY <2>3, <3>1
    <3>4. Fresh(j)'
      BY <3>1, <3>2, <3>3, FreshStays DEF Busy, Enqueue
    <3>5. phase[j] = "none"
      BY <3>2 DEF IInv, RunOK, Fresh
    <3>6. CASE StoreAudio(r)
      BY <3>1, <3>4, <3>6 DEF StoreAudio, IInv, Typed, CaptionTypeOK
    <3>7. CASE pc[r] = "enqueue"
      BY <1>1, <3>1, <3>2, <3>3, <3>4, <3>5, <3>7, FileStep DEF Fresh, Busy, Discard, StoreAudio
    <3> QED
      BY <3>1, <3>6, <3>7
  <2> QED
    BY <2>1, <2>2, <2>3, <2>4, <2>5 DEF PaidOnce
<1>5. ASSUME NEW j \in Jobs PROVE PaidOnce(j)'
  BY <1>3, <1>4 DEF PaidOnce, Costs
<1> QED
  BY <1>2, <1>5 DEF SteadyInv

LEMMA SteadyInit ==
  ASSUME SteadyPrices, CaptionInit
  PROVE  SteadyInv
<1>1. Typed
  BY InitTyped
<1>2. \A j \in Jobs : ~Charged(j) /\ ~Refunded(j)
  BY DEF CaptionInit, Init, Charged, Refunded, Posted
<1> QED
  BY <1>1, <1>2 DEF CaptionInit, SteadyInv, Priced, PaidOnce, Fresh, Busy, NoRecord, Typed

-----------------------------------------------------------------------------
(* A job that fails gives its credits back *)

\* How a job comes to fail, and a run to end without a result.
LEMMA EndStep ==
  ASSUME Typed, [CaptionNext]_vars, NEW j \in Jobs, RunOK(j), MaxStalls <= MaxStalledCount
  PROVE  /\ job'[j].state = "failed" =>
              job[j].state = "failed" \/ (phase[j] = "finish" /\ outcome[j] \in {"fatal", "last"})
         /\ phase'[j] = "finish" /\ outcome'[j] \in {"fatal", "last"} =>
              (phase[j] = "finish" /\ outcome[j] = outcome'[j]) \/ RefundJob(j)
         /\ audited \subseteq audited'
<1> USE DEF RunOK
<1>1. ASSUME NEW q \in Uploads, Enqueue(q)
      PROVE  job'[j].state = "failed" => job[j].state = "failed"
  BY <1>1 DEF Enqueue, AddedJobs, NewRecord, Typed, CaptionTypeOK
<1>2. ASSUME NEW i \in Jobs, Take(i) \/ WorkerDies(i) \/ Prune(i)
      PROVE  job'[j].state = "failed" => job[j].state = "failed"
  <2>1. CASE Take(i)
    BY <2>1 DEF Take, Typed, CaptionTypeOK
  <2>2. CASE WorkerDies(i)
    BY <2>2 DEF WorkerDies, Typed, CaptionTypeOK
  <2>3. CASE Prune(i)
    BY <2>3 DEF Prune, NoRecord, Typed, CaptionTypeOK
  <2> QED
    BY <1>2, <2>1, <2>2, <2>3
<1>3. ASSUME NEW i \in Jobs, Stalled(i)
      PROVE  job'[j].state = "failed" => job[j].state = "failed"
  <2>1. MaxStalls \in Nat /\ job[i].stalls \in 0..MaxStalls /\ ~(job[i].stalls > MaxStalledCount)
    BY CaptionsAssumption DEF Typed, CaptionTypeOK, MaxStalledCount
  <2> QED
    BY <1>3, <2>1 DEF Stalled, Typed, CaptionTypeOK
<1>4. ASSUME NEW i \in Jobs, Finish(i)
      PROVE  job'[j].state = "failed" =>
               job[j].state = "failed" \/ (phase[j] = "finish" /\ outcome[j] \in {"fatal", "last"})
  BY <1>4 DEF Finish, Typed, CaptionTypeOK
<1>5. ASSUME UNCHANGED job
      PROVE  job'[j].state = "failed" => job[j].state = "failed"
  BY <1>5
<1>6. job'[j].state = "failed" =>
        job[j].state = "failed" \/ (phase[j] = "finish" /\ outcome[j] \in {"fatal", "last"})
  BY <1>1, <1>2, <1>3, <1>4, <1>5 DEF CaptionNext, Start, Serve, Cut, FindJob, Charge, StoreAudio,
    Discard,
    RefundUpload, Work, Resolve, Transcribe, CleanAudio, RefundJob, Age, SweepCheck, SweepDelete,
    SwitchProvider,
    Account, vars
<1>7. ASSUME phase'[j] = "finish", outcome'[j] \in {"fatal", "last"}
      PROVE  (phase[j] = "finish" /\ outcome[j] = outcome'[j]) \/ RefundJob(j)
  <2>1. ASSUME NEW i \in Jobs, Take(i) \/ Resolve(i) \/ Transcribe(i) \/ CleanAudio(i)
        PROVE  phase[j] = "finish" /\ outcome[j] = outcome'[j]
    BY <1>7, <2>1 DEF Take, Resolve, Transcribe, CleanAudio, Decide, AfterRun, AfterClean, Typed,
      CaptionTypeOK
  <2>2. ASSUME NEW i \in Jobs, RefundJob(i) \/ Finish(i) \/ WorkerDies(i)
        PROVE  (phase[j] = "finish" /\ outcome[j] = outcome'[j]) \/ RefundJob(j)
    BY <1>7, <2>2 DEF RefundJob, Finish, WorkerDies, Leave, Typed, CaptionTypeOK
  <2>3. CASE UNCHANGED workVars
    BY <1>7, <2>3 DEF workVars
  <2> QED
    BY <2>1, <2>2, <2>3 DEF CaptionNext, Start, Serve, Cut, FindJob, Charge, StoreAudio, Enqueue,
      Discard,
      RefundUpload, Work, Stalled, Prune, Age, SweepCheck, SweepDelete, SwitchProvider, Account,
      vars, workVars
<1>8. audited \subseteq audited'
  BY DEF CaptionNext, Start, Serve, Cut, FindJob, Charge, StoreAudio, Enqueue, Discard,
    RefundUpload, UploadRefund,
    GiveBack, Take, Work, Resolve, Transcribe, CleanAudio, RefundJob, Finish, WorkerDies, Stalled,
    Prune, Age,
    SweepCheck, SweepDelete, SwitchProvider, Account, vars
<1> QED
  BY <1>6, <1>7, <1>8

LEMMA EndsNext ==
  ASSUME SteadyPrices, MaxStalls <= MaxStalledCount, IInv, SteadyInv, IInv', SteadyInv',
         [CaptionNext]_vars, NEW j \in Jobs, EndsRefunded(j)
  PROVE  EndsRefunded(j)'
<1>1. Grows /\ Typed /\ Typed' /\ RunOK(j) /\ RunOK(j)'
  BY BookGrows DEF IInv
<1> SUFFICES ASSUME Charged(j)',
                    job'[j].state = "failed" \/ (phase'[j] = "finish" /\ outcome'[j] \in {"fatal", "last"})
             PROVE  Refunded(j)' \/ j \in audited'
  BY DEF EndsRefunded
<1>2. Costs(j)
  BY DEF SteadyInv, Priced, Costs
<1>3. Charged(j)
  <2> SUFFICES ASSUME ~Charged(j) PROVE FALSE
    OBVIOUS
  <2>1. Fresh(j) /\ \A r \in Uploads : upload[r] = j => ~Busy(r)
    BY <1>2 DEF SteadyInv, PaidOnce
  <2>2. job'[j] = job[j] /\ job[j].state = "absent"
    BY <1>1, <2>1, JobStep DEF Fresh, Busy, Enqueue
  <2> QED
    BY <1>1, <2>2 DEF RunOK
<1>4. CASE Refunded(j) \/ j \in audited
  BY <1>1, <1>4, EndStep, TookStays
<1>5. CASE ~(Refunded(j) \/ j \in audited)
  <2>1. RefundJob(j)
    BY <1>1, <1>3, <1>5, EndStep DEF EndsRefunded
  <2>2. job[j].credits > 0 /\ job[j].credits # 0 /\ GiveBack(j, job[j].credits)
    <3>1. job[j].credits \in PricesOf[j] /\ job[j].credits \in Nat
      BY <1>1, <2>1 DEF RefundJob, RunOK, SteadyInv, Priced, Typed, CaptionTypeOK
    <3> QED
      BY <1>2, <2>1, <3>1 DEF RefundJob, Costs
  <2>3. CASE Post(Owner[j], RefundKey(j), job[j].credits, FALSE)
    <3>1. [user |-> Owner[j], key |-> RefundKey(j), amount |-> job[j].credits] \in entries'
      BY <2>3 DEF Post
    <3> QED
      BY <3>1 DEF Refunded, Posted
  <2>4. CASE audited' = audited \union {j}
    BY <2>4
  <2> QED
    BY <1>5, <2>2, <2>3, <2>4, Zenon DEF GiveBack, Refunded
<1> QED
  BY <1>4, <1>5

-----------------------------------------------------------------------------
(* A paid job keeps its audio *)

\* What becomes of a job that is in the queue.
LEMMA QueueStep ==
  ASSUME Typed, [CaptionNext]_vars, NEW j \in Jobs, RunOK(j)
  PROVE  /\ job[j].state \in {"completed", "failed"} => job'[j] = job[j] \/ job'[j] = NoRecord
         /\ job[j].state # "absent" => job'[j] = NoRecord \/ job'[j].stalls >= job[j].stalls
         /\ job'[j].state = "waiting" =>
              \/ job[j].state \in {"absent", "waiting"} \/ outcome[j] = "retry"
              \/ job[j].state = "active" /\ phase[j] = "none"
<1> USE DEF RunOK
<1> DEFINE Goal ==
      /\ job[j].state \in {"completed", "failed"} => job'[j] = job[j] \/ job'[j] = NoRecord
      /\ job[j].state # "absent" => job'[j] = NoRecord \/ job'[j].stalls >= job[j].stalls
      /\ job'[j].state = "waiting" =>
           \/ job[j].state \in {"absent", "waiting"} \/ outcome[j] = "retry"
           \/ job[j].state = "active" /\ phase[j] = "none"
<1>t. job[j].stalls \in 0..MaxStalls /\ MaxStalls \in Nat
  BY CaptionsAssumption DEF Typed, CaptionTypeOK
<1>1. ASSUME NEW q \in Uploads, Enqueue(q) PROVE Goal
  BY <1>1, <1>t DEF Enqueue, AddedJobs, Typed, CaptionTypeOK
<1>2. ASSUME NEW i \in Jobs, Take(i) PROVE Goal
  BY <1>2, <1>t DEF Take, Typed, CaptionTypeOK
<1>3. ASSUME NEW i \in Jobs, Finish(i) PROVE Goal
  BY <1>3, <1>t DEF Finish, Typed, CaptionTypeOK
<1>4. ASSUME NEW i \in Jobs, WorkerDies(i) PROVE Goal
  BY <1>4, <1>t DEF WorkerDies, Typed, CaptionTypeOK
<1>5. ASSUME NEW i \in Jobs, Stalled(i) PROVE Goal
  BY <1>5, <1>t DEF Stalled, Typed, CaptionTypeOK
<1>6. ASSUME NEW i \in Jobs, Prune(i) PROVE Goal
  BY <1>6, <1>t DEF Prune, NoRecord, Typed, CaptionTypeOK
<1>7. ASSUME UNCHANGED job PROVE Goal
  BY <1>7, <1>t
<1> HIDE DEF Goal
<1>8. Goal
  BY <1>1, <1>2, <1>3, <1>4, <1>5, <1>6, <1>7 DEF CaptionNext, Start, Serve, Cut, FindJob, Charge,
    StoreAudio,
    Discard, RefundUpload, Work, Resolve, Transcribe, CleanAudio, RefundJob, Age, SweepCheck,
    SweepDelete,
    SwitchProvider, Account, vars
<1> QED
  BY <1>8 DEF Goal

\* Where a run that will read the audio, or will be retried, comes from.
LEMMA RunStep ==
  ASSUME Typed, [CaptionNext]_vars, NEW j \in Jobs,
         phase'[j] \in {"resolve", "transcribe"} \/ outcome'[j] = "retry"
  PROVE  job[j].state = "waiting" \/ phase[j] \in {"resolve", "transcribe"} \/ outcome[j] = "retry"
<1>1. ASSUME NEW i \in Jobs, Take(i)
      PROVE  job[j].state = "waiting" \/ phase[j] \in {"resolve", "transcribe"} \/ outcome[j] = "retry"
  BY <1>1 DEF Take, Typed, CaptionTypeOK
<1>2. ASSUME NEW i \in Jobs, Resolve(i) \/ Transcribe(i)
      PROVE  phase[j] \in {"resolve", "transcribe"} \/ outcome[j] = "retry"
  BY <1>2 DEF Resolve, Transcribe, Decide, Typed, CaptionTypeOK
<1>3. ASSUME NEW i \in Jobs, CleanAudio(i) \/ RefundJob(i) \/ Finish(i) \/ WorkerDies(i)
      PROVE  phase[j] \in {"resolve", "transcribe"} \/ outcome[j] = "retry"
  BY <1>3 DEF CleanAudio, AfterClean, RefundJob, Finish, WorkerDies, Leave, Typed, CaptionTypeOK
<1>4. ASSUME UNCHANGED workVars
      PROVE  phase[j] \in {"resolve", "transcribe"} \/ outcome[j] = "retry"
  BY <1>4 DEF workVars
<1> QED
  BY <1>1, <1>2, <1>3, <1>4 DEF CaptionNext, Start, Serve, Cut, FindJob, Charge, StoreAudio,
    Enqueue, Discard,
    RefundUpload, Work, Stalled, Prune, Age, SweepCheck, SweepDelete, SwitchProvider, Account, vars

\* While a paid job is in the queue, no upload works on its id.
LEMMA LoneNext ==
  ASSUME "lostReply" \notin Faults, IInv, SteadyInv, IInv', SteadyInv', [CaptionNext]_vars,
         NEW j \in Jobs, Lone(j)
  PROVE  Lone(j)'
<1>1. Typed /\ RunOK(j) /\ Priced
  BY DEF IInv, SteadyInv
<1> SUFFICES ASSUME Costs(j) PROVE Lone(j)'
  BY DEF Lone, Costs
<1>2. ASSUME NEW r \in Uploads, upload[r] = j, Busy(r)
      PROVE  job[j].state = "absent" /\ j \notin served
  BY <1>2 DEF Lone
<1>3. ASSUME NEW r \in Uploads, upload'[r] = j, Busy(r)', job'[j].state # "absent" \/ j \in served'
      PROVE  FALSE
  <2>1. upload[r] = j /\ (Busy(r) \/ Charge(r))
    BY <1>1, <1>3, BusyBefore
  <2>2. ~Charge(r)
    <3> SUFFICES ASSUME Charge(r) PROVE FALSE
      OBVIOUS
    <3>1. pc'[r] = "store"
      BY <1>1, <1>3, <2>1, ChargeLetsThrough
    <3> QED
      BY <1>3, <3>1 DEF SteadyInv, PaidOnce, Costs, Fresh
  <2>3. job[j].state = "absent" /\ j \notin served' /\ job'[j] # job[j]
    BY <1>1, <1>2, <1>3, <2>1, <2>2, JobStep DEF RunOK
  <2>4. PICK q \in Uploads : upload[q] = j /\ Enqueue(q) /\ job'[j] = NewRecord(q)
    BY <1>1, <2>3, JobStep
  <2>5. Charged(j)
    BY <1>3, <2>1, <2>2 DEF SteadyInv, PaidOnce
  <2>6. q = r
    BY <2>1, <2>2, <2>4, <2>5 DEF SteadyInv, PaidOnce, Busy, Enqueue
  <2> QED
    BY <1>1, <1>3, <2>3, <2>4, <2>6 DEF Enqueue, Goto, Busy, Typed, CaptionTypeOK
<1>4. ASSUME NEW q \in Uploads, upload[q] = j, Enqueue(q) PROVE Fresh(j)
  BY <1>4 DEF Enqueue, SteadyInv, PaidOnce
<1>5. ASSUME j \in served' PROVE job'[j].state \in {"absent", "completed"}
  <2>1. CASE j \in served
    <3>1. job[j].state \in {"absent", "completed"}
      BY <2>1 DEF Lone
    <3>2. CASE job[j].state = "absent"
      BY <1>1, <1>4, <2>1, <3>2, JobStep DEF Fresh
    <3>3. CASE job[j].state = "completed"
      BY <1>1, <3>3, QueueStep DEF NoRecord
    <3> QED
      BY <3>1, <3>2, <3>3
  <2> QED
    BY <1>1, <1>5, <2>1, JobStep
<1>6. ASSUME job'[j].state \in {"waiting", "active"} PROVE j \notin doomed'
  <2>1. CASE job[j].state = "absent"
    <3>1. PICK q \in Uploads : upload[q] = j /\ Enqueue(q)
      BY <1>1, <1>6, <2>1, JobStep
    <3> QED
      BY <1>4, <3>1 DEF Fresh, Enqueue
  <2>2. CASE job[j].state \in {"completed", "failed"}
    BY <1>1, <1>6, <2>2, QueueStep DEF NoRecord
  <2>3. CASE job[j].state \in {"waiting", "active"}
    BY <1>1, <2>3, JobStep DEF Lone, NotNeeded
  <2> QED
    BY <1>1, <2>1, <2>2, <2>3 DEF Typed, CaptionTypeOK
<1> QED
  BY <1>3, <1>5, <1>6 DEF Lone

\* A job that has taken credits is one of a paid id.
LEMMA TakesCredits ==
  ASSUME SteadyPrices, IInv, SteadyInv, NEW j \in Jobs, job[j].credits > 0
  PROVE  Costs(j) /\ Charged(j) /\ job[j].state # "absent"
<1>1. job[j].state # "absent" /\ JobBacked(j) /\ job[j].credits # 0
  BY DEF IInv, RunOK
<1> QED
  BY <1>1 DEF SteadyInv, Priced, SteadyPrices, Costs, JobBacked, Took, Charged, Posted

LEMMA KeptNext ==
  ASSUME SteadyPrices, IInv, SteadyInv, IInv', SteadyInv', [CaptionNext]_vars,
         NEW j \in Jobs, Lone(j), Kept(j)
  PROVE  Kept(j)'
<1>1. Typed /\ RunOK(j) /\ RunOK(j)' /\ Typed'
  BY DEF IInv
<1> SUFFICES ASSUME job'[j].credits > 0, job'[j].stalls = 0,
                    job'[j].state = "waiting" \/ phase'[j] \in {"resolve", "transcribe"} \/ outcome'[j] = "retry"
             PROVE  file'[j] # "none"
  BY DEF Kept
<1>2. Costs(j) /\ job'[j].state # "absent"
  BY <1>1 DEF SteadyInv, Priced, SteadyPrices, Costs, RunOK
<1>3. CASE job[j].state = "absent"
  <2>1. PICK q \in Uploads : upload[q] = j /\ Enqueue(q)
    BY <1>1, <1>2, <1>3, JobStep
  <2>2. pc[q] = "enqueue" /\ UNCHANGED file
    BY <2>1 DEF Enqueue
  <2> QED
    BY <1>2, <2>1, <2>2 DEF SteadyInv, PaidOnce
<1>4. CASE job[j].state # "absent"
  <2>1. \A r \in Uploads : upload[r] = j => ~Busy(r)
    BY <1>2, <1>4 DEF Lone
  <2>2. job[j].credits > 0
    BY <1>1, <1>2, <2>1, CreditsBefore DEF IInv, Busy
  <2>3. job[j].stalls = 0
    <3>1. job[j].stalls \in 0..MaxStalls /\ MaxStalls \in Nat
      BY <1>1, CaptionsAssumption DEF Typed, CaptionTypeOK
    <3>2. job'[j].stalls >= job[j].stalls
      BY <1>1, <1>2, <1>4, QueueStep DEF NoRecord
    <3> QED
      BY <3>1, <3>2
  <2>4. job[j].state = "waiting" \/ phase[j] \in {"resolve", "transcribe"} \/ outcome[j] = "retry"
    BY <1>1, <1>4, <2>3, QueueStep, RunStep DEF RunOK
  <2>5. file[j] # "none" /\ phase[j] # "clean" /\ j \notin doomed
    BY <1>1, <1>2, <2>2, <2>3, <2>4 DEF Kept, Lone, RunOK
  <2> QED
    BY <1>1, <2>1, <2>5, FileStep DEF Busy, Discard
<1> QED
  BY <1>3, <1>4

-----------------------------------------------------------------------------
(* Credits given back are for a job without audio *)

\* Nothing is served and no file appears for an id that has none.
LEMMA GoneStep ==
  ASSUME Typed, [CaptionNext]_vars, NEW j \in Jobs, file[j] = "none", outcome[j] # "done",
         \A r \in Uploads : upload[r] = j => ~StoreAudio(r)
  PROVE  file'[j] = "none" /\ outcome'[j] # "done"
<1>1. file'[j] = "none"
  BY FileStep
<1>2. ASSUME NEW i \in Jobs, Resolve(i) \/ Transcribe(i) PROVE outcome'[j] # "done"
  BY <1>2 DEF Resolve, Transcribe, Decide, Typed, CaptionTypeOK
<1>3. ASSUME NEW i \in Jobs, Finish(i) \/ WorkerDies(i) PROVE outcome'[j] # "done"
  BY <1>3 DEF Finish, WorkerDies, Leave, Typed, CaptionTypeOK
<1>4. ASSUME UNCHANGED outcome PROVE outcome'[j] # "done"
  BY <1>4
<1> QED
  BY <1>1, <1>2, <1>3, <1>4 DEF CaptionNext, Start, Serve, Cut, FindJob, Charge, StoreAudio,
    Enqueue, Discard,
    RefundUpload, Take, Work, CleanAudio, RefundJob, Stalled, Prune, Age, SweepCheck, SweepDelete,
    SwitchProvider, Account, vars, workVars

\* The worker refunds a job only when its audio is gone.
LEMMA RefundStep ==
  ASSUME Typed, [CaptionNext]_vars, NEW j \in Jobs, "rm" \notin Faults, phase'[j] = "refund"
  PROVE  file'[j] = "none" \/ phase[j] = "refund"
<1>1. ASSUME NEW i \in Jobs, CleanAudio(i) PROVE file'[j] = "none" \/ phase[j] = "refund"
  BY <1>1 DEF CleanAudio, TryRemove, RemovedFile, Typed, CaptionTypeOK
<1>2. ASSUME NEW i \in Jobs, Take(i) \/ Resolve(i) \/ Transcribe(i) PROVE phase[j] = "refund"
  BY <1>2 DEF Take, Resolve, Transcribe, Decide, AfterRun, Typed, CaptionTypeOK
<1>3. ASSUME NEW i \in Jobs, RefundJob(i) \/ Finish(i) \/ WorkerDies(i) PROVE phase[j] = "refund"
  BY <1>3 DEF RefundJob, Finish, WorkerDies, Leave, Typed, CaptionTypeOK
<1>4. ASSUME UNCHANGED phase PROVE phase[j] = "refund"
  BY <1>4
<1> QED
  BY <1>1, <1>2, <1>3, <1>4 DEF CaptionNext, Start, Serve, Cut, FindJob, Charge, StoreAudio,
    Enqueue, Discard,
    RefundUpload, Work, Stalled, Prune, Age, SweepCheck, SweepDelete, SwitchProvider, Account,
    vars, workVars

LEMMA GoneNext ==
  ASSUME SteadyPrices, "lostReply" \notin Faults, "rm" \notin Faults,
         IInv, SteadyInv, IInv', SteadyInv', [CaptionNext]_vars, NEW j \in Jobs, Lone(j), GoneFirst(j)
  PROVE  GoneFirst(j)'
<1>1. Grows /\ Typed /\ RunOK(j) /\ RunOK(j)' /\ Priced
  BY BookGrows DEF IInv, SteadyInv
<1>2. ASSUME Costs(j), Refunded(j)' PROVE Refunded(j) \/ phase[j] = "refund"
                                        \/ \E r \in Uploads : upload[r] = j /\ pc[r] = "refund"
  BY <1>1, <1>2 DEF Grows, Refunded, Posted
<1>3. ASSUME Costs(j), NEW r \in Uploads, upload[r] = j, pc[r] = "refund"
      PROVE  /\ file[j] = "none" /\ \A q \in Uploads : upload[q] = j => ~StoreAudio(q)
             /\ phase[j] = "none" /\ outcome[j] = "none" /\ j \notin served
  <2>1. file[j] = "none" /\ job[j].state = "absent" /\ j \notin served /\ Busy(r)
    BY <1>3 DEF GoneFirst, Lone, Busy
  <2>2. Charged(j)
    BY <1>3, <2>1 DEF SteadyInv, PaidOnce
  <2>3. \A q \in Uploads : upload[q] = j => ~StoreAudio(q)
    BY <1>3, <2>1, <2>2 DEF SteadyInv, PaidOnce, Busy, StoreAudio
  <2> QED
    BY <1>1, <2>1, <2>3 DEF RunOK
<1>4. ASSUME Costs(j), Refunded(j) \/ phase[j] = "refund"
      PROVE  /\ file[j] = "none" /\ outcome[j] # "done"
             /\ \A q \in Uploads : upload[q] = j => ~StoreAudio(q)
  <2>1. \A q \in Uploads : upload[q] = j /\ StoreAudio(q) => Fresh(j)
    BY <1>4 DEF SteadyInv, PaidOnce, StoreAudio
  <2> QED
    BY <1>1, <1>4, <2>1 DEF GoneFirst, Fresh, RunOK
<1>5. ASSUME Costs(j), Refunded(j)' \/ phase'[j] = "refund"
      PROVE  file'[j] = "none" /\ outcome'[j] # "done"
  <2>1. CASE Refunded(j) \/ phase[j] = "refund" \/ \E r \in Uploads : upload[r] = j /\ pc[r] = "refund"
    BY <1>1, <1>3, <1>4, <1>5, <2>1, GoneStep
  <2>2. CASE phase'[j] = "refund" /\ file'[j] = "none"
    BY <1>1, <2>2 DEF RunOK
  <2> QED
    BY <1>1, <1>2, <1>5, <2>1, <2>2, RefundStep
<1>6. ASSUME Costs(j), NEW r \in Uploads, upload'[r] = j, pc'[r] = "refund"
      PROVE  file'[j] = "none"
  <2>1. upload[r] = j /\ (pc[r] = "refund" \/ Discard(r))
    BY <1>1, <1>6, PcStep
  <2>2. CASE pc[r] = "refund"
    BY <1>1, <1>3, <1>6, <2>1, <2>2, FileStep
  <2>3. CASE Discard(r)
    BY <1>1, <2>1, <2>3 DEF Discard, TryRemove, RemovedFile, Typed, CaptionTypeOK
  <2> QED
    BY <2>1, <2>2, <2>3
<1>7. ASSUME j \in served' PROVE Charged(j)' /\ ~Refunded(j)'
  <2>1. Costs(j) /\ Charged(j) /\ ~Refunded(j) /\ phase[j] # "refund"
    <3>1. CASE j \in served
      BY <1>1, <3>1 DEF GoneFirst, Priced, RunOK, Lone
    <3>2. CASE j \notin served
      <4>1. phase[j] = "finish" /\ outcome[j] = "done" /\ job[j].credits > 0
        BY <1>1, <1>7, <3>2, JobStep
      <4> QED
        BY <4>1, TakesCredits DEF GoneFirst
    <3> QED
      BY <3>1, <3>2
  <2>2. ~ \E r \in Uploads : upload[r] = j /\ pc[r] = "refund"
    <3>1. CASE j \in served
      BY <1>3, <2>1, <3>1
    <3>2. CASE j \notin served
      <4>1. phase[j] = "finish"
        BY <1>1, <1>7, <3>2, JobStep
      <4> QED
        BY <1>3, <2>1, <4>1
    <3> QED
      BY <3>1, <3>2
  <2> QED
    BY <1>1, <1>2, <2>1, <2>2, TookStays
<1> QED
  BY <1>5, <1>6, <1>7 DEF GoneFirst, Costs

-----------------------------------------------------------------------------
(* The theorems *)

\* Every reachable state of CaptionSpec is typed, runs agree with the queue's
\* records, and whatever an upload or the worker may refund was taken.
THEOREM InvariantHolds == CaptionSpec => []IInv
<1>1. CaptionInit => IInv
  BY InitOK
<1>2. IInv /\ [CaptionNext]_vars => IInv'
  BY NextKeeps
<1> QED
  BY <1>1, <1>2, PTL DEF CaptionSpec

\* Every variable of the caption path always holds a value the code can store.
THEOREM TypeCorrect == CaptionSpec => []CaptionTypeOK
<1>1. IInv => CaptionTypeOK
  BY DEF IInv, Typed
<1> QED
  BY <1>1, InvariantHolds, PTL

\* CaptionRefunds.refund never gives back more than charge() took, nor to
\* another user: for all prices, uploads and faults, a free resend, a changed
\* rule, a lost reply and a dying worker included.
THEOREM RefundsBacked == CaptionSpec => []RefundsAreBacked
<1>1. IInv => RefundsAreBacked
  BY DEF IInv
<1> QED
  BY <1>1, InvariantHolds, PTL

\* Under one id only the upload that charges it first ever stores audio: a
\* replayed charge is answered IDEMPOTENCY_KEY_REUSED.
THEOREM SteadyHolds ==
  ASSUME SteadyPrices
  PROVE  CaptionSpec => []SteadyInv
<1>1. CaptionInit => SteadyInv
  BY SteadyInit
<1>2. IInv /\ SteadyInv /\ [CaptionNext]_vars => SteadyInv'
  BY SteadyNext
<1> QED
  BY <1>1, <1>2, InvariantHolds, PTL DEF CaptionSpec

\* "A failed job is refunded automatically", unless its refund was audited: for
\* any uploads and faults, while no job's worker dies more than once.
THEOREM FailedGivesBack ==
  ASSUME SteadyPrices, MaxStalls <= MaxStalledCount
  PROVE  CaptionSpec => []FailedIsRefunded
<1> DEFINE EndsInv == \A j \in Jobs : EndsRefunded(j)
<1>1. CaptionInit => EndsInv
  BY DEF CaptionInit, Init, EndsRefunded, Charged, Posted
<1>2. IInv /\ IInv' /\ SteadyInv /\ SteadyInv' /\ EndsInv /\ [CaptionNext]_vars => EndsInv'
  BY EndsNext
<1>3. EndsInv => FailedIsRefunded
  BY DEF EndsRefunded, FailedIsRefunded
<1> HIDE DEF EndsInv
<1> QED
  BY <1>1, <1>2, <1>3, InvariantHolds, SteadyHolds, PTL DEF CaptionSpec

\* Where queue.add throws only if it queued nothing, no upload works on a paid
\* job that is in the queue, and the job has its audio.
THEOREM LoneHolds ==
  ASSUME SteadyPrices, "lostReply" \notin Faults
  PROVE  CaptionSpec => []LoneInv
<1>1. CaptionInit => LoneInv
  <2> SUFFICES ASSUME CaptionInit, NEW j \in Jobs PROVE Lone(j) /\ Kept(j)
    BY DEF LoneInv
  <2>1. job[j] = NoRecord /\ j \notin served
    BY DEF CaptionInit
  <2> QED
    BY <2>1 DEF Lone, Kept, NoRecord
<1>2. IInv /\ IInv' /\ SteadyInv /\ SteadyInv' /\ LoneInv /\ [CaptionNext]_vars => LoneInv'
  BY LoneNext, KeptNext DEF LoneInv
<1> QED
  BY <1>1, <1>2, InvariantHolds, SteadyHolds, PTL DEF CaptionSpec

\* The sweeper, another upload and the clean-up of an earlier attempt never
\* remove the audio of a paid job that can still run and whose worker never died.
THEOREM AudioIsThere ==
  ASSUME SteadyPrices, "lostReply" \notin Faults
  PROVE  CaptionSpec => []PaidJobHasAudio
<1>1. LoneInv => PaidJobHasAudio
  BY DEF LoneInv, Kept, PaidJobHasAudio
<1> QED
  BY <1>1, LoneHolds, PTL

\* A paid job that delivered a result keeps its charge, for any number of
\* uploads, retries and deaths of the worker, as long as the removal of audio and
\* the replies of queue.add can be relied on.
THEOREM ResultsArePaid ==
  ASSUME SteadyPrices, "lostReply" \notin Faults, "rm" \notin Faults
  PROVE  CaptionSpec => []NoFreeResult
<1>1. CaptionInit => GoneInv
  BY DEF CaptionInit, Init, GoneInv, GoneFirst, Refunded, Posted
<1>2. IInv /\ IInv' /\ SteadyInv /\ SteadyInv' /\ LoneInv /\ GoneInv /\ [CaptionNext]_vars => GoneInv'
  BY GoneNext DEF LoneInv, GoneInv
<1>3. IInv /\ GoneInv => NoFreeResult
  BY DEF IInv, Typed, CaptionTypeOK, GoneInv, GoneFirst, NoFreeResult
<1> QED
  BY <1>1, <1>2, <1>3, InvariantHolds, SteadyHolds, LoneHolds, PTL DEF CaptionSpec

-----------------------------------------------------------------------------
(* The refinement of Escrow *)

\* A job is charged by at most one entry.
OneCharge ==
  \A j \in Jobs : \A c, d \in entries : c.key = ChargeKey(j) /\ d.key = ChargeKey(j) => c = d

\* A charge is written only by Charge, which looks for an earlier one.
LEMMA OneChargeNext ==
  ASSUME Typed, OneCharge, [CaptionNext]_vars
  PROVE  OneCharge'
<1> SUFFICES ASSUME NEW j \in Jobs, NEW c \in entries', NEW d \in entries',
                    c.key = ChargeKey(j), d.key = ChargeKey(j)
             PROVE  c = d
  BY DEF OneCharge
<1>1. Grows
  BY BookGrows
<1>2. CASE c \in entries /\ d \in entries
  BY <1>2 DEF OneCharge
<1>3. CASE c \notin entries \/ d \notin entries
  <2>1. PICK e \in {c, d} : ~Charged(j) /\ entries' = entries \union {e}
    BY <1>1, <1>3 DEF Grows
  <2>2. c \notin entries /\ d \notin entries
    BY <2>1 DEF Charged, Posted
  <2> QED
    BY <2>1, <2>2
<1> QED
  BY <1>2, <1>3

\* The credits held for a job are those of any charge of it.
LEMMA TakenIsTook ==
  ASSUME OneCharge, NEW j \in Jobs, NEW n \in Nat, Took(j, n)
  PROVE  TakenFor(j) = n
<1>1. PICK c \in entries : c.key = ChargeKey(j) /\ c.amount = -n
  BY DEF Took
<1>2. (CHOOSE e \in entries : e.key = ChargeKey(j)) = c
  BY <1>1 DEF OneCharge
<1>3. TakenFor(j) = -c.amount
  <2>1. Charged(j)
    BY <1>1 DEF Charged, Posted
  <2> QED
    BY Zenon, <1>2, <2>1 DEF TakenFor
<1> QED
  BY <1>1, <1>3

\* Nothing is held for a job before its charge.
LEMMA FreshHoldsNothing ==
  ASSUME NEW j \in Jobs, ~Charged(j)
  PROVE  TakenFor(j) = 0
  BY DEF TakenFor

\* What is held for a job changes only when it is charged.
LEMMA HeldStays ==
  ASSUME OneCharge, OneCharge', entries \subseteq entries', NEW j \in Jobs,
         \A e \in entries' \ entries : e.key # ChargeKey(j)
  PROVE  TakenFor(j)' = TakenFor(j)
<1>1. CASE Charged(j)
  <2>1. PICK c \in entries : c.key = ChargeKey(j)
    BY <1>1 DEF Charged, Posted
  <2>2. /\ (CHOOSE e \in entries : e.key = ChargeKey(j)) = c
        /\ (CHOOSE e \in entries' : e.key = ChargeKey(j)) = c
    BY <2>1 DEF OneCharge
  <2>3. Charged(j)'
    BY <2>1 DEF Charged, Posted
  <2>4. TakenFor(j) = -c.amount
    BY Zenon, <1>1, <2>2 DEF TakenFor
  <2>5. TakenFor(j)' = -c.amount
    BY Zenon, <2>2, <2>3 DEF TakenFor
  <2> QED
    BY <2>4, <2>5
<1>2. CASE ~Charged(j)
  <2>1. ~Charged(j)'
    BY <1>2 DEF Charged, Posted
  <2> QED
    BY Zenon, <1>2, <2>1 DEF TakenFor
<1> QED
  BY <1>1, <1>2

Held == [j \in Jobs |-> TakenFor(j)]
Returned == {j \in Jobs : Refunded(j)}

\* The charge of an upload takes credits that nothing had taken.
LEMMA ChargeTakes ==
  ASSUME IInv, OneCharge, OneCharge', NEW r \in Uploads, Charge(r), entries' # entries
  PROVE  Deal!Next
<1> SUFFICES ASSUME NEW i, i = upload[r], NEW n, n = price[r] PROVE Deal!Next
  OBVIOUS
<1>1. i \in Jobs /\ n \in Nat /\ Owner[i] \in Users
  BY CaptionsAssumption DEF IInv, Typed
<1>2. /\ n # 0 /\ Post(Owner[i], ChargeKey(i), -n, TRUE)
      /\ ~Charged(i) /\ UNCHANGED served
  BY DEF Charge, bookVars, Charged
<1>3. /\ balance \in [Users -> Nat] /\ balance[Owner[i]] >= n /\ n > 0
      /\ balance' = [balance EXCEPT ![Owner[i]] = @ - n]
      /\ entries' = entries \union {[user |-> Owner[i], key |-> ChargeKey(i), amount |-> -n]}
  <2>1. balance \in [Users -> Nat] /\ balance[Owner[i]] \in Nat
    BY <1>1 DEF IInv, Typed, CaptionTypeOK
  <2>2. n > 0 /\ -n < 0 /\ -(-n) = n
    BY <1>1, <1>2
  <2>3. balance[Owner[i]] >= n
    BY <1>2, <2>2 DEF Post, Accepts
  <2>4. balance[Owner[i]] + (-n) = balance[Owner[i]] - n
    BY <1>1, <2>1
  <2> QED
    BY <1>2, <2>1, <2>2, <2>3, <2>4 DEF Post
<1>4. TakenFor(i) = 0
  BY <1>1, <1>2, FreshHoldsNothing
<1>5. TakenFor(i)' = n
  <2> DEFINE c == [user |-> Owner[i], key |-> ChargeKey(i), amount |-> -n]
  <2>1. c \in entries' /\ c.key = ChargeKey(i)
    BY <1>3
  <2>2. (CHOOSE e \in entries' : e.key = ChargeKey(i)) = c
    BY <1>1, <2>1 DEF OneCharge
  <2>3. Charged(i)'
    BY <2>1 DEF Charged, Posted
  <2>4. TakenFor(i)' = -c.amount
    BY Zenon, <2>2, <2>3 DEF TakenFor
  <2> QED
    BY <1>1, <2>4
<1>6. ASSUME NEW j \in Jobs, j # i PROVE TakenFor(j)' = TakenFor(j)
  BY <1>3, <1>6, HeldStays DEF ChargeKey
<1>7. Returned' = Returned
  BY <1>3 DEF Returned, Refunded, Posted, ChargeKey, RefundKey
<1>8. Held' = [Held EXCEPT ![i] = n]
  BY <1>1, <1>5, <1>6 DEF Held
<1>9. n \in 1..balance[Owner[i]]
  BY <1>1, <1>3
<1>10. Deal!Take(i)
  BY <1>1, <1>2, <1>3, <1>4, <1>7, <1>8, <1>9 DEF Deal!Take, Held, Returned
<1> QED
  BY <1>1, <1>10 DEF Deal!Next

\* A refund gives back what is held for the job, and for nobody else's.
LEMMA GiveBackReturns ==
  ASSUME IInv, OneCharge, OneCharge', NoFreeResult', NEW i \in Jobs, NEW n \in Nat,
         n = 0 \/ Took(i, n), GiveBack(i, n), entries' # entries, UNCHANGED served
  PROVE  Deal!Next
<1>1. n > 0 /\ Post(Owner[i], RefundKey(i), n, FALSE) /\ Owner[i] \in Users
  BY CaptionsAssumption DEF GiveBack, bookVars
<1>2. /\ balance \in [Users -> Nat] /\ balance' = [balance EXCEPT ![Owner[i]] = @ + n]
      /\ entries' = entries \union {[user |-> Owner[i], key |-> RefundKey(i), amount |-> n]}
      /\ ~Refunded(i)
  BY <1>1 DEF Post, Refunded, IInv, Typed, CaptionTypeOK
<1>3. TakenFor(i) = n
  BY <1>1, TakenIsTook
<1>4. \A j \in Jobs : TakenFor(j)' = TakenFor(j)
  BY <1>2, HeldStays DEF ChargeKey, RefundKey
<1>5. Refunded(i)' /\ i \notin served
  <2>1. Refunded(i)'
    BY <1>2 DEF Refunded, Posted
  <2> QED
    BY <2>1 DEF NoFreeResult
<1>6. Returned' = Returned \union {i}
  BY <1>2 DEF Returned, Refunded, Posted, RefundKey
<1>7. Held' = Held
  BY <1>4 DEF Held
<1>8. Deal!Return(i)
  BY <1>1, <1>2, <1>3, <1>5, <1>6, <1>7 DEF Deal!Return, Deal!Unsettled, Held, Returned
<1> QED
  BY <1>8 DEF Deal!Next

\* A run that completes a paid job delivers on a charge nobody has given back.
LEMMA FinishDelivers ==
  ASSUME IInv, OneCharge, NoFreeResult', NEW j \in Jobs, Finish(j), served' # served
  PROVE  Deal!Next
<1>1. /\ served' = served \union {j} /\ j \notin served /\ job[j].credits > 0
      /\ UNCHANGED <<balance, entries>>
  BY DEF Finish, bookVars
<1>2. job[j].credits \in Nat /\ Took(j, job[j].credits)
  BY <1>1 DEF IInv, JobBacked, Typed, CaptionTypeOK
<1>3. TakenFor(j) > 0
  BY <1>1, <1>2, TakenIsTook
<1>4. ~Refunded(j)
  BY <1>1 DEF NoFreeResult, Refunded, Posted
<1>5. Held' = Held /\ Returned' = Returned
  BY <1>1 DEF Held, Returned, TakenFor, Charged, Refunded, Posted
<1>6. Deal!Deliver(j)
  BY <1>1, <1>3, <1>4, <1>5 DEF Deal!Deliver, Deal!Unsettled, Held, Returned
<1> QED
  BY <1>6 DEF Deal!Next

\* A grant, a suspension and a deletion are the rest of the server's.
LEMMA AccountIsElsewhere ==
  ASSUME IInv, OneCharge, OneCharge', NEW u \in Users, Account(u)
  PROVE  [Deal!Next]_Deal!escrowVars
<1> USE DEF IInv, Typed, CaptionTypeOK
<1>1. \A j : GrantKey(u) \notin {ChargeKey(j), RefundKey(j)} /\ DeletedKey(u) \notin {ChargeKey(j), RefundKey(j)}
  BY DEF GrantKey, DeletedKey, ChargeKey, RefundKey
<1>2. /\ entries \subseteq entries' /\ UNCHANGED served
      /\ \A e \in entries' \ entries : e.key \in {GrantKey(u), DeletedKey(u)}
      /\ \A v \in Users \ {u} : balance'[v] = balance[v]
      /\ balance'[u] >= balance[u] \/ balance'[u] = 0
      /\ balance' \in [Users -> Int]
  <2>1. CASE GrantCredits(u)
    BY <2>1, CaptionsAssumption DEF GrantCredits, Post, Account
  <2>2. CASE DeleteAccount(u)
    BY <2>2 DEF DeleteAccount, Account
  <2>3. CASE Suspend(u) \/ Unsuspend(u)
    BY <2>3 DEF Suspend, Unsuspend, Move, Account
  <2> QED
    BY <2>1, <2>2, <2>3 DEF Account
<1>3. \A j \in Jobs : TakenFor(j)' = TakenFor(j)
  BY <1>1, <1>2, HeldStays
<1>4. Held' = Held /\ Returned' = Returned
  BY <1>1, <1>2, <1>3 DEF Held, Returned, Refunded, Posted
<1>5. Deal!Elsewhere(u)
  BY <1>2, <1>4 DEF Deal!Elsewhere, Held, Returned
<1> QED
  BY <1>5 DEF Deal!Next

\* A post writes an entry that was not there.
LEMMA PostsAdd ==
  ASSUME NEW u, NEW k, NEW a, NEW active, Post(u, k, a, active)
  PROVE  entries' # entries
<1> DEFINE e == [user |-> u, key |-> k, amount |-> a]
<1>1. e \in entries' /\ e.key = k
  BY DEF Post
<1>2. \A x \in entries : x.key # k
  BY DEF Post, Posted
<1> QED
  BY <1>1, <1>2

\* Every step of the caption path is one step of the escrow, or none.
LEMMA EscrowNext ==
  ASSUME IInv, OneCharge, OneCharge', NoFreeResult', [CaptionNext]_vars
  PROVE  [Deal!Next]_Deal!escrowVars
<1>1. CASE UNCHANGED <<balance, entries, served>>
  <2>1. Held' = Held /\ Returned' = Returned
    BY <1>1 DEF Held, Returned, TakenFor, Charged, Refunded, Posted
  <2> QED
    BY <1>1, <2>1 DEF Deal!escrowVars, Held, Returned
<1>2. ASSUME NEW r \in Uploads, Charge(r) PROVE [Deal!Next]_Deal!escrowVars
  <2>1. CASE entries' # entries
    BY <1>2, <2>1, ChargeTakes
  <2>2. CASE entries' = entries
    BY <1>1, <1>2, <2>2, PostsAdd DEF Charge, bookVars
  <2> QED
    BY <2>1, <2>2
<1>3. ASSUME NEW i \in Jobs, NEW n \in Nat, n = 0 \/ Took(i, n), GiveBack(i, n), UNCHANGED served
      PROVE  [Deal!Next]_Deal!escrowVars
  <2>1. CASE entries' # entries
    BY <1>3, <2>1, GiveBackReturns
  <2>2. CASE entries' = entries
    BY <1>1, <1>3, <2>2, PostsAdd DEF GiveBack, bookVars
  <2> QED
    BY <2>1, <2>2
<1>4. ASSUME NEW r \in Uploads, RefundUpload(r) PROVE [Deal!Next]_Deal!escrowVars
  BY <1>3, <1>4 DEF RefundUpload, UploadRefund, IInv, Typed, UploadBacked, Busy
<1>5. ASSUME NEW j \in Jobs, RefundJob(j) PROVE [Deal!Next]_Deal!escrowVars
  BY <1>3, <1>5 DEF RefundJob, IInv, Typed, CaptionTypeOK, JobBacked
<1>6. ASSUME NEW j \in Jobs, Finish(j) PROVE [Deal!Next]_Deal!escrowVars
  BY <1>1, <1>6, FinishDelivers DEF Finish, bookVars
<1>7. ASSUME NEW u \in Users, Account(u) PROVE [Deal!Next]_Deal!escrowVars
  BY <1>7, AccountIsElsewhere
<1> QED
  BY <1>1, <1>2, <1>4, <1>5, <1>6, <1>7 DEF CaptionNext, Start, Serve, FindJob, StoreAudio, Enqueue,
    Discard, Cut,
    Take, Work, Resolve, Transcribe, CleanAudio, WorkerDies, Stalled, Prune, Age,
    SweepCheck, SweepDelete,
    SwitchProvider, vars, bookVars

\* Charges, results and refunds are an escrow, for any uploads, retries and deaths of
\* the worker, under the conditions of ResultsArePaid.
THEOREM ImplementsEscrow ==
  ASSUME SteadyPrices, "lostReply" \notin Faults, "rm" \notin Faults
  PROVE  CaptionSpec => EscrowSpec
<1>1. CaptionInit => Deal!Init /\ OneCharge
  BY DEF CaptionInit, Init, Deal!Init, OneCharge, TakenFor, Charged, Refunded, Posted
<1>2. IInv /\ OneCharge /\ [CaptionNext]_vars => OneCharge'
  BY OneChargeNext DEF IInv
<1>3. IInv /\ OneCharge /\ OneCharge' /\ NoFreeResult' /\ [CaptionNext]_vars
        => [Deal!Next]_Deal!escrowVars
  BY EscrowNext
<1> QED
  BY <1>1, <1>2, <1>3, InvariantHolds, ResultsArePaid, PTL DEF CaptionSpec, EscrowSpec, Deal!Spec
=============================================================================
