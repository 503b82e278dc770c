----------------------------- MODULE CaptionJobs -----------------------------
(***************************************************************************)
(* Paid captions (src/src/modules/captions): an upload charges credits,    *)
(* stores its audio in a temp file and queues a job under an id derived    *)
(* from the user and the Idempotency-Key; the worker transcribes it and    *)
(* refunds it when it fails for good; the sweeper removes what a crash     *)
(* left behind.  The ledger is the atomic book of CreditBook, which Ledger *)
(* implements.  BullMQ is external: a job whose worker died is retried     *)
(* once and then failed without running process() again.                   *)
(*                                                                         *)
(* A step is the code between two awaits that other parties can observe.   *)
(* Time is abstract: a file may become older than the result TTL, and a    *)
(* finished job may pass it, at any moment.                                *)
(***************************************************************************)
EXTENDS CreditBook

CONSTANTS Jobs,        \* job ids, one per user and Idempotency-Key
          Owner,       \* the user of each job id
          PricesOf,    \* what uploads under an id may cost; 0 is free
          Grant,       \* credits an account is given
          Uploads,     \* concurrent POST /captions requests
          Faults,      \* the faults that may happen, see FaultKinds
          MaxStalls    \* bound: how often a job's worker may die

FaultKinds ==
  {"cut",        \* an upload ends between two of its awaits
   "stall",      \* a worker dies with its job
   "lostReply",  \* queue.add throws although Redis ran it
   "rm",         \* a file cannot be deleted
   "db"}         \* a refund cannot be posted

ChargeKey(j) == <<"feature_charge", j>>
RefundKey(j) == <<"feature_refund", j>>
GrantKey(u) == <<"admin_adjustment", u>>
DeletedKey(u) == <<"account_deleted", u>>

ASSUME CaptionsAssumption ==
  /\ Owner \in [Jobs -> Users]
  /\ PricesOf \in [Jobs -> SUBSET Nat]
  /\ {ChargeKey(j) : j \in Jobs} \union {RefundKey(j) : j \in Jobs} \subseteq Keys
  /\ {GrantKey(u) : u \in Users} \union {DeletedKey(u) : u \in Users} \subseteq Keys
  /\ Grant \in Nat \ {0}
  /\ Faults \subseteq FaultKinds
  /\ MaxStalls \in Nat

Attempts == 2            \* the `attempts' option of queue.add
MaxStalledCount == 1     \* BullMQ's default

VARIABLES
  provider,   \* is a speech-to-text provider active?
  pc, upload, price,            \* of each upload: its step or reply, job id and price
  job,        \* the queue's record of each job id
  phase, outcome,               \* the worker on each job, and what it decided
  file,       \* the temp audio of each job id
  doomed,     \* files the sweeper has decided to delete
  audited,    \* jobs whose refund failed and was audited
  served,     \* history: paid jobs that completed
  abandoned   \* history: jobs an upload of which was cut after its charge

uploadVars == <<pc, upload, price>>
workVars == <<phase, outcome>>
vars == <<bookVars, provider, uploadVars, job, workVars, file, doomed, audited, served, abandoned>>

NoRecord == [state |-> "absent", credits |-> 0, attempts |-> 0, stalls |-> 0]

CaptionInit ==
  /\ Init
  /\ provider = TRUE
  /\ pc = [r \in Uploads |-> "idle"]
  /\ upload \in [Uploads -> Jobs]
  /\ price = [r \in Uploads |-> 0]
  /\ job = [j \in Jobs |-> NoRecord]
  /\ phase = [j \in Jobs |-> "none"]
  /\ outcome = [j \in Jobs |-> "none"]
  /\ file = [j \in Jobs |-> "none"]
  /\ doomed = {}
  /\ audited = {}
  /\ served = {}
  /\ abandoned = {}

-----------------------------------------------------------------------------
(* POST /captions: CaptionsService.start *)

Goto(r, step) == pc' = [pc EXCEPT ![r] = step]

Replies == {"idle", "queued", "existing", "IDEMPOTENCY_KEY_REUSED", "refused", "failed"}

\* The guard rejects a deleted account and start() a suspended one, a server
\* without a provider and audio it cannot measure.  A rule activated between
\* two sends, or other audio under the same key, changes the price.
Start(r, j, p) ==
  /\ pc[r] \in Replies
  /\ p \in PricesOf[j]
  /\ upload' = [upload EXCEPT ![r] = j]
  /\ price' = [price EXCEPT ![r] = p]
  /\ IF status[Owner[j]] = "active" /\ provider
       THEN Goto(r, "find")
       ELSE Goto(r, "refused")
  /\ UNCHANGED <<bookVars, provider, job, workVars, file, doomed, audited, served, abandoned>>

FindJob(r) ==
  /\ pc[r] = "find"
  /\ IF job[upload[r]].state # "absent"
       THEN Goto(r, "existing")
       ELSE \/ Goto(r, "charge")
            \/ Goto(r, "refused")      \* UNSUPPORTED_MEDIA, INVALID_AUDIO
  /\ UNCHANGED <<bookVars, provider, upload, price, job, workVars, file, doomed, audited, served, abandoned>>

\* Mutant: a replayed charge lets the upload through.
ReplayRuns(r) == Goto(r, "store")

\* A replayed charge never pays for a new upload.
Replayed(r) == Goto(r, "IDEMPOTENCY_KEY_REUSED")

Charge(r) ==
  LET j == upload[r] IN
  /\ pc[r] = "charge"
  /\ IF price[r] = 0
       THEN Goto(r, "store") /\ UNCHANGED bookVars
       ELSE IF Posted(ChargeKey(j))
              THEN Replayed(r) /\ UNCHANGED bookVars
              ELSE \/ /\ Post(Owner[j], ChargeKey(j), -price[r], TRUE)
                      /\ Goto(r, "store")
                   \/ /\ ~Accepts(Owner[j], -price[r], TRUE)
                      /\ Goto(r, "refused")
                      /\ UNCHANGED bookVars
  /\ UNCHANGED <<provider, upload, price, job, workVars, file, doomed, audited, served, abandoned>>

\* writeFile replaces what is there; it may fail after creating the file.
StoreAudio(r) ==
  /\ pc[r] = "store"
  /\ file' = [file EXCEPT ![upload[r]] = "new"]
  /\ Goto(r, "enqueue") \/ Goto(r, "discard")
  /\ UNCHANGED <<bookVars, provider, upload, price, job, workVars, doomed, audited, served, abandoned>>

NewRecord(r) == [state |-> "waiting", credits |-> price[r], attempts |-> 0, stalls |-> 0]

\* BullMQ ignores an add() whose job id it already has.
AddedJobs(r) ==
  IF job[upload[r]].state = "absent" THEN [job EXCEPT ![upload[r]] = NewRecord(r)] ELSE job

Enqueue(r) ==
  /\ pc[r] = "enqueue"
  /\ \/ Goto(r, "queued") /\ job' = AddedJobs(r)
     \/ Goto(r, "discard") /\ UNCHANGED job
     \/ /\ "lostReply" \in Faults
        /\ Goto(r, "discard")
        /\ job' = AddedJobs(r)
  /\ UNCHANGED <<bookVars, provider, upload, price, workVars, file, doomed, audited, served, abandoned>>

RemovedFile(j) == file' = [file EXCEPT ![j] = "none"]

\* rm(..., { force: true }).catch(...): a failure is ignored.
TryRemove(j) == RemovedFile(j) \/ ("rm" \in Faults /\ UNCHANGED file)

Discard(r) ==
  /\ pc[r] = "discard"
  /\ TryRemove(upload[r])
  /\ Goto(r, "refund")
  /\ UNCHANGED <<bookVars, provider, upload, price, job, workVars, doomed, audited, served, abandoned>>

\* CaptionRefunds.refund: posts once per job, never throws, and audits a
\* refund the ledger refuses (the owner is gone) or cannot post.
GiveBack(j, credits) ==
  \/ /\ credits = 0 \/ Posted(RefundKey(j))
     /\ UNCHANGED <<bookVars, audited>>
  \/ /\ credits > 0
     /\ Post(Owner[j], RefundKey(j), credits, FALSE)
     /\ UNCHANGED audited
  \/ /\ credits > 0 /\ ~Posted(RefundKey(j))
     /\ ~Accepts(Owner[j], credits, FALSE) \/ "db" \in Faults
     /\ audited' = audited \union {j}
     /\ UNCHANGED bookVars

\* Mutant: the catch block only removes the file.
NoUploadRefund(r) == UNCHANGED <<bookVars, audited>>

UploadRefund(r) == GiveBack(upload[r], price[r])

RefundUpload(r) ==
  /\ pc[r] = "refund"
  /\ UploadRefund(r)
  /\ Goto(r, "failed")
  /\ UNCHANGED <<provider, upload, price, job, workVars, file, doomed, served, abandoned>>

\* The process or its connection dies: nothing after the last await runs.
Cut(r) ==
  /\ "cut" \in Faults
  /\ pc[r] \notin Replies
  /\ Goto(r, "idle")
  /\ abandoned' = IF pc[r] \in {"store", "enqueue", "discard", "refund"}
                    THEN abandoned \union {upload[r]} ELSE abandoned
  /\ UNCHANGED <<bookVars, provider, upload, price, job, workVars, file, doomed, audited, served>>
-----------------------------------------------------------------------------
(* CaptionWorker.process, and BullMQ around it *)

\* BullMQ hands a waiting job to the worker.
Take(j) ==
  /\ job[j].state = "waiting"
  /\ job' = [job EXCEPT ![j].state = "active"]
  /\ phase' = [phase EXCEPT ![j] = "resolve"]
  /\ UNCHANGED <<bookVars, provider, uploadVars, outcome, file, doomed, audited, served, abandoned>>

\* Mutant: the refund is posted before the audio is removed.
RefundThenClean(o) ==
  IF o = "retry" THEN "finish" ELSE IF o = "done" THEN "clean" ELSE "refund"

\* Where `finally' starts: the audio first, unless a retry needs it.
AfterRun(o) == IF o = "retry" THEN "finish" ELSE "clean"

Decide(j, o) ==
  /\ outcome' = [outcome EXCEPT ![j] = o]
  /\ phase' = [phase EXCEPT ![j] = AfterRun(o)]

Resolve(j) ==
  /\ phase[j] = "resolve"
  /\ IF provider THEN phase' = [phase EXCEPT ![j] = "transcribe"] /\ UNCHANGED outcome
                 ELSE Decide(j, "fatal")
  /\ UNCHANGED <<bookVars, provider, uploadVars, job, file, doomed, audited, served, abandoned>>

LastAttempt(j) == job[j].attempts + 1 >= Attempts

\* The provider answers, refuses for good, or cannot be reached; the audio is
\* read first, and reading a missing file is an error like any other.
Transcribe(j) ==
  /\ phase[j] = "transcribe"
  /\ \/ file[j] # "none" /\ (Decide(j, "done") \/ Decide(j, "fatal"))
     \/ Decide(j, IF LastAttempt(j) THEN "last" ELSE "retry")
  /\ UNCHANGED <<bookVars, provider, uploadVars, job, file, doomed, audited, served, abandoned>>

\* Mutant: only a refusal by the provider gives the credits back.
AfterCleanOfRefusal(j) == IF outcome[j] = "fatal" THEN "refund" ELSE "finish"

AfterClean(j) == IF outcome[j] = "done" THEN "finish" ELSE "refund"

CleanAudio(j) ==
  /\ phase[j] = "clean"
  /\ TryRemove(j)
  /\ phase' = [phase EXCEPT ![j] = AfterClean(j)]
  /\ UNCHANGED <<bookVars, provider, uploadVars, job, outcome, doomed, audited, served, abandoned>>

RefundJob(j) ==
  /\ phase[j] = "refund"
  /\ GiveBack(j, job[j].credits)
  /\ phase' = [phase EXCEPT ![j] = "finish"]
  /\ UNCHANGED <<provider, uploadVars, job, outcome, file, doomed, served, abandoned>>

\* The run is over and its local variables are gone.
Leave(j) ==
  /\ phase' = [phase EXCEPT ![j] = "none"]
  /\ outcome' = [outcome EXCEPT ![j] = "none"]

\* process() returned or threw: BullMQ completes, fails or requeues the job.
Finish(j) ==
  /\ phase[j] = "finish"
  /\ job' = [job EXCEPT
       ![j].state = CASE outcome[j] = "done" -> "completed"
                      [] outcome[j] = "retry" -> "waiting"
                      [] OTHER -> "failed",
       ![j].attempts = @ + 1]
  /\ served' = IF outcome[j] = "done" /\ job[j].credits > 0 THEN served \union {j} ELSE served
  /\ Leave(j)
  /\ UNCHANGED <<bookVars, provider, uploadVars, file, doomed, audited, abandoned>>

WorkerDies(j) ==
  /\ "stall" \in Faults
  /\ phase[j] # "none"
  /\ job[j].stalls < MaxStalls
  /\ Leave(j)
  /\ job' = [job EXCEPT ![j].stalls = @ + 1]
  /\ UNCHANGED <<bookVars, provider, uploadVars, file, doomed, audited, served, abandoned>>

\* The stalled check retries a job whose worker died, then fails it.
Stalled(j) ==
  /\ job[j].state = "active" /\ phase[j] = "none"
  /\ job' = [job EXCEPT ![j].state = IF job[j].stalls > MaxStalledCount THEN "failed" ELSE "waiting"]
  /\ UNCHANGED <<bookVars, provider, uploadVars, workVars, file, doomed, audited, served, abandoned>>
-----------------------------------------------------------------------------
(* CaptionSweeper, and time *)

\* BullMQ's removeOnComplete and removeOnFail, or the sweeper's queue.clean.
Prune(j) ==
  /\ job[j].state \in {"completed", "failed"}
  /\ job' = [job EXCEPT ![j] = NoRecord]
  /\ UNCHANGED <<bookVars, provider, uploadVars, workVars, file, doomed, audited, served, abandoned>>

\* The file passes the result TTL, which is minutes, after the upload that wrote
\* it has issued queue.add: the sweeper asks for the job on the same connection,
\* so it never asks before that add has run.
Age(j) ==
  /\ file[j] = "new"
  /\ \A r \in Uploads : pc[r] = "enqueue" => upload[r] # j
  /\ file' = [file EXCEPT ![j] = "old"]
  /\ UNCHANGED <<bookVars, provider, uploadVars, job, workVars, doomed, audited, served, abandoned>>

\* Mutants: the sweeper does not look at the job, or needs it to exist.
AnyJob(j) == TRUE
JobFinished(j) == job[j].state \in {"completed", "failed"}

\* FINISHED_STATES: "Old is not enough".
NotNeeded(j) == job[j].state \in {"absent", "completed", "failed"}

SweepCheck(j) ==
  /\ file[j] = "old" /\ j \notin doomed
  /\ NotNeeded(j)
  /\ doomed' = doomed \union {j}
  /\ UNCHANGED <<bookVars, provider, uploadVars, job, workVars, file, audited, served, abandoned>>

\* An rm that fails ends the sweep; the next one tries again.
SweepDelete(j) ==
  /\ j \in doomed
  /\ doomed' = doomed \ {j}
  /\ RemovedFile(j)
  /\ UNCHANGED <<bookVars, provider, uploadVars, job, workVars, audited, served, abandoned>>
-----------------------------------------------------------------------------
(* The rest of the server *)

\* ProviderCredentialsService.activate, deactivate and removeKey.
SwitchProvider ==
  /\ provider' = ~provider
  /\ UNCHANGED <<bookVars, uploadVars, job, workVars, file, doomed, audited, served, abandoned>>

GrantCredits(u) == Post(u, GrantKey(u), Grant, FALSE)

\* deleteAccount, as one transaction.
DeleteAccount(u) ==
  /\ status[u] # "deleted"
  /\ status' = [status EXCEPT ![u] = "deleted"]
  /\ balance' = [balance EXCEPT ![u] = 0]
  /\ entries' = IF balance[u] = 0 THEN entries ELSE
       entries \union {[user |-> u, key |-> DeletedKey(u), amount |-> -balance[u]]}

Account(u) ==
  /\ GrantCredits(u) \/ Suspend(u) \/ Unsuspend(u) \/ DeleteAccount(u)
  /\ UNCHANGED <<provider, uploadVars, job, workVars, file, doomed, audited, served, abandoned>>

Work(j) == Resolve(j) \/ Transcribe(j) \/ CleanAudio(j) \/ RefundJob(j) \/ Finish(j)

Serve(r) == FindJob(r) \/ Charge(r) \/ StoreAudio(r) \/ Enqueue(r) \/ Discard(r) \/ RefundUpload(r)

CaptionNext ==
  \/ \E r \in Uploads : \/ \E j \in Jobs : \E p \in PricesOf[j] : Start(r, j, p)
                        \/ Serve(r)
                        \/ Cut(r)
  \/ \E j \in Jobs : \/ Take(j) \/ Work(j) \/ WorkerDies(j) \/ Stalled(j)
                     \/ Prune(j) \/ Age(j) \/ SweepCheck(j) \/ SweepDelete(j)
  \/ SwitchProvider
  \/ \E u \in Users : Account(u)

CaptionSpec == CaptionInit /\ [][CaptionNext]_vars

\* Node finishes what it started, BullMQ serves the queue in order and checks
\* for stalled jobs, the sweeper runs every minute and time passes.
FairCaptionSpec ==
  /\ CaptionSpec
  /\ \A r \in Uploads : WF_vars(Serve(r))
  /\ \A j \in Jobs : /\ WF_vars(Take(j)) /\ WF_vars(Work(j)) /\ WF_vars(Stalled(j))
                     /\ WF_vars(Age(j)) /\ WF_vars(SweepCheck(j)) /\ WF_vars(SweepDelete(j))
-----------------------------------------------------------------------------
Charged(j) == Posted(ChargeKey(j))

Refunded(j) == Posted(RefundKey(j))

\* What the ledger says was taken for a job.
TakenFor(j) == IF Charged(j) THEN -(CHOOSE c \in entries : c.key = ChargeKey(j)).amount ELSE 0

Deal == INSTANCE Escrow WITH
  held <- [j \in Jobs |-> TakenFor(j)],
  delivered <- served,
  returned <- {j \in Jobs : Refunded(j)}

\* Charges, results and refunds, however uploads, retries, deaths and sweeps
\* interleave, look like an escrow: credits taken for a job are spent on a result or
\* all go back, never both and never twice, and nothing else takes any.
EscrowSpec == Deal!Spec

\* Every variable holds a value the code can store.
CaptionTypeOK ==
  /\ status \in [Users -> Statuses]
  /\ balance \in [Users -> Nat]
  /\ entries \subseteq [user : Users, key : Keys, amount : Int]
  /\ pc \in [Uploads -> Replies \union {"find", "charge", "store", "enqueue", "discard", "refund"}]
  /\ job \in [Jobs -> [state : {"absent", "waiting", "active", "completed", "failed"},
                       credits : Nat, attempts : 0..Attempts, stalls : 0..MaxStalls]]
  /\ phase \in [Jobs -> {"none", "resolve", "transcribe", "clean", "refund", "finish"}]
  /\ outcome \in [Jobs -> {"none", "done", "fatal", "last", "retry"}]
  /\ file \in [Jobs -> {"none", "new", "old"}]
  /\ doomed \subseteq Jobs /\ audited \subseteq Jobs /\ served \subseteq Jobs
  /\ abandoned \subseteq Jobs

\* A paid job that delivered a result keeps its charge: not refunded by an
\* earlier run of the same job, not started on a charge already given back.
NoFreeResult == \A j \in served : Charged(j) /\ ~Refunded(j)

\* No more is ever given back for a job than was taken, whichever of the upload
\* and the worker refunds it and at whatever price a resend came in.
RefundsAreBacked ==
  \A e \in entries, j \in Jobs : e.key = RefundKey(j) =>
    \E c \in entries : c.key = ChargeKey(j) /\ c.amount = -e.amount /\ c.user = e.user

\* "A failed job is refunded automatically": once no upload is at work on a
\* failed job, its charge has been given back or the failed refund audited.
FailedIsRefunded ==
  \A j \in Jobs :
    /\ job[j].state = "failed" /\ Charged(j)
    /\ \A r \in Uploads : upload[r] = j => pc[r] \in Replies
    => Refunded(j) \/ j \in audited

\* A paid job that can still run has its audio, whatever the sweeper and other
\* uploads do; only a worker that died may have removed it.
PaidJobHasAudio ==
  \A j \in Jobs :
    /\ job[j].credits > 0 /\ job[j].stalls = 0
    /\ job[j].state = "waiting" \/ phase[j] \in {"resolve", "transcribe"}
    => file[j] # "none"

\* Credits taken for a caption end in a result, in a refund, or in an audited
\* refund, whatever the sweeper and a worker's death do, unless the upload was cut
\* between its charge and its reply: nothing then gives them back.
ChargesSettle ==
  \A j \in Jobs : Charged(j) ~> j \in served \union audited \union abandoned \/ Refunded(j)

\* Audio does not outlive its job: every temp file is deleted, after crashes too,
\* unless a job still needs it.
AudioGoes ==
  \A j \in Jobs : file[j] # "none" ~> file[j] = "none" \/ job[j].state \in {"waiting", "active"}
=============================================================================
