------------------------------- MODULE Backups -------------------------------
(***************************************************************************)
(* Database backups (src/src/modules/backups/): a daily check and the      *)
(* owner's requests are jobs of one worker, which dumps to a temporary     *)
(* file, uploads it to the bucket and records the run.  The process may    *)
(* die between any two steps; BullMQ then runs the job once more.  The     *)
(* owner deletes backups meanwhile.  A backup is named by its time and     *)
(* what started it; its object holds the whole dump or is not there.       *)
(*                                                                         *)
(* Time is counted in ticks, DayLength of them a day and Slack an hour.    *)
(***************************************************************************)
EXTENDS Naturals, FiniteSets, Absent

CONSTANTS Intervals,            \* days between automatic backups
          DayLength, Slack,
          Deleters,             \* requests that delete
          MaxTime,              \* bound: the last tick
          MaxStored             \* bound: backups in the bucket when a run starts

\* An interval is some whole days, and the slack less than one.
ASSUME BackupsAssumption ==
  /\ Intervals \subseteq Nat \ {0} /\ DayLength \in Nat /\ Slack \in Nat /\ Slack < DayLength
  /\ MaxTime \in Nat
  /\ None \notin [at : 0..MaxTime, trigger : {"auto", "manual"}, days : Intervals \union {0}]
  /\ None \notin {"check", "run"} /\ None \notin 0..MaxTime

VARIABLES
  now,
  every,        \* BackupSettings: intervalDays, 0 when automatic backups are off
  check,        \* the scheduler's next check: "delayed" or "waiting"
  request,      \* the owner: "idle", found nothing "running"; the job is "waiting"
  stalled,      \* jobs that a process died with, and are to run again
  worker,       \* the job it runs: step, kind, whether again, when called, and the backup
  temps,        \* partial files: the worker's "own", and what dead runs "left"
  booting,      \* the process has not cleared old files yet
  bucket,       \* backups
  newest,       \* and the newest there ever was, kept for the properties
  deleting      \* each deletion that found its backup is not the newest

backupVars == <<now, every, check, request, stalled, worker, temps, booting, bucket, newest, deleting>>

Asleep == [at |-> "idle", kind |-> None, again |-> FALSE, called |-> 0, item |-> None, days |-> 0]

BackupsInit ==
  /\ now = 0
  /\ every \in Intervals \union {0}
  /\ check \in {"delayed", "waiting"} /\ request = "idle" /\ stalled = {} /\ worker = Asleep
  /\ temps = {} /\ booting = FALSE /\ bucket = {} /\ newest = None
  /\ deleting = [d \in Deleters |-> None]

-----------------------------------------------------------------------------
jobs == <<check, request, stalled>>
files == <<temps, booting, bucket, newest>>

\* isDue: a run that ended a little after the check must not cost the next a day.
Due(at, last, days) == last = None \/ at + Slack >= last + days * DayLength

Autos == {b \in bucket : b.trigger = "auto"}

\* Mutant: the first of a list that is oldest first.
FirstAuto == IF Autos = {} THEN None ELSE (CHOOSE b \in Autos : \A a \in Autos : a.at >= b.at).at

\* newestAuto: the first of the bucket's list.
LastAuto == IF Autos = {} THEN None ELSE (CHOOSE b \in Autos : \A a \in Autos : a.at <= b.at).at

\* Time passes; the scheduler's check is due at the same time every day.
TimePasses ==
  /\ now < MaxTime
  /\ now' = now + 1
  /\ check' = IF now' % DayLength = 0 THEN "waiting" ELSE check
  /\ UNCHANGED <<every, request, stalled, worker, files, deleting>>

UpdateSettings ==
  /\ every' \in Intervals \union {0}
  /\ UNCHANGED <<now, jobs, worker, files, deleting>>

\* requestBackup: isRunning, and the job, dropped if there is a manual one.
AskBackup ==
  /\ request = "idle" /\ worker.at = "idle" /\ stalled = {} /\ check # "waiting"
  /\ request' = "asking"
  /\ UNCHANGED <<now, every, check, stalled, worker, files, deleting>>

AddRun ==
  /\ request = "asking"
  /\ request' = IF worker.kind = "run" \/ "run" \in stalled THEN "idle" ELSE "waiting"
  /\ UNCHANGED <<now, every, check, stalled, worker, files, deleting>>

-----------------------------------------------------------------------------
\* The worker, one job at a time.
First(kind) == IF kind = "check" THEN "settings" ELSE "file"

PickUp(kind, again) ==
  /\ worker.at = "idle"
  /\ worker' = [Asleep EXCEPT !.at = First(kind), !.kind = kind, !.again = again, !.called = now]
  /\ UNCHANGED <<now, every, files, deleting>>

TakeCheck == check = "waiting" /\ check' = "delayed" /\ PickUp("check", FALSE) /\ UNCHANGED <<request, stalled>>

TakeRun == request = "waiting" /\ request' = "idle" /\ PickUp("run", FALSE) /\ UNCHANGED <<check, stalled>>

TakeStalled ==
  \E kind \in stalled :
    stalled' = stalled \ {kind} /\ PickUp(kind, TRUE) /\ UNCHANGED <<check, request>>

\* runScheduledCheck: the settings, then the bucket's list.
ReadSettings ==
  /\ worker.at = "settings"
  /\ worker' = IF every > 0 THEN [worker EXCEPT !.at = "list", !.days = every] ELSE Asleep
  /\ UNCHANGED <<now, every, jobs, files, deleting>>

ListBucket ==
  /\ worker.at = "list"
  /\ worker' = IF Due(worker.called, LastAuto, worker.days) THEN [worker EXCEPT !.at = "file"] ELSE Asleep
  /\ UNCHANGED <<now, every, jobs, files, deleting>>

\* runBackup: the name, and a private file.
CreateFile ==
  /\ worker.at = "file" /\ Cardinality(bucket) < MaxStored
  /\ LET item == [at |-> now, trigger |-> IF worker.kind = "check" THEN "auto" ELSE "manual",
                  days |-> worker.days] IN
       /\ worker' = [worker EXCEPT !.at = "dump", !.item = item]
       /\ temps' = temps \union {"own"}
  /\ UNCHANGED <<now, every, jobs, booting, bucket, newest, deleting>>

\* pg_dump writes to the file.
Dump ==
  /\ worker.at = "dump" /\ worker' = [worker EXCEPT !.at = "upload"]
  /\ UNCHANGED <<now, every, jobs, files, deleting>>

\* The newest of a list: names sort by time, and then by what started the backup.
Newest(list) ==
  CHOOSE b \in list : \A a \in list :
    a.at < b.at \/ (a.at = b.at /\ (b.trigger = "manual" \/ a.trigger = "auto"))

Store ==
  /\ bucket' = bucket \union {worker.item}
  /\ newest' = Newest({worker.item} \union ({newest} \ {None}))

Upload ==
  /\ worker.at = "upload" /\ "own" \in temps
  /\ Store
  /\ worker' = [worker EXCEPT !.at = "remove"]
  /\ UNCHANGED <<now, every, jobs, temps, booting, deleting>>

\* The dump or the upload fails (a failed upload may have stored the object):
\* recorded, and the file removed.  What recordRun writes nobody reads here.
RunFails ==
  /\ worker.at \in {"file", "dump", "upload"}
  /\ \/ worker.at = "upload" /\ "own" \in temps /\ Store
     \/ UNCHANGED <<bucket, newest>>
  /\ temps' = temps \ {"own"}
  /\ worker' = Asleep
  /\ UNCHANGED <<now, every, jobs, booting, deleting>>

RemoveFile ==
  /\ worker.at = "remove"
  /\ temps' = temps \ {"own"}
  /\ worker' = [worker EXCEPT !.at = "record"]
  /\ UNCHANGED <<now, every, jobs, booting, bucket, newest, deleting>>

RecordRun ==
  /\ worker.at = "record"
  /\ worker' = Asleep
  /\ UNCHANGED <<now, every, jobs, files, deleting>>

-----------------------------------------------------------------------------
\* Mutant: any backup may go, as long as there is another.
NotTheLast(b) == bucket # {b}

Deletable(b) == b # Newest(bucket)

\* deleteBackup: findBackup lists the bucket, then the object is deleted.
FindBackup(d) ==
  /\ deleting[d] = None
  /\ \E b \in bucket : Deletable(b) /\ deleting' = [deleting EXCEPT ![d] = b]
  /\ UNCHANGED <<now, every, jobs, worker, files>>

DeleteObject(d) ==
  /\ deleting[d] # None
  /\ bucket' = bucket \ {deleting[d]}
  /\ deleting' = [deleting EXCEPT ![d] = None]
  /\ UNCHANGED <<now, every, jobs, worker, temps, booting, newest>>

\* Files that this process is writing are not leftovers.
Spared == {"own"}

\* removeLeftovers, not awaited by the boot.
RemoveLeftovers ==
  /\ booting
  /\ booting' = FALSE
  /\ temps' = temps \intersect Spared
  /\ UNCHANGED <<now, every, jobs, worker, bucket, newest, deleting>>

\* The process dies and boots; a job that has stalled before has failed.
Restart ==
  /\ booting' = TRUE
  /\ stalled' = IF worker.at # "idle" /\ ~worker.again THEN stalled \union {worker.kind} ELSE stalled
  /\ worker' = Asleep
  /\ temps' = IF temps = {} THEN {} ELSE {"left"}
  /\ request' = IF request = "asking" THEN "idle" ELSE request
  /\ deleting' = [d \in Deleters |-> None]
  /\ UNCHANGED <<now, every, check, bucket, newest>>

BackupsNext ==
  \/ TimePasses \/ UpdateSettings \/ AskBackup \/ AddRun
  \/ TakeCheck \/ TakeRun \/ TakeStalled \/ ReadSettings \/ ListBucket
  \/ CreateFile \/ Dump \/ Upload \/ RunFails \/ RemoveFile \/ RecordRun
  \/ \E d \in Deleters : FindBackup(d) \/ DeleteObject(d)
  \/ RemoveLeftovers \/ Restart

BackupsSpec == BackupsInit /\ [][BackupsNext]_backupVars

-----------------------------------------------------------------------------
Items == [at : 0..MaxTime, trigger : {"auto", "manual"}, days : Intervals \union {0}]

\* The types, and what the worker's step says of its job.
BackupsTypeOK ==
  /\ now \in 0..MaxTime
  /\ every \in Intervals \union {0}
  /\ check \in {"delayed", "waiting"} /\ request \in {"idle", "asking", "waiting"}
  /\ stalled \subseteq {"check", "run"} /\ booting \in BOOLEAN
  /\ worker.at \in {"idle", "settings", "list", "file", "dump", "upload", "remove", "record"}
  /\ worker.item # None <=> worker.at \in {"dump", "upload", "remove", "record"}
  /\ worker.at \in {"dump", "upload"} => "own" \in temps
  /\ (worker.kind = "run" \/ "run" \in stalled) => request # "waiting"
  /\ temps \subseteq {"own", "left"} /\ bucket \subseteq Items
  /\ bucket # {} => newest \in Items

\* Automatic backups keep their distance (backup-rules.ts isDue): two in the bucket
\* are as far apart as the interval in force at the later one, less the slack,
\* although runs die after the upload and are run again.
AutosAreSpaced ==
  \A a, b \in Autos : a.at < b.at => b.at + Slack >= a.at + b.days * DayLength

\* "The newest backup can't be deleted": whatever deletions and runs overlap, the
\* newest backup ever made is in the bucket.
NewestStays == newest # None => newest \in bucket
=============================================================================
