--------------------------------- MODULE Push ---------------------------------
(***************************************************************************)
(* Push notifications (src/src/modules/push/): installs give, move and     *)
(* take back their tokens while the worker sends a message in batches      *)
(* taken by ascending device id, and drops the tokens that Firebase        *)
(* reports dead.  Each statement is a step; a worker may die between two,  *)
(* and BullMQ then runs its job once more.                                 *)
(***************************************************************************)
EXTENDS Naturals, FiniteSets, Absent

CONSTANTS LastDevice,     \* devices are numbered 1 to this, in the order of their ids
          PushTokens,
          BatchSize       \* PUSH_BATCH

VARIABLES
  pushToken,    \* Device rows
  message,      \* the PushMessage: "none", "counted", "sending", "sent" or "failed"
  job,          \* "none", "waiting", "active", "stalled" or "gone"
  again,        \* whether the job is being run a second time
  sender,       \* the worker: step, the last id it took, its batch and the dead tokens
  kept,         \* devices whose token is what it was when the message was queued,
  reached       \* and how often each device was sent it, kept for the properties

pushVars == <<pushToken, message, job, again, sender, kept, reached>>

Devices == 1..LastDevice

ASSUME PushAssumption == LastDevice \in Nat /\ BatchSize \in Nat \ {0} /\ None \notin PushTokens

Halted == [at |-> "idle", after |-> 0, batch |-> {}, tokens |-> {}]

PushInit ==
  /\ pushToken \in [Devices -> PushTokens \union {None}]
  /\ \A d, e \in Devices : pushToken[d] = pushToken[e] => d = e \/ pushToken[d] = None
  /\ message = "none" /\ job = "none" /\ again = FALSE /\ sender = Halted
  /\ kept = {} /\ reached = [d \in Devices |-> 0]

-----------------------------------------------------------------------------
delivery == <<message, job, again, sender, reached>>

WithToken == {d \in Devices : pushToken[d] # None}

Become(tokens) ==
  /\ pushToken' = tokens
  /\ kept' = {d \in kept : tokens[d] = pushToken[d]}

\* setToken's transaction: the UPDATE of other rows with this token, then of the
\* install's own.  pushToken is unique, so of two that race for a token the second
\* fails and changes nothing: each commits as one step or not at all.
SetToken(d, t) ==
  /\ Become([e \in Devices |-> IF e = d THEN t ELSE IF pushToken[e] = t THEN None ELSE pushToken[e]])
  /\ UNCHANGED delivery

TurnOff(d) ==
  /\ pushToken[d] # None
  /\ Become([pushToken EXCEPT ![d] = None])
  /\ UNCHANGED delivery

-----------------------------------------------------------------------------
\* send: the count of installs, the message, the job.
CountTargets ==
  /\ message = "none" /\ WithToken # {}
  /\ message' = "counted"
  /\ UNCHANGED <<pushToken, job, again, sender, kept, reached>>

CreateMessage ==
  /\ message = "counted"
  /\ message' = "sending"
  /\ UNCHANGED <<pushToken, job, again, sender, kept, reached>>

AddJob ==
  /\ message = "sending" /\ job = "none"
  /\ job' = "waiting" /\ kept' = WithToken
  /\ UNCHANGED <<pushToken, message, again, sender, reached>>

-----------------------------------------------------------------------------
\* deliver: only a message that is still being sent.
TakeJob ==
  /\ job \in {"waiting", "stalled"}
  /\ again' = (job = "stalled")
  /\ IF message = "sending" THEN job' = "active" /\ sender' = [Halted EXCEPT !.at = "read"]
                            ELSE job' = "gone" /\ UNCHANGED sender
  /\ UNCHANGED <<pushToken, message, kept, reached>>

Worker(step) ==
  /\ job = "active" /\ sender.at = step
  /\ UNCHANGED again

\* Mutant: the next batch is found by how many were taken, not after which id.
SkipBatch ==
  {d \in WithToken : LET before == Cardinality({e \in WithToken : e < d}) IN
     before >= sender.after /\ before < sender.after + BatchSize}

\* orderBy id, id > after, take PUSH_BATCH.
NextBatch ==
  {d \in WithToken : d > sender.after /\
     Cardinality({e \in WithToken : e > sender.after /\ e < d}) < BatchSize}

ReadBatch ==
  /\ Worker("read")
  /\ sender' = IF NextBatch = {} THEN [sender EXCEPT !.at = "sent"]
               ELSE [at |-> "send", batch |-> NextBatch, tokens |-> {pushToken[d] : d \in NextBatch},
                     after |-> CHOOSE d \in NextBatch : \A e \in NextBatch : e <= d]
  /\ UNCHANGED <<pushToken, message, job, kept, reached>>

Done(batch) == IF Cardinality(batch) < BatchSize THEN "sent" ELSE "read"

\* sender.send answers with the tokens that are dead, or fails.
SendBatch ==
  /\ Worker("send")
  /\ \E dead \in SUBSET sender.tokens :
       sender' = [sender EXCEPT !.at = IF dead = {} THEN Done(sender.batch) ELSE "drop", !.tokens = dead]
  /\ reached' = [d \in Devices |-> IF d \in sender.batch /\ reached[d] < 2 THEN reached[d] + 1 ELSE reached[d]]
  /\ UNCHANGED <<pushToken, message, job, kept>>

\* WHERE pushToken IN the dead ones.
Dead(d) == pushToken[d] \in sender.tokens

DropDead ==
  /\ Worker("drop")
  /\ Become([d \in Devices |-> IF Dead(d) THEN None ELSE pushToken[d]])
  /\ sender' = [sender EXCEPT !.at = Done(sender.batch), !.tokens = {}]
  /\ UNCHANGED <<message, job, reached>>

\* The last UPDATE; or one that a failure of Firebase or Postgres leads to.
Finish ==
  /\ \E step \in {"read", "send", "drop", "sent"} :
       /\ Worker(step)
       /\ message' \in {"failed"} \union (IF step = "sent" THEN {"sent"} ELSE {})
  /\ job' = "gone" /\ sender' = Halted
  /\ UNCHANGED <<pushToken, kept, reached>>

WorkerDies ==
  /\ job = "active"
  /\ job' = IF again THEN "gone" ELSE "stalled"
  /\ sender' = Halted
  /\ UNCHANGED <<pushToken, message, again, kept, reached>>

PushNext ==
  \/ \E d \in Devices :
       \/ \E t \in PushTokens : SetToken(d, t)
       \/ TurnOff(d)
  \/ CountTargets \/ CreateMessage \/ AddJob
  \/ TakeJob \/ ReadBatch \/ SendBatch \/ DropDead \/ Finish \/ WorkerDies

PushSpec == PushInit /\ [][PushNext]_pushVars

-----------------------------------------------------------------------------
\* The types, and what a step holds.
PushTypeOK ==
  /\ pushToken \in [Devices -> PushTokens \union {None}]
  /\ \A d, e \in Devices : pushToken[d] = pushToken[e] => d = e \/ pushToken[d] = None
  /\ message \in {"none", "counted", "sending", "sent", "failed"}
  /\ job \in {"none", "waiting", "active", "stalled", "gone"} /\ again \in BOOLEAN
  /\ sender.at \in {"idle", "read", "send", "drop", "sent"} /\ sender.after \in 0..LastDevice
  /\ sender.tokens \subseteq PushTokens /\ sender.batch \subseteq Devices
  /\ sender.at # "idle" <=> job = "active"
  /\ kept \subseteq WithToken /\ reached \in [Devices -> 0..2]

\* A message that was sent was sent once to every install that kept its token,
\* and never twice to an install, whatever tokens come, move and go between the
\* batches; only when a run died are some sent it again.
ReachedOnce ==
  message = "sent" => \A d \in Devices :
    /\ d \in kept => reached[d] > 0
    /\ reached[d] > 1 => again
=============================================================================
