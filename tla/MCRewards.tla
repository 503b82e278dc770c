------------------------------ MODULE MCRewards ------------------------------
(***************************************************************************)
(* Small instances of Rewards (ads around a midnight, and claims), of      *)
(* CaptionJobs with every fault, and of Backups.  No key of the ledger is  *)
(* of two of them: one run explores the three, each behaviour being of one.*)
(***************************************************************************)
EXTENDS Rewards, CaptionJobs, Backups, TLC

CONSTANTS u1, u2, n1, n2, r1, r2, j1

VARIABLE part

OneUser == {u1}
OneSession == {n1}
Owners == [n \in Nonces |-> IF n = n1 THEN u1 ELSE u2]

\* Two ads of one session, which an ad does not use up.
TwoAds == {[txn |-> "a", user |-> u1, nonce |-> n1], [txn |-> "b", user |-> u1, nonce |-> n1]}

\* Two uploads under one Idempotency-Key, priced otherwise.
JobOwner == (j1 :> u1)
TwoPrices == (j1 :> {1, 2})

MCKeys == {AdKey(x) : x \in {"a", "b"}} \union {ClaimKey(u1, n) : n \in 0..MaxClock}
            \union {ChargeKey(j1), RefundKey(j1), GrantKey(u1), DeletedKey(u1)}
MCAmounts == (-3..3) \ {0}

rewardsOnly == <<clock, createdAt, rowOwner, session, answered, stage, req, cuts>>
captionsOnly == <<provider, uploadVars, job, workVars, file, doomed, audited, served, abandoned>>

Symmetric == Permutations(Requests)

-----------------------------------------------------------------------------

MCInit ==
  /\ part \in {"rewards", "captions", "backups"}
  /\ RewardsInit /\ CaptionInit
  \* The other parts have one database of Backups.
  /\ BackupsInit /\ (part # "backups" => every = 0 /\ check = "delayed")

RewardsPart == part = "rewards" /\ RewardsNext /\ UNCHANGED <<part, captionsOnly, backupVars>>
CaptionsPart == part = "captions" /\ CaptionNext /\ UNCHANGED <<part, rewardsOnly, backupVars>>
BackupsPart == part = "backups" /\ BackupsNext /\ UNCHANGED <<part, rewardVars, captionsOnly>>

MCNext == RewardsPart \/ CaptionsPart \/ BackupsPart

MCSpec == MCInit /\ [][MCNext]_<<part, rewardVars, captionsOnly, backupVars>>
=============================================================================
