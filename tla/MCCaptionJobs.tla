--------------------------- MODULE MCCaptionJobs ---------------------------
(***************************************************************************)
(* Small instances of CaptionJobs: one user, one Idempotency-Key and the   *)
(* uploads that resend it.  Uploads under different keys meet only in the  *)
(* user's balance, which Ledger covers.                                    *)
(***************************************************************************)
EXTENDS CaptionJobs, TLC

CONSTANTS u1, j1, r1, r2

MCUsers == {u1}
MCOwner == [j \in Jobs |-> u1]
MCKeys == { ChargeKey(j) : j \in Jobs } \union { RefundKey(j) : j \in Jobs }
            \union { GrantKey(u) : u \in MCUsers } \union { DeletedKey(u) : u \in MCUsers }
MCAmounts == (-3..3) \ {0}

\* A job costs two of the three credits, or a resend is priced otherwise.
FixedPrice == [j \in Jobs |-> {2}]
TwoPrices == [j \in Jobs |-> {1, 2}]

Symmetric == Permutations(Uploads)
=============================================================================
