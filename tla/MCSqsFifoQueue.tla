--------------------------- MODULE MCSqsFifoQueue ---------------------------
(* Finite instances of SqsFifoQueue: two messages in group A, one in group *)
(* B, and one deduplication id shared by the first message of each group.  *)
EXTENDS SqsFifoQueue, TLC

CONSTANTS a1, a2, b1, A, B, d, c1

MCGroupOf == a1 :> A @@ a2 :> A @@ b1 :> B
MCDelaysOf == a1 :> {0, 1} @@ a2 :> {0} @@ b1 :> {0}
MCDedupOf == a1 :> {d} @@ a2 :> {} @@ b1 :> {d}
=============================================================================
