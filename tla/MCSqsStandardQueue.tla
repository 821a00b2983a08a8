------------------------- MODULE MCSqsStandardQueue -------------------------
(* Finite instances of SqsStandardQueue. *)
EXTENDS SqsStandardQueue

CONSTANTS m1, m2, c1, c2

MessageSymmetry == Permutations(Messages)
=============================================================================
