----------------------- MODULE MCEventSourceMapping -----------------------
(* Finite instances of EventSourceMapping: a queue and its dead-letter     *)
(* queue.                                                                  *)
EXTENDS EventSourceMapping, TLC

CONSTANTS work, dead, p1, p2

MCPolicy == work :> dead @@ dead :> NoQueue

(* A queue that redrives into itself, which CreateQueue accepts. *)
MCSelfPolicy == work :> work @@ dead :> NoQueue

MCSymmetry == Permutations(Messages)

(* p1 serves the queue; p2 serves it too, or the dead-letter queue. *)
MCSources == p1 :> {work} @@ p2 :> {work, dead}
=============================================================================
