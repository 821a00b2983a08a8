-------------------------- MODULE MessageLifecycle --------------------------
(***************************************************************************)
(* What a CloudMock SQS queue promises about each message it has accepted, *)
(* whatever data structures implement it: an accepted message stays in     *)
(* exactly one place, moves between places only along the edges below, and *)
(* disappears only because a client deleted it while it was in flight or   *)
(* purged the queue.  A message that reached the dead-letter queue has     *)
(* left this queue for good.                                               *)
(*                                                                         *)
(* The module is abstract: it has no handles, heaps, timers or waiters.    *)
(* SqsStandardQueue implements it under the refinement mapping PlaceOf.    *)
(***************************************************************************)

CONSTANT Messages           \* the messages producers may send

VARIABLE place              \* place[m]: where message m is

Places == {"unsent", "delayed", "ready", "inflight", "dlq", "gone"}

(* The edges a message may take without a client naming it: a delay ends,  *)
(* a receive hides it, a visibility timeout returns it, a redrive policy   *)
(* diverts it.  A message that was never received is never redriven, so    *)
(* there is no edge from "delayed" to "dlq".                               *)
Moves == {<<"delayed", "ready">>, <<"delayed", "inflight">>,
          <<"ready", "inflight">>, <<"ready", "dlq">>,
          <<"inflight", "ready">>, <<"inflight", "dlq">>}

Init == place = [m \in Messages |-> "unsent"]

(* SendMessage accepts a message, hidden for its delay or ready at once. *)
Accept(m) ==
    /\ place[m] = "unsent"
    /\ \E p \in {"delayed", "ready"} : place' = [place EXCEPT ![m] = p]

(* One critical section of the queue may move any number of messages. *)
Progress ==
    /\ place' \in [Messages -> Places]
    /\ \A m \in Messages :
          place'[m] # place[m] => <<place[m], place'[m]>> \in Moves

(* DeleteMessage with the handle of a message that is in flight. *)
Delete(m) ==
    /\ place[m] = "inflight"
    /\ place' = [place EXCEPT ![m] = "gone"]

(* Purge empties the queue in one step; the dead-letter queue keeps its own. *)
Purge ==
    place' = [m \in Messages |->
                IF place[m] \in {"delayed", "ready", "inflight"}
                THEN "gone" ELSE place[m]]

Next ==
    \/ \E m \in Messages : Accept(m) \/ Delete(m)
    \/ Progress
    \/ Purge

Spec == Init /\ [][Next]_place
=============================================================================
