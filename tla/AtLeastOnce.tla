---------------------------- MODULE AtLeastOnce ----------------------------
(* What an event source mapping promises (services/lambda/event_source.go, *)
(* handleCreateEventSourceMapping to pollAndInvoke): a message of the      *)
(* source is kept until a successful invocation has seen it.  It may be    *)
(* seen again, even after it is gone.                                      *)
CONSTANT Messages

VARIABLES accepted,     \* messages SQS has accepted
          processed,    \* those a successful invocation has seen
          gone          \* those deleted since

vars == <<accepted, processed, gone>>

Init == accepted = {} /\ processed = {} /\ gone = {}

Accept(m) ==
    /\ m \notin accepted
    /\ accepted' = accepted \cup {m}
    /\ UNCHANGED <<processed, gone>>

Process(S) ==
    /\ S \subseteq accepted
    /\ processed' = processed \cup S
    /\ UNCHANGED <<accepted, gone>>

Acknowledge(m) ==
    /\ m \in processed
    /\ gone' = gone \cup {m}
    /\ UNCHANGED <<accepted, processed>>

Next ==
    \/ \E m \in Messages : Accept(m) \/ Acknowledge(m)
    \/ \E S \in SUBSET Messages : Process(S)

Spec == Init /\ [][Next]_vars
=============================================================================
