---------------------------- MODULE MCLifecycle ----------------------------
(* A chain with an instant step in the middle, and a deletion. *)
EXTENDS Lifecycle, TLC

CONSTANTS c1, c2

MCStates == {"QUEUED", "STARTING", "RUNNING", "DONE", "DELETING", "DELETED"}
MCTo == "QUEUED" :> "STARTING" @@ "STARTING" :> "RUNNING"
        @@ "RUNNING" :> "DONE" @@ "DELETING" :> "DELETED"
=============================================================================
