----------------------------- MODULE Lifecycle -----------------------------
(***************************************************************************)
(* The resource state machine of pkg/lifecycle/lifecycle.go, which the     *)
(* service emulations use for CREATING -> AVAILABLE, DELETING -> DELETED   *)
(* and the like.                                                           *)
(*                                                                         *)
(* A delayed transition is a time.AfterFunc: when the timer fires, a new   *)
(* goroutine runs the callback, which first waits for m.mu.  Stopping the  *)
(* timer does nothing to a callback that is already waiting.  ForceState   *)
(* holds m.mu twice and releases it in between to notify its subscriber.   *)
(* Subscribers run outside the lock and touch no field of the machine;     *)
(* they, and the log of past states, are left out.                         *)
(***************************************************************************)
EXTENDS Integers, FiniteSets

CONSTANTS
    States,
    Initial,        \* the state a machine is created in
    To,             \* To[s]: target of the automatic transition from s
    Slow,           \* the states whose transition has a delay
    Forcible,       \* states ForceState is called with
    Callers,        \* goroutines that call ForceState
    MaxForces       \* bound of the model: number of ForceState calls

None == "none"

ASSUME LifecycleAssumption ==
    /\ IsFiniteSet(States)
    /\ Initial \in States /\ None \notin States
    /\ DOMAIN To \subseteq States /\ \A s \in DOMAIN To : To[s] \in States
    /\ Slow \subseteq DOMAIN To
    /\ Forcible \subseteq States
    /\ MaxForces \in Nat

(* No emulation configures a cycle: scheduleNext would not come back from  *)
(* one of instant transitions, and without delays all of them are.         *)
ASSUME NoCycleAssumption ==
    \E rank \in [States -> 0 .. Cardinality(States)] :
        \A s \in DOMAIN To : rank[To[s]] < rank[s]

VARIABLES
    enabled,        \* Config.enabled: delays are simulated
    state,          \* Machine.state
    timer,          \* the target the armed timer carries, or None
    fired,          \* fired[s]: callbacks towards s that wait for m.mu
    pc,             \* control state of each caller's ForceState
    forces,         \* ForceState calls so far
    stopped         \* Stop returned and nobody called ForceState since (history)

vars == <<enabled, state, timer, fired, pc, forces, stopped>>

(* A transition is instant if it has no delay or delays are disabled.      *)
Instant(s) == s \in DOMAIN To /\ (~enabled \/ s \notin Slow)

(* The state after one look at the transitions. *)
Follow(s) == IF Instant(s) THEN To[s] ELSE s

MutSettle(s) == Follow(s)   \* mutant: no recursion

(* scheduleNext's recursion through instant transitions.                   *)
Settle(s) ==
    LET walk[k \in 0..Cardinality(States)] ==
            IF k = 0 THEN s ELSE Follow(walk[k - 1])
    IN walk[Cardinality(States)]

(* The timer scheduleNext leaves armed when it stops at s. *)
Arm(s) == IF s \in DOMAIN To THEN To[s] ELSE None

(* scheduleNext from state s: cancel, settle, arm. *)
ScheduleNext(s) ==
    /\ state' = Settle(s)
    /\ timer' = Arm(Settle(s))

(* NewMachine *)
Init ==
    /\ enabled \in BOOLEAN
    /\ state = Settle(Initial)
    /\ timer = Arm(Settle(Initial))
    /\ fired = [s \in States |-> 0]
    /\ pc = [c \in Callers |-> "idle"]
    /\ forces = 0
    /\ stopped = FALSE

(* Config.SetEnabled: a timer that is armed keeps its delay. *)
SetEnabled ==
    /\ enabled' = ~enabled
    /\ UNCHANGED <<state, timer, fired, pc, forces, stopped>>

(* Mutants of Callback: the next transition is not scheduled; the callback *)
(* runs although no timer fired.                                           *)
MutUnscheduled(s) ==
    /\ fired[s] > 0
    /\ fired' = [fired EXCEPT ![s] = @ - 1]
    /\ state' = s
    /\ timer' = None
    /\ UNCHANGED <<enabled, pc, forces, stopped>>
MutUnfired(s) ==
    /\ fired' = [fired EXCEPT ![s] = @ - 1]
    /\ ScheduleNext(s)
    /\ UNCHANGED <<enabled, pc, forces, stopped>>

(* The timer fires: its callback is a goroutine that waits for m.mu ...    *)
Fire ==
    /\ timer # None
    /\ fired' = [fired EXCEPT ![timer] = @ + 1]
    /\ timer' = None
    /\ UNCHANGED <<enabled, state, pc, forces, stopped>>

(* ... and then sets the state it was armed for, whatever the state is.    *)
Callback(s) ==
    /\ fired[s] > 0
    /\ fired' = [fired EXCEPT ![s] = @ - 1]
    /\ ScheduleNext(s)
    /\ UNCHANGED <<enabled, pc, forces, stopped>>

(* Mutant of ForceState: the old timer is not cancelled. *)
MutForceState(c, s) ==
    /\ pc[c] = "idle"
    /\ forces < MaxForces
    /\ forces' = forces + 1
    /\ pc' = [pc EXCEPT ![c] = "window"]
    /\ state' = s
    /\ stopped' = FALSE
    /\ UNCHANGED <<enabled, fired, timer>>

(* ForceState, first critical section: cancel the timer, set the state.    *)
ForceState(c, s) ==
    /\ pc[c] = "idle"
    /\ forces < MaxForces
    /\ forces' = forces + 1
    /\ pc' = [pc EXCEPT ![c] = "window"]
    /\ state' = s
    /\ timer' = None
    /\ stopped' = FALSE
    /\ UNCHANGED <<enabled, fired>>

(* ForceState, second critical section: schedule from the current state.   *)
ForceStateReturns(c) ==
    /\ pc[c] = "window"
    /\ pc' = [pc EXCEPT ![c] = "idle"]
    /\ ScheduleNext(state)
    /\ UNCHANGED <<enabled, fired, forces, stopped>>

(* Stop cancels the timer.  Only a Stop that no ForceState overlaps counts *)
(* as the last word.                                                       *)
Stop ==
    /\ timer' = None
    /\ stopped' = (\A c \in Callers : pc[c] = "idle")
    /\ UNCHANGED <<enabled, state, fired, pc, forces>>

Next ==
    \/ SetEnabled
    \/ Fire
    \/ \E s \in States : Callback(s)
    \/ \E c \in Callers, s \in Forcible : ForceState(c, s)
    \/ \E c \in Callers : ForceStateReturns(c)
    \/ Stop

Spec == Init /\ [][Next]_vars

(* An armed timer fires, and goroutines that wait for m.mu get it. *)
Fairness ==
    /\ WF_vars(Fire)
    /\ \A s \in States : WF_vars(Callback(s))
    /\ \A c \in Callers : WF_vars(ForceStateReturns(c))

LiveSpec == Spec /\ Fairness

-----------------------------------------------------------------------------
(* TypeOK: the machine's fields and callers keep their types. *)
TypeOK ==
    /\ enabled \in BOOLEAN
    /\ state \in States
    /\ timer \in States \cup {None}
    /\ fired \in [States -> Nat]
    /\ pc \in [Callers -> {"idle", "window"}]
    /\ forces \in 0..MaxForces
    /\ stopped \in BOOLEAN

Quiet == \A c \in Callers : pc[c] = "idle"

(* The armed timer is the one of the current state: neither a ForceState   *)
(* in its window nor a late callback leaves the timer of an older state.   *)
TimerFitsState == timer # None => state \in DOMAIN To /\ timer = To[state]

(* A state that has a transition is not left without anybody to make it:   *)
(* concurrent ForceStates, late callbacks and SetEnabled lose no schedule. *)
NotStranded ==
    Quiet /\ ~stopped /\ state \in DOMAIN To =>
        timer # None \/ \E s \in States : fired[s] > 0

(* No state whose transition has no delay is at rest, whatever SetEnabled  *)
(* did; only a ForceState in its window shows one.                         *)
NoInstantRest == Quiet /\ state \in DOMAIN To => state \in Slow

(* A resource leaves each transient state, unless its machine is stopped.  *)
TransientStatesEnd ==
    \A s \in DOMAIN To : state = s ~> (state # s \/ stopped)

(* After Stop returned, and until the next ForceState, the state does not  *)
(* change any more.                                                        *)
StopIsFinal == [][stopped /\ stopped' => state' = state]_vars
=============================================================================
