-------------------------- MODULE LifecycleProofs --------------------------
(***************************************************************************)
(* Proofs about Lifecycle, for any states, transitions without a cycle,    *)
(* and callers.                                                            *)
(***************************************************************************)
EXTENDS Lifecycle, Iteration

-----------------------------------------------------------------------------
(* scheduleNext's walk along the instant transitions.                      *)

IsWalk(w, n, s) ==
    /\ w \in [0 .. n -> States]
    /\ w[0] = s
    /\ \A k \in 1 .. n : w[k] = Follow(w[k - 1])

LEMMA FollowType ==
    ASSUME NEW s \in States
    PROVE  Follow(s) \in States
BY LifecycleAssumption DEF Follow, Instant

LEMMA WalkExists ==
    ASSUME NEW s \in States, NEW N \in Nat
    PROVE  \E w : IsWalk(w, N, s)
<1>1. PICK S, step : /\ S = [k \in 0 .. N |-> States]
                     /\ step = [k \in 1 .. N |-> [x \in States |-> Follow(x)]]
  OBVIOUS
<1>2. /\ \A k \in 0 .. N : S[k] = States
      /\ \A k \in 1 .. N : k - 1 \in 0 .. N /\ k \in 0 .. N
      /\ \A k \in 1 .. N : \A x \in States : step[k][x] = Follow(x)
      /\ 0 \in 0 .. N
  BY <1>1
<1> HIDE <1>1
<1>3. Leads(step, S, N)
  BY <1>2, FollowType DEF Leads
<1>4. PICK w : IsRun(w, N, s, step, S)
  <2>1. s \in S[0]
    BY <1>2
  <2> QED
    BY <1>3, <2>1, Iterates
<1>5. IsWalk(w, N, s)
  BY <1>2, <1>4 DEF IsRun, IsWalk
<1> QED
  BY <1>5

N == Cardinality(States)

LEMMA NType == N \in Nat
BY LifecycleAssumption, FS_CardinalityType DEF N

(* Settle(s) is where the walk from s is after as many steps as there are  *)
(* states.                                                                 *)
LEMMA SettleWalks ==
    ASSUME NEW s \in States
    PROVE  \E w : IsWalk(w, N, s) /\ Settle(s) = w[N]
<1> DEFINE walk[k \in 0 .. N] == IF k = 0 THEN s ELSE Follow(walk[k - 1])
<1>1. walk = [k \in 0 .. N |-> IF k = 0 THEN s ELSE Follow(walk[k - 1])]
  <2>1. SUFFICES \E w : w = [k \in 0 .. N |-> IF k = 0 THEN s ELSE Follow(w[k - 1])]
    BY Zenon
  <2>2. PICK w : IsWalk(w, N, s)
    BY WalkExists, NType
  <2>3. w = [k \in 0 .. N |-> w[k]]
    BY <2>2 DEF IsWalk
  <2>4. ASSUME NEW k \in 0 .. N
        PROVE  w[k] = IF k = 0 THEN s ELSE Follow(w[k - 1])
    BY <2>2, NType DEF IsWalk
  <2>5. [k \in 0 .. N |-> w[k]]
          = [k \in 0 .. N |-> IF k = 0 THEN s ELSE Follow(w[k - 1])]
    BY <2>4, Zenon
  <2> QED
    BY <2>3, <2>5, Zenon
<1>2. Settle(s) = walk[N]
  BY Zenon DEF Settle, N
<1> HIDE DEF walk
<1>3. \A k \in 0 .. N : walk[k] = IF k = 0 THEN s ELSE Follow(walk[k - 1])
  BY <1>1
<1>4. \A k \in 0 .. N : walk[k] \in States
  <2> DEFINE P == {k \in 0 .. N : walk[k] \in States}
  <2>1. 0 \in P
    BY <1>3, NType
  <2>2. ASSUME NEW k \in 1 .. N, k - 1 \in P
        PROVE  k \in P
    <3>1. k \in 0 .. N /\ walk[k] = Follow(walk[k - 1])
      BY <1>3, NType
    <3> QED
      BY <2>2, <3>1, FollowType
  <2> HIDE DEF P
  <2>3. 0 .. N \subseteq P
    BY <2>1, <2>2, UpTo, NType
  <2> QED
    BY <2>3 DEF P
<1>5. IsWalk(walk, N, s)
  BY <1>1, <1>3, <1>4, NType DEF IsWalk
<1> QED
  BY <1>2, <1>5

LEMMA SettleType ==
    ASSUME NEW s \in States
    PROVE  Settle(s) \in States
BY SettleWalks, NType DEF IsWalk

(* The walk has passed every instant transition: along it the rank falls.  *)
LEMMA SettleRests ==
    ASSUME NEW s \in States
    PROVE  ~ Instant(Settle(s))
<1>1. PICK w : IsWalk(w, N, s) /\ Settle(s) = w[N]
  BY SettleWalks
<1>2. PICK rank \in [States -> 0 .. N] : \A t \in DOMAIN To : rank[To[t]] < rank[t]
  BY NoCycleAssumption DEF N
<1> DEFINE P == {k \in 0 .. N : ~ Instant(w[k]) \/ rank[w[k]] <= N - k}
<1>3. 0 \in P
  BY <1>1, <1>2, NType DEF IsWalk
<1>4. ASSUME NEW k \in 1 .. N, k - 1 \in P
      PROVE  k \in P
  <2>1. w[k] = Follow(w[k - 1]) /\ w[k] \in States /\ w[k - 1] \in States
        /\ k \in 0 .. N
    BY <1>1, NType DEF IsWalk
  <2>2. CASE ~ Instant(w[k - 1])
    BY <2>1, <2>2 DEF Follow
  <2>3. CASE Instant(w[k - 1])
    <3>1. rank[w[k - 1]] <= N - (k - 1)
      BY <1>4, <2>3
    <3>2. w[k] = To[w[k - 1]] /\ w[k - 1] \in DOMAIN To
      BY <2>1, <2>3 DEF Follow, Instant
    <3>3. rank[w[k]] < rank[w[k - 1]] /\ rank[w[k]] \in 0 .. N /\ rank[w[k - 1]] \in 0 .. N
      BY <1>2, <2>1, <3>2
    <3> QED
      BY <2>1, <3>1, <3>3, NType
  <2> QED
    BY <2>2, <2>3
<1> HIDE DEF P
<1>5. N \in P
  BY <1>3, <1>4, UpTo, NType
<1>6. ASSUME Instant(w[N]) PROVE FALSE
  <2>1. w[N] \in States /\ w[N] \in DOMAIN To /\ To[w[N]] \in States
    BY <1>1, <1>6, NType, LifecycleAssumption DEF IsWalk, Instant
  <2>2. rank[w[N]] <= 0
    BY <1>5, <1>6, NType DEF P
  <2>3. rank[To[w[N]]] < rank[w[N]] /\ rank[To[w[N]]] \in 0 .. N /\ rank[w[N]] \in 0 .. N
    BY <1>2, <2>1
  <2> QED
    BY <2>2, <2>3, NType
<1> QED
  BY <1>1, <1>6

LEMMA ArmType ==
    ASSUME NEW s \in States
    PROVE  /\ Arm(s) \in States \cup {None}
           /\ Arm(s) # None <=> s \in DOMAIN To
           /\ Arm(s) # None => Arm(s) = To[s]
BY LifecycleAssumption DEF Arm

-----------------------------------------------------------------------------
(* The invariants.  Each holds of what scheduleNext leaves behind.         *)

LEMMA Scheduled ==
    ASSUME NEW s \in States, ScheduleNext(s)
    PROVE  /\ state' \in States /\ timer' \in States \cup {None}
           /\ TimerFitsState'
           /\ state' \in DOMAIN To => state' \in Slow /\ timer' # None
<1>1. state' = Settle(s) /\ timer' = Arm(Settle(s)) /\ Settle(s) \in States
  BY SettleType DEF ScheduleNext
<1>2. ~ Instant(Settle(s))
  BY SettleRests
<1>3. Settle(s) \in DOMAIN To => Settle(s) \in Slow
  BY <1>2 DEF Instant
<1> QED
  BY <1>1, <1>3, ArmType DEF TimerFitsState

Inv == TypeOK /\ TimerFitsState /\ NotStranded /\ NoInstantRest

LEMMA InvInit == Init => Inv
<1> SUFFICES ASSUME Init PROVE Inv
  OBVIOUS
<1>1. state \in States /\ (state \in DOMAIN To => state \in Slow)
      /\ timer = Arm(state)
  BY SettleType, SettleRests, LifecycleAssumption DEF Init, Instant
<1>2. /\ timer \in States \cup {None}
      /\ timer # None <=> state \in DOMAIN To
      /\ timer # None => timer = To[state]
  BY <1>1, ArmType
<1>3. TypeOK
  <2>1. /\ enabled \in BOOLEAN /\ forces = 0 /\ stopped = FALSE
        /\ fired = [s \in States |-> 0] /\ pc = [c \in Callers |-> "idle"]
    BY DEF Init
  <2>2. fired \in [States -> Nat] /\ pc \in [Callers -> {"idle", "window"}]
    BY <2>1
  <2>3. MaxForces \in Nat
    BY LifecycleAssumption
  <2>4. forces \in 0 .. MaxForces
    BY <2>1, <2>3
  <2> QED
    BY <1>1, <1>2, <2>1, <2>2, <2>4 DEF TypeOK
<1> QED
  BY <1>1, <1>2, <1>3 DEF Inv, TimerFitsState, NotStranded, NoInstantRest

LEMMA InvNext == Inv /\ [Next]_vars => Inv'
<1> SUFFICES ASSUME Inv, [Next]_vars PROVE Inv'
  OBVIOUS
<1> USE DEF Inv
<1>1. CASE SetEnabled
  BY <1>1 DEF SetEnabled, TypeOK, TimerFitsState, NotStranded, NoInstantRest, Quiet
<1>2. CASE Fire
  <2>1. timer \in States /\ fired' = [fired EXCEPT ![timer] = @ + 1]
        /\ fired'[timer] > 0
    BY <1>2 DEF Fire, TypeOK
  <2> QED
    BY <1>2, <2>1 DEF Fire, TypeOK, TimerFitsState, NotStranded, NoInstantRest, Quiet
<1>3. ASSUME NEW s \in States, Callback(s) PROVE Inv'
  <2>1. TypeOK'
    BY <1>3, Scheduled DEF Callback, TypeOK
  <2> QED
    BY <1>3, <2>1, Scheduled DEF Callback, NotStranded, NoInstantRest
<1>4. ASSUME NEW c \in Callers, NEW s \in Forcible, ForceState(c, s) PROVE Inv'
  <2>1. TypeOK'
    <3>1. state' \in States /\ timer' = None /\ forces' \in 0 .. MaxForces
      BY <1>4, LifecycleAssumption DEF ForceState, TypeOK
    <3> QED
      BY <1>4, <3>1 DEF ForceState, TypeOK
  <2>2. timer' = None /\ pc'[c] = "window"
    BY <1>4 DEF ForceState, TypeOK
  <2>3. ~ Quiet'
    BY <2>2 DEF Quiet
  <2> QED
    BY <2>1, <2>2, <2>3 DEF TimerFitsState, NotStranded, NoInstantRest
<1>5. ASSUME NEW c \in Callers, ForceStateReturns(c) PROVE Inv'
  <2>1. TypeOK'
    BY <1>5, Scheduled DEF ForceStateReturns, TypeOK
  <2> QED
    BY <1>5, <2>1, Scheduled DEF ForceStateReturns, NotStranded, NoInstantRest, TypeOK
<1>6. CASE Stop
  <2>1. stopped' = Quiet /\ Quiet' = Quiet /\ timer' = None /\ state' = state
    BY <1>6 DEF Stop, Quiet
  <2>2. TypeOK'
    BY <1>6 DEF Stop, TypeOK
  <2> QED
    BY <2>1, <2>2 DEF TimerFitsState, NotStranded, NoInstantRest
<1>7. CASE UNCHANGED vars
  BY <1>7 DEF vars, TypeOK, TimerFitsState, NotStranded, NoInstantRest, Quiet
<1> QED
  BY <1>1, <1>2, <1>3, <1>4, <1>5, <1>6, <1>7 DEF Next

LEMMA InvHolds == Spec => []Inv
BY InvInit, InvNext, PTL DEF Spec

(* The machine's fields keep their types, for all states and transitions.  *)
THEOREM TypeCorrect == Spec => []TypeOK
BY InvHolds, PTL DEF Inv

(* No ForceState in its window and no late callback leaves the timer of an *)
(* older state armed (cancelTimer, scheduleNext).                          *)
THEOREM TimerFits == Spec => []TimerFitsState
BY InvHolds, PTL DEF Inv

(* A transient state always has somebody left to end it: no interleaving   *)
(* of ForceState's halves, timers and callbacks loses the schedule.        *)
THEOREM NobodyStranded == Spec => []NotStranded
BY InvHolds, PTL DEF Inv

(* Switching delays on and off leaves no resource at rest in a state whose *)
(* transition is instant.                                                  *)
THEOREM RestsOnlyWhereSlow == Spec => []NoInstantRest
BY InvHolds, PTL DEF Inv
=============================================================================
