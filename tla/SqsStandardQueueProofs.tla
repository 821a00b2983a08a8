----------------------- MODULE SqsStandardQueueProofs -----------------------
(***************************************************************************)
(* Proofs about SqsStandardQueue, for any finite set of messages, any set  *)
(* of consumers and any parameter values ParametersAssumption allows.      *)
(*                                                                         *)
(* TypeOK is inductive by itself.  TimersArmed needs only TypeOK.  Where a *)
(* message is (ExactlyOnePlace) and under which handle and deadline it is  *)
(* in flight (InflightHasDeadline) are proved together, as PlaceInv, and   *)
(* carry the refinement of MessageLifecycle.                               *)
(***************************************************************************)
EXTENDS SqsStandardQueue, FiniteSetTheorems, TLAPS

(* An order of a set of messages is a sequence of exactly those messages,  *)
(* each once: what the pops of a heap return.                              *)
LEMMA OrdersProps ==
    ASSUME NEW S, S \subseteq Messages, NEW s \in Orders(S)
    PROVE  /\ s \in Seq(S)
           /\ s \in Seq(Messages)
           /\ ToSet(s) = S
           /\ \A i, j \in 1..Len(s) : s[i] = s[j] => i = j
<1>1. IsFiniteSet(S)
  BY FS_Subset, ParametersAssumption
<1>2. Cardinality(S) \in Nat
  BY <1>1, FS_CardinalityType
<1>3. s \in [1..Cardinality(S) -> S] /\ ToSet(s) = S
      /\ \A i, j \in DOMAIN s : s[i] = s[j] => i = j
  BY DEF Orders
<1>4. s \in Seq(S)
  BY <1>2, <1>3
<1>5. Len(s) = Cardinality(S) /\ DOMAIN s = 1..Len(s)
  BY <1>2, <1>3, <1>4
<1>6. s \in Seq(Messages)
  BY <1>4
<1> QED
  BY <1>3, <1>4, <1>5, <1>6

(* A timer that is reset is off, or armed no later than the first deadline *)
(* of its heap; on a heap that is not empty it is armed.                   *)
LEMMA ResetTimerProps ==
    ASSUME NEW heap, \A e \in heap : e.left \in Nat,
           NEW t \in ResetTimer(heap)
    PROVE  /\ t \in Nat \cup {Off}
           /\ heap # {} => Armed(t, heap)
<1>1. CASE heap = {}
  BY <1>1 DEF ResetTimer
<1>2. CASE heap # {}
  <2>1. PICK e \in heap : t = e.left /\ \A g \in heap : e.left <= g.left
    BY <1>2 DEF ResetTimer
  <2> QED
    BY <2>1 DEF Armed, Off
<1> QED
  BY <1>1, <1>2

(* What a heap pops are values of its entries. *)
LEMMA MaturedType ==
    TypeOK => Matured \subseteq Messages
BY DEF TypeOK, Matured, Values, Due

(* What reclaimExpiredLocked takes: handles in flight, and their messages. *)
LEMMA ExpiredType ==
    TypeOK => /\ Expired \subseteq inflight
              /\ Expired \subseteq Handles
              /\ RedrivenAtReclaim \subseteq Messages
              /\ Returned \subseteq Messages
<1> SUFFICES ASSUME TypeOK PROVE Expired \subseteq inflight
                                 /\ \A h \in Expired : h.msg \in Messages
  BY DEF TypeOK, RedrivenAtReclaim, Returned
<1> QED
  BY DEF TypeOK, Expired, Handles

(* What matureDelayedLocked and reclaimExpiredLocked leave in the ring     *)
(* buffer: the messages of the buffer, the matured and the returned ones.  *)
LEMMA AvailableType ==
    ASSUME TypeOK, NEW avail \in Available
    PROVE  /\ avail \in Seq(Messages)
           /\ Len(avail) \in Nat
           /\ \A i \in 1..Len(avail) : avail[i] \in Messages
<1>1. PICK m \in Orders(Matured), r \in Orders(Returned) :
          avail = ready \o m \o r
  BY DEF Available
<1>2. m \in Seq(Messages) /\ r \in Seq(Messages)
  BY OrdersProps, MaturedType, ExpiredType
<1>3. ready \in Seq(Messages)
  BY DEF TypeOK
<1>4. avail \in Seq(Messages)
  BY <1>1, <1>2, <1>3
<1> QED
  BY <1>4

(* Collect keeps the type of every variable it changes. *)
LEMMA CollectType ==
    ASSUME TypeOK, NEW avail \in Available, NEW n \in 0..Len(avail),
           NEW vis \in Nat, Collect(avail, n, vis)
    PROVE  /\ ready' \in Seq(Messages)
           /\ delayed' \subseteq [value : Messages, left : Nat]
           /\ inflight' \subseteq Handles
           /\ visHeap' \subseteq [value : Handles, left : Nat]
           /\ visDeadline' \in [Messages -> Nat]
           /\ receiveCount' \in [Messages -> Nat]
           /\ redriven' \in [Messages -> Nat]
           /\ delayTimer' \in Nat \cup {Off}
           /\ visTimer' \in Nat \cup {Off}
           /\ UNCHANGED <<dlqMax, bg, closed, fate>>
<1> DEFINE issued == {Handle(m, receiveCount[m] + 1) : m \in Delivered(avail, n)}
<1>1. /\ avail \in Seq(Messages)
      /\ Len(avail) \in Nat
      /\ \A i \in 1..Len(avail) : avail[i] \in Messages
  BY AvailableType
<1>2. Delivered(avail, n) \subseteq Messages
  BY <1>1 DEF Delivered, Popped
<1>3. issued \subseteq Handles
  BY <1>2 DEF TypeOK, Handles, Handle
<1>4. ready' \in Seq(Messages)
  <2>1. ready' = SubSeq(avail, n + 1, Len(avail))
    BY DEF Collect
  <2> QED
    BY <1>1, <2>1
<1>5. delayed' \subseteq [value : Messages, left : Nat]
  BY DEF Collect, TypeOK
<1>6. inflight' \subseteq Handles
  BY <1>3 DEF Collect, TypeOK
<1>7. visHeap' \subseteq [value : Handles, left : Nat]
  <2>1. \A h \in issued : Entry(h, vis) \in [value : Handles, left : Nat]
    BY <1>3 DEF Entry
  <2>2. visHeap' = (visHeap \ Due(visHeap)) \cup {Entry(h, vis) : h \in issued}
    BY DEF Collect
  <2> QED
    BY <2>1, <2>2 DEF TypeOK
<1>8. /\ visDeadline' \in [Messages -> Nat]
      /\ receiveCount' \in [Messages -> Nat]
      /\ redriven' \in [Messages -> Nat]
  BY DEF Collect, TypeOK
<1>9. delayTimer' \in Nat \cup {Off} /\ visTimer' \in Nat \cup {Off}
  <2>1. delayTimer' \in ResetTimer(delayed') /\ visTimer' \in ResetTimer(visHeap')
    BY DEF Collect
  <2>2. /\ \A e \in delayed' : e.left \in Nat
        /\ \A e \in visHeap' : e.left \in Nat
    BY <1>5, <1>7
  <2> QED
    BY <2>1, <2>2, ResetTimerProps
<1>10. UNCHANGED <<dlqMax, bg, closed, fate>>
  BY DEF Collect, loop
<1> QED
  BY <1>4, <1>5, <1>6, <1>7, <1>8, <1>9, <1>10

(* Waking waiters, and letting time pass, keep the polls' type. *)
CallType == [Consumers -> [state : {"idle", "parked", "signalled"},
                           left : Nat, max : Nat, vis : Nat]]

LEMMA SignalWaitersType ==
    call \in CallType => SignalWaiters(call) \in CallType
BY DEF CallType, SignalWaiters

(* Elapse keeps a timer a timer and a deadline a deadline. *)
LEMMA ElapseType ==
    ASSUME NEW t \in Nat \cup {Off}
    PROVE  /\ Elapse(t) \in Nat \cup {Off}
           /\ t \in Nat => Elapse(t) \in Nat
BY DEF Elapse, Off

(* NewStandardQueue gives every field its type ... *)
LEMMA TypeOKInit == Init => TypeOK
<1> SUFFICES ASSUME Init PROVE TypeOK
  OBVIOUS
<1>1. ready \in Seq(Messages)
  BY DEF Init
<1>2. call \in CallType
  BY DEF Init, Idle, CallType
<1> QED
  BY <1>1, <1>2 DEF Init, TypeOK, CallType, Off

(* ... and every action keeps it. *)
LEMMA TypeOKStep == TypeOK /\ [Next]_vars => TypeOK'
<1> SUFFICES ASSUME TypeOK, [Next]_vars PROVE TypeOK'
  OBVIOUS
<1> USE ParametersAssumption
<1>1. ASSUME NEW m \in Messages, SendNow(m) PROVE TypeOK'
  <2>1. call' \in CallType
    BY <1>1, SignalWaitersType DEF SendNow, TypeOK, CallType
  <2>2. ready' \in Seq(Messages)
    BY <1>1 DEF SendNow, TypeOK
  <2> QED
    BY <1>1, <2>1, <2>2
    DEF SendNow, TypeOK, CallType, counts, dlq, timers, loop
<1>2. ASSUME NEW m \in Messages, NEW d \in Delays, SendDelayed(m, d)
      PROVE TypeOK'
  <2>1. delayed' \subseteq [value : Messages, left : Nat]
    BY <1>2 DEF SendDelayed, TypeOK, Entry
  <2>2. delayTimer' \in Nat \cup {Off}
    BY <1>2, <2>1, ResetTimerProps DEF SendDelayed
  <2> QED
    BY <1>2, <2>1, <2>2 DEF SendDelayed, TypeOK, counts, dlq, loop
<1>3. ASSUME NEW c \in Consumers, NEW k \in Batches, NEW v \in Timeouts,
             NEW w \in Waits, Receive(c, k, v, w)
      PROVE TypeOK'
  <2>. PICK avail \in Available :
          \E n \in PopCounts(avail, k) : Collect(avail, n, v)
    BY <1>3 DEF Receive
  <2>1. PICK n \in PopCounts(avail, k) : Collect(avail, n, v)
    OBVIOUS
  <2>2. n \in 0..Len(avail)
    BY DEF PopCounts
  <2>3. call' \in CallType
    <3>1. call' = call
          \/ call' = [call EXCEPT ![c] = [state |-> "parked", left |-> w,
                                          max |-> k, vis |-> v]]
      BY <1>3 DEF Receive
    <3>2. k \in Nat /\ v \in Nat /\ w \in Nat
      OBVIOUS
    <3> QED
      BY <3>1, <3>2 DEF TypeOK, CallType
  <2> QED
    BY <2>1, <2>2, <2>3, CollectType DEF TypeOK, CallType
<1>4. ASSUME NEW c \in Consumers, Resume(c) PROVE TypeOK'
  <2>. PICK avail \in Available :
          \E n \in PopCounts(avail, call[c].max) : Collect(avail, n, call[c].vis)
    BY <1>4 DEF Resume
  <2>1. PICK n \in PopCounts(avail, call[c].max) : Collect(avail, n, call[c].vis)
    OBVIOUS
  <2>2. n \in 0..Len(avail) /\ call[c].vis \in Nat
    BY DEF PopCounts, TypeOK
  <2>3. call' \in CallType
    BY <1>4 DEF Resume, TypeOK, CallType, Idle
  <2> QED
    BY <2>1, <2>2, <2>3, CollectType DEF TypeOK, CallType
<1>5. ASSUME NEW c \in Consumers, Abort(c) PROVE TypeOK'
  <2>1. call' \in CallType
    BY <1>5 DEF Abort, TypeOK, CallType, Idle
  <2> QED
    BY <1>5, <2>1
    DEF Abort, TypeOK, CallType, buffers, counts, dlq, timers, loop
<1>6. ASSUME NEW h \in inflight, Delete(h) PROVE TypeOK'
  BY <1>6 DEF Delete, TypeOK, Handles, RemoveByValue, counts, dlq, timers, loop
<1>7. ASSUME NEW h \in inflight, Release(h) PROVE TypeOK'
  <2>1. call' \in CallType
    BY <1>7, SignalWaitersType DEF Release, TypeOK, CallType
  <2>2. ready' \in Seq(Messages)
    BY <1>7 DEF Release, TypeOK, Handles
  <2> QED
    BY <1>7, <2>1, <2>2
    DEF Release, TypeOK, CallType, RemoveByValue, counts, dlq, timers, loop
<1>8. ASSUME NEW h \in inflight, NEW t \in Extensions, Extend(h, t)
      PROVE TypeOK'
  <2>1. visHeap' \subseteq [value : Handles, left : Nat]
    BY <1>8 DEF Extend, TypeOK, RemoveByValue, Entry
  <2>2. visTimer' \in Nat \cup {Off}
    BY <1>8, <2>1, ResetTimerProps DEF Extend
  <2>3. visDeadline' \in [Messages -> Nat]
    BY <1>8 DEF Extend, TypeOK
  <2> QED
    BY <1>8, <2>1, <2>2, <2>3 DEF Extend, TypeOK, dlq, loop
<1>9. CASE Purge
  BY <1>9 DEF Purge, TypeOK, counts, dlq, timers, loop
<1>10. ASSUME NEW p \in Policies, SetDLQ(p) PROVE TypeOK'
  BY <1>10 DEF SetDLQ, TypeOK, buffers, counts, timers, loop
<1>11. CASE Close
  BY <1>11 DEF Close, TypeOK, buffers, counts, dlq, timers
<1>12. CASE DelayTick
  BY <1>12 DEF DelayTick, TypeOK, Off, buffers, counts, dlq
<1>13. CASE VisTick
  BY <1>13 DEF VisTick, TypeOK, Off, buffers, counts, dlq
<1>14. CASE MatureDelayed
  <2>1. ready' \in Seq(Messages)
    <3>1. PICK m \in Orders(Matured) : ready' = ready \o m
      BY <1>14 DEF MatureDelayed
    <3>2. m \in Seq(Messages)
      BY OrdersProps, MaturedType
    <3> QED
      BY <3>1, <3>2 DEF TypeOK
  <2>2. delayed' \subseteq [value : Messages, left : Nat]
    BY <1>14 DEF MatureDelayed, TypeOK
  <2>3. delayTimer' \in Nat \cup {Off}
    BY <1>14, <2>2, ResetTimerProps DEF MatureDelayed
  <2>4. call' \in CallType
    BY <1>14, SignalWaitersType DEF MatureDelayed, TypeOK, CallType
  <2> QED
    BY <1>14, <2>1, <2>2, <2>3, <2>4
    DEF MatureDelayed, TypeOK, CallType, counts, dlq
<1>15. CASE ReclaimExpired
  <2>1. ready' \in Seq(Messages)
    <3>1. PICK r \in Orders(Returned) : ready' = ready \o r
      BY <1>15 DEF ReclaimExpired
    <3>2. r \in Seq(Messages)
      BY OrdersProps, ExpiredType
    <3> QED
      BY <3>1, <3>2 DEF TypeOK
  <2>2. inflight' \subseteq Handles /\ visHeap' \subseteq [value : Handles, left : Nat]
    BY <1>15 DEF ReclaimExpired, TypeOK
  <2>3. redriven' \in [Messages -> Nat]
    BY <1>15 DEF ReclaimExpired, TypeOK
  <2>4. visTimer' \in Nat \cup {Off}
    BY <1>15, <2>2, ResetTimerProps DEF ReclaimExpired
  <2>5. call' \in CallType
    BY <1>15, SignalWaitersType DEF ReclaimExpired, TypeOK, CallType
  <2> QED
    BY <1>15, <2>1, <2>2, <2>3, <2>4, <2>5
    DEF ReclaimExpired, TypeOK, CallType, counts
<1>16. CASE StopLoop
  BY <1>16 DEF StopLoop, TypeOK, buffers, counts, dlq, timers
<1>17. CASE Tick
  <2>1. /\ delayed' \subseteq [value : Messages, left : Nat]
        /\ visHeap' \subseteq [value : Handles, left : Nat]
    BY <1>17, ElapseType DEF Tick, TypeOK, ElapseHeap, Entry
  <2>2. /\ visDeadline' \in [Messages -> Nat]
        /\ delayTimer' \in Nat \cup {Off}
        /\ visTimer' \in Nat \cup {Off}
    BY <1>17, ElapseType DEF Tick, TypeOK
  <2>3. call' \in CallType
    <3>1. \A c \in Consumers : Elapse(call[c].left) \in Nat
      <4> TAKE c \in Consumers
      <4>1. call[c].left \in Nat
        BY DEF TypeOK
      <4> QED
        BY <4>1, ElapseType
    <3> QED
      BY <1>17, <3>1 DEF Tick, TypeOK, CallType
  <2> QED
    BY <1>17, <2>1, <2>2, <2>3 DEF Tick, TypeOK, CallType, dlq, loop
<1>18. CASE UNCHANGED vars
  BY <1>18 DEF vars, TypeOK, buffers, counts, dlq, timers, loop
<1> QED
  BY <1>1, <1>2, <1>3, <1>4, <1>5, <1>6, <1>7, <1>8, <1>9, <1>10, <1>11, <1>12,
     <1>13, <1>14, <1>15, <1>16, <1>17, <1>18
  DEF Next, Client, Background

(* TypeOK is an invariant: every field of the queue keeps its type, for    *)
(* any messages, consumers and parameters.                                 *)
THEOREM TypeCorrect == Spec => []TypeOK
<1> QED
  BY TypeOKInit, TypeOKStep, PTL DEF Spec

-----------------------------------------------------------------------------
(* A timer that is armed in time stays so while time passes. *)
LEMMA ElapseKeepsOrder ==
    ASSUME NEW t \in Nat, NEW u \in Nat, t <= u
    PROVE  Elapse(t) <= Elapse(u)
BY DEF Elapse

(* The same of a timer and all the entries of its heap. *)
LEMMA ElapseKeepsArmed ==
    ASSUME NEW t \in Nat \cup {Off}, NEW heap,
           \A e \in heap : e.left \in Nat,
           Armed(t, heap)
    PROVE  Armed(Elapse(t), ElapseHeap(heap))
<1>1. t \in Nat
  BY DEF Armed
<1>2. Elapse(t) # Off
  BY <1>1, ElapseType DEF Off
<1>3. ASSUME NEW e \in ElapseHeap(heap) PROVE Elapse(t) <= e.left
  <2>1. PICK f \in heap : e = Entry(f.value, Elapse(f.left))
    BY DEF ElapseHeap
  <2>2. Elapse(t) <= Elapse(f.left)
    BY <1>1, ElapseKeepsOrder DEF Armed
  <2> QED
    BY <2>1, <2>2 DEF Entry
<1> QED
  BY <1>2, <1>3 DEF Armed

(* Each action that changes a heap or takes a tick keeps the heap watched. *)
LEMMA TimersArmedStep ==
    TypeOK /\ TypeOK' /\ TimersArmed /\ [Next]_vars => TimersArmed'
<1> SUFFICES ASSUME TypeOK, TypeOK', TimersArmed, [Next]_vars
             PROVE  TimersArmed'
  OBVIOUS
<1> DEFINE Lefts(heap) == \A e \in heap : e.left \in Nat
<1>a. Lefts(delayed) /\ Lefts(visHeap) /\ Lefts(delayed') /\ Lefts(visHeap')
  BY DEF TypeOK
<1>b. ASSUME delayTimer' \in ResetTimer(delayed')
      PROVE  delayed' # {} => Armed(delayTimer', delayed')
  BY <1>a, <1>b, ResetTimerProps
<1>c. ASSUME visTimer' \in ResetTimer(visHeap')
      PROVE  visHeap' # {} => Armed(visTimer', visHeap')
  BY <1>a, <1>c, ResetTimerProps
<1>1. ASSUME NEW m \in Messages, SendNow(m) PROVE TimersArmed'
  BY <1>1 DEF SendNow, TimersArmed, timers, loop
<1>2. ASSUME NEW m \in Messages, NEW d \in Delays, SendDelayed(m, d)
      PROVE TimersArmed'
  BY <1>2, <1>b DEF SendDelayed, TimersArmed, loop
<1>3. ASSUME NEW c \in Consumers, NEW k \in Batches, NEW v \in Timeouts,
             NEW w \in Waits, Receive(c, k, v, w)
      PROVE TimersArmed'
  <2>1. delayTimer' \in ResetTimer(delayed') /\ visTimer' \in ResetTimer(visHeap')
    BY <1>3 DEF Receive, Collect
  <2> QED
    BY <2>1, <1>b, <1>c DEF TimersArmed
<1>4. ASSUME NEW c \in Consumers, Resume(c) PROVE TimersArmed'
  <2>1. delayTimer' \in ResetTimer(delayed') /\ visTimer' \in ResetTimer(visHeap')
    BY <1>4 DEF Resume, Collect
  <2> QED
    BY <2>1, <1>b, <1>c DEF TimersArmed
<1>5. ASSUME NEW c \in Consumers, Abort(c) PROVE TimersArmed'
  BY <1>5 DEF Abort, TimersArmed, buffers, timers, loop
<1>6. ASSUME NEW h \in inflight, Delete(h) PROVE TimersArmed'
  BY <1>6 DEF Delete, TimersArmed, RemoveByValue, timers, loop
<1>7. ASSUME NEW h \in inflight, Release(h) PROVE TimersArmed'
  BY <1>7 DEF Release, TimersArmed, RemoveByValue, timers, loop
<1>8. ASSUME NEW h \in inflight, NEW t \in Extensions, Extend(h, t)
      PROVE TimersArmed'
  BY <1>8, <1>c DEF Extend, TimersArmed, loop
<1>9. CASE Purge
  BY <1>9 DEF Purge, TimersArmed, loop
<1>10. ASSUME NEW p \in Policies, SetDLQ(p) PROVE TimersArmed'
  BY <1>10 DEF SetDLQ, TimersArmed, buffers, timers, loop
<1>11. CASE Close
  BY <1>11 DEF Close, TimersArmed, buffers, timers
<1>12. CASE DelayTick
  BY <1>12 DEF DelayTick, TimersArmed, buffers
<1>13. CASE VisTick
  BY <1>13 DEF VisTick, TimersArmed, buffers
<1>14. CASE MatureDelayed
  BY <1>14, <1>b DEF MatureDelayed, TimersArmed
<1>15. CASE ReclaimExpired
  BY <1>15, <1>c DEF ReclaimExpired, TimersArmed
<1>16. CASE StopLoop
  BY <1>16 DEF StopLoop, TimersArmed
<1>17. CASE Tick
  <2>1. /\ delayed' = ElapseHeap(delayed) /\ delayTimer' = Elapse(delayTimer)
        /\ visHeap' = ElapseHeap(visHeap) /\ visTimer' = Elapse(visTimer)
        /\ bg' = bg
    BY <1>17 DEF Tick, loop
  <2>2. delayTimer \in Nat \cup {Off} /\ visTimer \in Nat \cup {Off}
    BY DEF TypeOK
  <2>3. (delayed' # {} => delayed # {}) /\ (visHeap' # {} => visHeap # {})
    BY <2>1 DEF ElapseHeap
  <2>4. Armed(delayTimer, delayed) => Armed(delayTimer', delayed')
    BY <2>1, <2>2, <1>a, ElapseKeepsArmed
  <2>5. Armed(visTimer, visHeap) => Armed(visTimer', visHeap')
    BY <2>1, <2>2, <1>a, ElapseKeepsArmed
  <2> QED
    BY <2>1, <2>3, <2>4, <2>5 DEF TimersArmed
<1>18. CASE UNCHANGED vars
  BY <1>18 DEF vars, TimersArmed, buffers, timers, loop
<1> QED
  BY <1>1, <1>2, <1>3, <1>4, <1>5, <1>6, <1>7, <1>8, <1>9, <1>10, <1>11, <1>12,
     <1>13, <1>14, <1>15, <1>16, <1>17, <1>18
  DEF Next, Client, Background

(* A deadline is never left without a timer while backgroundLoop runs:     *)
(* whichever of the clients and the loop resets a timer last, its heap has *)
(* a timer armed for its first deadline or a tick the loop has taken.      *)
THEOREM DeadlinesAreWatched == Spec => []TimersArmed
<1>1. Init => TimersArmed
  BY DEF Init, TimersArmed
<1> QED
  BY <1>1, TimersArmedStep, TypeCorrect, PTL DEF Spec

-----------------------------------------------------------------------------
(* Sequences without repetition, and what the ring buffer does to them. *)
Once(s) == \A i, j \in 1..Len(s) : s[i] = s[j] => i = j

(* The elements of a sequence, by index. *)
LEMMA ToSetOfSeq ==
    ASSUME NEW S, NEW s \in Seq(S)
    PROVE  /\ Len(s) \in Nat
           /\ ToSet(s) = {s[i] : i \in 1..Len(s)}
           /\ ToSet(s) \subseteq S
BY DEF ToSet

(* Pushing one new element. *)
LEMMA AppendOnce ==
    ASSUME NEW S, NEW s \in Seq(S), Once(s), NEW x \in S, x \notin ToSet(s)
    PROVE  /\ Once(Append(s, x))
           /\ ToSet(Append(s, x)) = ToSet(s) \cup {x}
<1> DEFINE t == Append(s, x)
<1>1. /\ Len(s) \in Nat /\ Len(t) = Len(s) + 1
      /\ t[Len(s) + 1] = x
      /\ \A i \in 1..Len(s) : t[i] = s[i] /\ s[i] \in ToSet(s)
  BY ToSetOfSeq
<1>2. t \in Seq(S)
  OBVIOUS
<1>3. ToSet(t) = {t[i] : i \in 1..Len(t)} /\ ToSet(s) = {s[i] : i \in 1..Len(s)}
  BY <1>2, ToSetOfSeq
<1> HIDE DEF t
<1>4. ToSet(t) = ToSet(s) \cup {x}
  <2>1. \A i \in 1..Len(t) : i \in 1..Len(s) \/ i = Len(s) + 1
    BY <1>1
  <2>2. 1..Len(s) \subseteq 1..Len(t) /\ Len(s) + 1 \in 1..Len(t)
    BY <1>1
  <2> QED
    BY <2>1, <2>2, <1>1, <1>3
<1>5. Once(t)
  BY <1>1 DEF Once
<1> QED
  BY <1>4, <1>5 DEF t

(* Pushing a sequence of new elements. *)
LEMMA ConcatOnce ==
    ASSUME NEW S, NEW s \in Seq(S), NEW t \in Seq(S), Once(s), Once(t),
           ToSet(s) \cap ToSet(t) = {}
    PROVE  /\ s \o t \in Seq(S)
           /\ Once(s \o t)
           /\ ToSet(s \o t) = ToSet(s) \cup ToSet(t)
<1> DEFINE u == s \o t
<1>1. u \in Seq(S)
  OBVIOUS
<1>2. /\ Len(s) \in Nat /\ Len(t) \in Nat /\ Len(u) = Len(s) + Len(t)
      /\ \A i \in 1..Len(s) : u[i] = s[i]
      /\ \A i \in 1..Len(u) : i > Len(s) => u[i] = t[i - Len(s)]
  BY ToSetOfSeq
<1> HIDE DEF u
<1>3. /\ ToSet(u) = {u[i] : i \in 1..Len(u)}
      /\ ToSet(s) = {s[i] : i \in 1..Len(s)}
      /\ ToSet(t) = {t[i] : i \in 1..Len(t)}
  <2>1. ToSet(u) = {u[i] : i \in 1..Len(u)}
    BY <1>1, ToSetOfSeq
  <2> QED
    BY <2>1, ToSetOfSeq
<1>4. ToSet(u) \subseteq ToSet(s) \cup ToSet(t)
  <2>1. \A i \in 1..Len(u) : i \in 1..Len(s) \/ i - Len(s) \in 1..Len(t)
    BY <1>2
  <2> QED
    BY <2>1, <1>2, <1>3
<1>5. ToSet(s) \cup ToSet(t) \subseteq ToSet(u)
  <2>1. \A i \in 1..Len(s) : i \in 1..Len(u)
    BY <1>2
  <2>2. \A i \in 1..Len(t) : i + Len(s) \in 1..Len(u) /\ u[i + Len(s)] = t[i]
    BY <1>2
  <2> QED
    BY <2>1, <2>2, <1>2, <1>3
<1>6. Once(u)
  <2> SUFFICES ASSUME NEW i \in 1..Len(u), NEW j \in 1..Len(u), u[i] = u[j]
               PROVE  i = j
    BY DEF Once
  <2>1. CASE i \in 1..Len(s) /\ j \in 1..Len(s)
    BY <2>1, <1>2 DEF Once
  <2>2. CASE i > Len(s) /\ j > Len(s)
    <3>1. i - Len(s) \in 1..Len(t) /\ j - Len(s) \in 1..Len(t)
      BY <2>2, <1>2
    <3>2. t[i - Len(s)] = t[j - Len(s)]
      BY <2>2, <1>2
    <3>3. i - Len(s) = j - Len(s)
      BY <3>1, <3>2 DEF Once
    <3> QED
      BY <3>3, <1>2
  <2>3. CASE i \in 1..Len(s) /\ j > Len(s)
    <3>1. u[i] \in ToSet(s) /\ j - Len(s) \in 1..Len(t)
      BY <2>3, <1>2, <1>3
    <3>2. u[j] \in ToSet(t)
      BY <3>1, <2>3, <1>2, <1>3
    <3> QED
      BY <3>1, <3>2
  <2>4. CASE j \in 1..Len(s) /\ i > Len(s)
    <3>1. u[j] \in ToSet(s) /\ i - Len(s) \in 1..Len(t)
      BY <2>4, <1>2, <1>3
    <3>2. u[i] \in ToSet(t)
      BY <3>1, <2>4, <1>2, <1>3
    <3> QED
      BY <3>1, <3>2
  <2> QED
    BY <2>1, <2>2, <2>3, <2>4, <1>2
<1> QED
  BY <1>1, <1>4, <1>5, <1>6 DEF u

(* Popping the first n elements. *)
LEMMA PopOnce ==
    ASSUME NEW S, NEW s \in Seq(S), Once(s), NEW n \in 0..Len(s)
    PROVE  LET t == SubSeq(s, n + 1, Len(s))
           IN  /\ t \in Seq(S)
               /\ Once(t)
               /\ ToSet(t) = ToSet(s) \ Popped(s, n)
               /\ Popped(s, n) \subseteq ToSet(s)
<1> DEFINE t == SubSeq(s, n + 1, Len(s))
<1>1. t \in Seq(S)
  OBVIOUS
<1>2. /\ Len(s) \in Nat /\ n \in Nat /\ Len(t) = Len(s) - n
      /\ \A i \in 1..Len(t) : t[i] = s[i + n]
  BY ToSetOfSeq
<1> HIDE DEF t
<1>3. ToSet(t) = {t[i] : i \in 1..Len(t)} /\ ToSet(s) = {s[i] : i \in 1..Len(s)}
  <2>1. ToSet(t) = {t[i] : i \in 1..Len(t)}
    BY <1>1, ToSetOfSeq
  <2> QED
    BY <2>1, ToSetOfSeq
<1>4. Popped(s, n) = {s[i] : i \in 1..n} /\ 1..n \subseteq 1..Len(s)
  BY <1>2 DEF Popped
<1>5. Once(t)
  <2> SUFFICES ASSUME NEW i \in 1..Len(t), NEW j \in 1..Len(t), t[i] = t[j]
               PROVE  i = j
    BY DEF Once
  <2>1. i + n \in 1..Len(s) /\ j + n \in 1..Len(s) /\ s[i + n] = s[j + n]
    BY <1>2
  <2>2. i + n = j + n
    BY <2>1 DEF Once
  <2> QED
    BY <2>2, <1>2
<1>6. ToSet(t) \subseteq ToSet(s) \ Popped(s, n)
  <2> SUFFICES ASSUME NEW i \in 1..Len(t)
               PROVE  t[i] \in ToSet(s) /\ t[i] \notin Popped(s, n)
    BY <1>3
  <2>1. i + n \in 1..Len(s) /\ t[i] = s[i + n] /\ i + n > n
    BY <1>2
  <2>2. \A j \in 1..n : s[j] = s[i + n] => j = i + n
    BY <2>1, <1>4 DEF Once
  <2> QED
    BY <2>1, <2>2, <1>2, <1>3, <1>4
<1>7. ToSet(s) \ Popped(s, n) \subseteq ToSet(t)
  <2> SUFFICES ASSUME NEW i \in 1..Len(s), s[i] \notin Popped(s, n)
               PROVE  s[i] \in ToSet(t)
    BY <1>3
  <2>1. i \notin 1..n
    BY <1>4
  <2>2. i - n \in 1..Len(t) /\ t[i - n] = s[i]
    BY <2>1, <1>2
  <2> QED
    BY <2>2, <1>3
<1> QED
  BY <1>1, <1>3, <1>4, <1>5, <1>6, <1>7 DEF t

-----------------------------------------------------------------------------
(* The inductive invariant behind ExactlyOnePlace.  A message can be       *)
(* returned under the wrong handle only if a stale heap entry names a      *)
(* handle in flight before its deadline, so where a message is and which   *)
(* handle holds it must be proved together.                                *)
PlaceInv == TypeOK /\ ExactlyOnePlace /\ InflightHasDeadline

(* Messages whose visibility deadline has passed. *)
ExpiredMessages == Returned \cup RedrivenAtReclaim

(* What is popped from the heaps, in terms of the messages. *)
LEMMA PoppedFromHeaps ==
    ASSUME PlaceInv
    PROVE  /\ \A m \in Matured : InDelayed(m)
           /\ \A d \in delayed : d \in Due(delayed) <=> d.value \in Matured
           /\ \A m \in ExpiredMessages : InFlight(m)
           /\ \A h \in inflight : h \in Expired <=> h.msg \in ExpiredMessages
           /\ Returned \cap RedrivenAtReclaim = {}
<1> USE DEF PlaceInv
<1>1. \A m \in Matured : InDelayed(m)
  BY DEF Matured, Values, Due, InDelayed
<1>2. \A d \in delayed : d \in Due(delayed) <=> d.value \in Matured
  BY DEF Matured, Values, Due, ExactlyOnePlace, OncePerContainer
<1>3. \A m \in ExpiredMessages : \E h \in Expired : h.msg = m
  BY DEF ExpiredMessages, Returned, RedrivenAtReclaim
<1>4. \A h \in Expired : h \in inflight /\ h.msg \in ExpiredMessages
  BY DEF Expired, ExpiredMessages, Returned, RedrivenAtReclaim
<1>5. \A m \in ExpiredMessages : InFlight(m)
  BY <1>3, <1>4 DEF InFlight
<1>6. \A h \in inflight : h \in Expired <=> h.msg \in ExpiredMessages
  BY <1>3, <1>4 DEF ExactlyOnePlace, OncePerContainer
<1>7. Returned \cap RedrivenAtReclaim = {}
  BY DEF Returned, RedrivenAtReclaim, SpentAtReclaim
<1> QED
  BY <1>1, <1>2, <1>5, <1>6, <1>7

(* The ring buffer a receive pops from repeats no message. *)
LEMMA AvailableOnce ==
    ASSUME PlaceInv, NEW avail \in Available
    PROVE  /\ avail \in Seq(Messages)
           /\ Once(avail)
           /\ ToSet(avail) = ToSet(ready) \cup Matured \cup Returned
<1> USE DEF PlaceInv
<1>1. PICK m \in Orders(Matured), r \in Orders(Returned) :
          avail = ready \o m \o r
  BY DEF Available
<1>2. /\ m \in Seq(Messages) /\ Once(m) /\ ToSet(m) = Matured
      /\ r \in Seq(Messages) /\ Once(r) /\ ToSet(r) = Returned
  BY OrdersProps, MaturedType, ExpiredType DEF Once
<1>3. ready \in Seq(Messages) /\ Once(ready)
  BY DEF TypeOK, ExactlyOnePlace, OncePerContainer, Once
<1>4. \A x \in Messages : OneContainer(x)
  BY DEF ExactlyOnePlace
<1>5. /\ \A x \in Matured : InDelayed(x) /\ x \in Messages
      /\ \A x \in Returned : InFlight(x) /\ x \in Messages
  BY PoppedFromHeaps, MaturedType, ExpiredType DEF ExpiredMessages
<1>6. /\ ToSet(ready) \cap Matured = {}
      /\ ToSet(ready) \cap Returned = {}
      /\ Matured \cap Returned = {}
  BY <1>4, <1>5 DEF OneContainer, InReady
<1> DEFINE w == ready \o m
<1>7. w \in Seq(Messages) /\ Once(w) /\ ToSet(w) = ToSet(ready) \cup Matured
  BY <1>2, <1>3, <1>6, ConcatOnce
<1>8. avail = w \o r
  BY <1>1
<1> HIDE DEF w
<1>9. ToSet(w) \cap ToSet(r) = {}
  BY <1>2, <1>6, <1>7
<1>10. /\ w \o r \in Seq(Messages) /\ Once(w \o r)
       /\ ToSet(w \o r) = ToSet(w) \cup ToSet(r)
  BY <1>2, <1>7, <1>9, ConcatOnce
<1> QED
  BY <1>2, <1>7, <1>8, <1>10

(* Where each message is after Collect, in terms of where it was. *)
LEMMA CollectMoves ==
    ASSUME PlaceInv, NEW avail \in Available, NEW n \in 0..Len(avail),
           NEW vis \in Nat, Collect(avail, n, vis)
    PROVE  /\ Once(ready')
           /\ \A m : InReady(m)' <=>
                  /\ InReady(m) \/ m \in Matured \/ m \in Returned
                  /\ m \notin Popped(avail, n)
           /\ \A m \in Popped(avail, n) :
                  InReady(m) \/ m \in Matured \/ m \in Returned
           /\ Popped(avail, n) =
                  Delivered(avail, n) \cup RedrivenAtCollect(avail, n)
           /\ Delivered(avail, n) \cap RedrivenAtCollect(avail, n) = {}
           /\ \A m : InDelayed(m)' <=> InDelayed(m) /\ m \notin Matured
           /\ \A m : InFlight(m)' <=>
                  \/ InFlight(m) /\ m \notin ExpiredMessages
                  \/ m \in Delivered(avail, n)
<1> USE DEF PlaceInv
<1> DEFINE P == Popped(avail, n)
           D == Delivered(avail, n)
<1>1. /\ avail \in Seq(Messages) /\ Once(avail)
      /\ ToSet(avail) = ToSet(ready) \cup Matured \cup Returned
  BY AvailableOnce
<1>2. ready' = SubSeq(avail, n + 1, Len(avail))
  BY DEF Collect
<1>3. Once(ready') /\ ToSet(ready') = ToSet(avail) \ P /\ P \subseteq ToSet(avail)
  BY <1>1, <1>2, PopOnce
<1>4. P = D \cup RedrivenAtCollect(avail, n) /\ D \cap RedrivenAtCollect(avail, n) = {}
  BY DEF Delivered, RedrivenAtCollect
<1>5. \A m : InDelayed(m)' <=> InDelayed(m) /\ m \notin Matured
  <2>1. delayed' = delayed \ Due(delayed)
    BY DEF Collect
  <2>2. \A d \in delayed : d \in Due(delayed) <=> d.value \in Matured
    BY PoppedFromHeaps
  <2> QED
    BY <2>1, <2>2 DEF InDelayed
<1>6. \A m : InFlight(m)' <=> (InFlight(m) /\ m \notin ExpiredMessages) \/ m \in D
  <2>1. inflight' = (inflight \ Expired)
                       \cup {Handle(m, receiveCount[m] + 1) : m \in D}
    BY DEF Collect
  <2>2. \A h \in inflight : h \in Expired <=> h.msg \in ExpiredMessages
    BY PoppedFromHeaps
  <2>3. \A m : Handle(m, receiveCount[m] + 1).msg = m
    BY DEF Handle
  <2> QED
    BY <2>1, <2>2, <2>3 DEF InFlight
<1> QED
  BY <1>1, <1>3, <1>4, <1>5, <1>6 DEF InReady

(* Collect redrives no message twice. *)
LEMMA CollectRedrives ==
    ASSUME PlaceInv, NEW avail \in Available, NEW n \in 0..Len(avail),
           NEW vis \in Nat, Collect(avail, n, vis)
    PROVE  \A m \in Messages :
              /\ redriven'[m] <= 1
              /\ InDLQ(m)' <=>
                    \/ InDLQ(m)
                    \/ m \in RedrivenAtReclaim \cup RedrivenAtCollect(avail, n)
<1> USE DEF PlaceInv
<1> DEFINE R == RedrivenAtReclaim \cup RedrivenAtCollect(avail, n)
<1> SUFFICES ASSUME NEW m \in Messages
             PROVE  redriven'[m] <= 1 /\ (redriven'[m] > 0 <=>
                        redriven[m] > 0 \/ m \in R)
  BY DEF InDLQ
<1>1. redriven[m] \in Nat /\ redriven[m] <= 1 /\ OneContainer(m)
  BY DEF TypeOK, ExactlyOnePlace, OncePerContainer
<1>2. m \in R => InReady(m) \/ InDelayed(m) \/ InFlight(m)
  <2>1. m \in RedrivenAtCollect(avail, n) =>
            InReady(m) \/ m \in Matured \/ m \in Returned
    BY CollectMoves DEF RedrivenAtCollect
  <2> QED
    BY <2>1, PoppedFromHeaps DEF ExpiredMessages
<1>3. m \in R => redriven[m] = 0
  BY <1>1, <1>2 DEF OneContainer, InDLQ
<1>4. redriven'[m] = IF m \in R THEN redriven[m] + 1 ELSE redriven[m]
  BY DEF Collect
<1> QED
  BY <1>1, <1>3, <1>4

(* A receive keeps every message in one place, under its latest handle. *)
LEMMA CollectKeepsPlaces ==
    ASSUME PlaceInv, NEW avail \in Available, NEW n \in 0..Len(avail),
           NEW vis \in Nat, Collect(avail, n, vis)
    PROVE  ExactlyOnePlace' /\ InflightHasDeadline'
<1> USE DEF PlaceInv
<1> DEFINE P == Popped(avail, n)
           D == Delivered(avail, n)
           RC == RedrivenAtCollect(avail, n)
           issued == {Handle(m, receiveCount[m] + 1) : m \in D}
<1>1. /\ Once(ready')
      /\ \A m : InReady(m)' <=>
             (InReady(m) \/ m \in Matured \/ m \in Returned) /\ m \notin P
      /\ \A m \in P : InReady(m) \/ m \in Matured \/ m \in Returned
      /\ P = D \cup RC
      /\ D \cap RC = {}
      /\ \A m : InDelayed(m)' <=> InDelayed(m) /\ m \notin Matured
      /\ \A m : InFlight(m)' <=>
             (InFlight(m) /\ m \notin ExpiredMessages) \/ m \in D
  BY CollectMoves
<1>2. /\ \A m \in Matured : InDelayed(m)
      /\ \A m \in ExpiredMessages : InFlight(m)
      /\ \A h \in inflight : h \in Expired <=> h.msg \in ExpiredMessages
      /\ Returned \cap RedrivenAtReclaim = {}
  BY PoppedFromHeaps
<1>3. P \subseteq Messages /\ D \subseteq P
  <2>1. avail \in Seq(Messages)
    BY AvailableType
  <2> QED
    BY <2>1 DEF Popped, Delivered
<1>4. /\ receiveCount' = [m \in Messages |->
             IF m \in P THEN receiveCount[m] + 1 ELSE receiveCount[m]]
      /\ redriven' = [m \in Messages |->
             IF m \in RedrivenAtReclaim \cup RC THEN redriven[m] + 1
             ELSE redriven[m]]
      /\ inflight' = (inflight \ Expired) \cup issued
      /\ visHeap' = (visHeap \ Due(visHeap)) \cup {Entry(h, vis) : h \in issued}
      /\ visDeadline' = [m \in Messages |->
             IF m \in D THEN vis ELSE visDeadline[m]]
      /\ delayed' = delayed \ Due(delayed)
      /\ fate' = fate
  BY DEF Collect
<1>5. \A h \in issued : h.msg \in D /\ h.n = receiveCount[h.msg] + 1
  BY DEF Handle
<1>6. \A m \in Messages : OneContainer(m)
  BY DEF ExactlyOnePlace
<1>7. \A m \in P : m \in Matured \/ InReady(m) \/ InFlight(m)
  BY <1>1, <1>2 DEF ExpiredMessages
<1> HIDE DEF P, D, RC, issued
<1>8. \A h \in inflight \ Expired : h.msg \in Messages /\ h.msg \notin P
  <2> SUFFICES ASSUME NEW h \in inflight \ Expired, h.msg \in P PROVE FALSE
    BY DEF TypeOK, Handles
  <2>1. InFlight(h.msg) /\ h.msg \notin ExpiredMessages /\ OneContainer(h.msg)
    BY <1>2, <1>3, <1>6 DEF InFlight
  <2> QED
    BY <2>1, <1>1, <1>2 DEF OneContainer, ExpiredMessages
<1>9. \A g, h \in inflight' : g.msg = h.msg => g = h
  <2>1. \A g, h \in inflight \ Expired : g.msg = h.msg => g = h
    BY DEF ExactlyOnePlace, OncePerContainer
  <2>2. \A g, h \in issued : g.msg = h.msg => g = h
    BY DEF issued, Handle
  <2>3. \A g \in inflight \ Expired, h \in issued : g.msg # h.msg
    BY <1>3, <1>5, <1>8
  <2> QED
    BY <2>1, <2>2, <2>3, <1>4
<1>10. \A m \in Messages : redriven'[m] <= 1 /\ (InDLQ(m)' <=>
           InDLQ(m) \/ m \in RedrivenAtReclaim \cup RC)
  BY CollectRedrives DEF RC
<1>11. OncePerContainer'
  <2>1. \A d, e \in delayed' : d.value = e.value => d = e
    BY <1>4 DEF ExactlyOnePlace, OncePerContainer
  <2> QED
    BY <2>1, <1>1, <1>9, <1>10 DEF OncePerContainer, Once
<1>12. ASSUME NEW m \in Messages PROVE OneContainer(m)'
  <2>1. OneContainer(m)
    BY <1>6
  <2>2. m \notin P => receiveCount'[m] = receiveCount[m]
    BY <1>4
  <2>3. InDelayed(m)' => m \notin P /\ receiveCount'[m] = 0
    BY <2>1, <2>2, <1>1, <1>7 DEF OneContainer
  <2>4. fate'[m] = "unsent" => m \notin P /\ receiveCount'[m] = 0
    BY <2>1, <2>2, <1>1, <1>2, <1>4, <1>7 DEF OneContainer
  <2>5. m \in Returned => m \in ExpiredMessages
    BY DEF ExpiredMessages
  <2>6. m \in ExpiredMessages <=> m \in Returned \/ m \in RedrivenAtReclaim
    BY DEF ExpiredMessages
  <2>7. /\ InReady(m)' => ~InDelayed(m)' /\ ~InFlight(m)' /\ ~InDLQ(m)'
        /\ InDelayed(m)' => ~InFlight(m)' /\ ~InDLQ(m)'
        /\ InFlight(m)' => ~InDLQ(m)'
    BY <2>1, <2>6, <1>1, <1>2, <1>10 DEF OneContainer
  <2>8. InReady(m) \/ InDelayed(m) \/ InFlight(m) \/ InDLQ(m)
        <=> InReady(m)' \/ InDelayed(m)' \/ InFlight(m)' \/ InDLQ(m)'
    BY <2>6, <1>1, <1>2, <1>10
  <2>9. fate'[m] = "accepted"
        <=> InReady(m)' \/ InDelayed(m)' \/ InFlight(m)' \/ InDLQ(m)'
    BY <2>1, <2>8, <1>4 DEF OneContainer
  <2> QED
    BY <2>3, <2>4, <2>7, <2>9 DEF OneContainer
<1>13. InflightHasDeadline'
  <2> SUFFICES ASSUME NEW h \in inflight'
               PROVE  /\ h.n = receiveCount'[h.msg]
                      /\ Entry(h, visDeadline'[h.msg]) \in visHeap'
    BY DEF InflightHasDeadline, Entry
  <2>1. CASE h \in issued
    <3>1. h.msg \in D /\ h.msg \in P /\ h.msg \in Messages
      BY <2>1, <1>3, <1>5
    <3> QED
      BY <2>1, <3>1, <1>4, <1>5
  <2>2. CASE h \in inflight \ Expired
    <3>1. h.msg \in Messages /\ h.msg \notin P /\ h.msg \notin D
      BY <2>2, <1>3, <1>8
    <3>2. h.n = receiveCount[h.msg] /\ Entry(h, visDeadline[h.msg]) \in visHeap
      BY <2>2 DEF InflightHasDeadline
    <3>3. Entry(h, visDeadline[h.msg]) \notin Due(visHeap)
      BY <2>2 DEF Expired, Values, Entry
    <3> QED
      BY <3>1, <3>2, <3>3, <1>4
  <2> QED
    BY <2>1, <2>2, <1>4
<1> QED
  BY <1>11, <1>12, <1>13 DEF ExactlyOnePlace

(* The steps of backgroundLoop. *)
LEMMA MatureKeepsPlaces ==
    PlaceInv /\ MatureDelayed => ExactlyOnePlace' /\ InflightHasDeadline'
<1> SUFFICES ASSUME PlaceInv, MatureDelayed
             PROVE  ExactlyOnePlace' /\ InflightHasDeadline'
  OBVIOUS
<1> USE DEF PlaceInv
<1>1. PICK s \in Orders(Matured) : ready' = ready \o s
  BY DEF MatureDelayed
<1>2. s \in Seq(Messages) /\ Once(s) /\ ToSet(s) = Matured
  BY OrdersProps, MaturedType DEF Once
<1>3. \A m \in Messages : OneContainer(m)
  BY DEF ExactlyOnePlace
<1>4. /\ \A m \in Matured : InDelayed(m) /\ m \in Messages
      /\ \A d \in delayed : d \in Due(delayed) <=> d.value \in Matured
  BY PoppedFromHeaps, MaturedType
<1>5. ToSet(ready) \cap ToSet(s) = {}
  BY <1>2, <1>3, <1>4 DEF OneContainer, InReady
<1>6. Once(ready') /\ ToSet(ready') = ToSet(ready) \cup Matured
  <2>1. ready \in Seq(Messages) /\ Once(ready)
    BY DEF TypeOK, ExactlyOnePlace, OncePerContainer, Once
  <2> QED
    BY <2>1, <1>1, <1>2, <1>5, ConcatOnce
<1>7. /\ delayed' = delayed \ Due(delayed)
      /\ UNCHANGED <<inflight, visHeap, visDeadline, receiveCount, redriven, fate>>
  BY DEF MatureDelayed, counts, dlq
<1>8. \A m : InDelayed(m)' <=> InDelayed(m) /\ m \notin Matured
  BY <1>4, <1>7 DEF InDelayed
<1>9. \A m : /\ InReady(m)' <=> InReady(m) \/ m \in Matured
             /\ InFlight(m)' <=> InFlight(m)
             /\ InDLQ(m)' <=> InDLQ(m)
  BY <1>6, <1>7 DEF InReady, InFlight, InDLQ
<1>10. OncePerContainer'
  BY <1>6, <1>7 DEF ExactlyOnePlace, OncePerContainer, Once
<1>11. \A m \in Messages : OneContainer(m)'
  BY <1>3, <1>4, <1>7, <1>8, <1>9 DEF OneContainer
<1>12. InflightHasDeadline'
  BY <1>7 DEF InflightHasDeadline
<1> QED
  BY <1>10, <1>11, <1>12 DEF ExactlyOnePlace

(* The visibility tick. *)
LEMMA ReclaimKeepsPlaces ==
    PlaceInv /\ ReclaimExpired => ExactlyOnePlace' /\ InflightHasDeadline'
<1> SUFFICES ASSUME PlaceInv, ReclaimExpired
             PROVE  ExactlyOnePlace' /\ InflightHasDeadline'
  OBVIOUS
<1> USE DEF PlaceInv
<1>1. PICK s \in Orders(Returned) : ready' = ready \o s
  BY DEF ReclaimExpired
<1>2. s \in Seq(Messages) /\ Once(s) /\ ToSet(s) = Returned
  BY OrdersProps, ExpiredType DEF Once
<1>3. \A m \in Messages : OneContainer(m)
  BY DEF ExactlyOnePlace
<1>4. /\ \A m \in ExpiredMessages : InFlight(m) /\ m \in Messages
      /\ \A h \in inflight : h \in Expired <=> h.msg \in ExpiredMessages
      /\ Returned \cap RedrivenAtReclaim = {}
      /\ ExpiredMessages = Returned \cup RedrivenAtReclaim
  BY PoppedFromHeaps, ExpiredType DEF ExpiredMessages
<1>5. ToSet(ready) \cap ToSet(s) = {}
  BY <1>2, <1>3, <1>4 DEF OneContainer, InReady
<1>6. Once(ready') /\ ToSet(ready') = ToSet(ready) \cup Returned
  <2>1. ready \in Seq(Messages) /\ Once(ready)
    BY DEF TypeOK, ExactlyOnePlace, OncePerContainer, Once
  <2> QED
    BY <2>1, <1>1, <1>2, <1>5, ConcatOnce
<1>7. /\ inflight' = inflight \ Expired
      /\ visHeap' = visHeap \ Due(visHeap)
      /\ redriven' = [m \in Messages |->
             IF m \in RedrivenAtReclaim THEN redriven[m] + 1 ELSE redriven[m]]
      /\ UNCHANGED <<delayed, visDeadline, receiveCount, fate>>
  BY DEF ReclaimExpired, counts
<1>8. \A m : /\ InReady(m)' <=> InReady(m) \/ m \in Returned
             /\ InDelayed(m)' <=> InDelayed(m)
             /\ InFlight(m)' <=> InFlight(m) /\ m \notin ExpiredMessages
  BY <1>4, <1>6, <1>7 DEF InReady, InDelayed, InFlight
<1>9. \A m \in Messages : redriven'[m] <= 1 /\ (InDLQ(m)' <=>
          InDLQ(m) \/ m \in RedrivenAtReclaim)
  <2> SUFFICES ASSUME NEW m \in Messages
               PROVE  redriven'[m] <= 1 /\ (redriven'[m] > 0 <=>
                          redriven[m] > 0 \/ m \in RedrivenAtReclaim)
    BY DEF InDLQ
  <2>1. redriven[m] \in Nat /\ redriven[m] <= 1
    BY DEF TypeOK, ExactlyOnePlace, OncePerContainer
  <2>2. m \in RedrivenAtReclaim => redriven[m] = 0
    BY <2>1, <1>3, <1>4 DEF OneContainer, InDLQ
  <2> QED
    BY <2>1, <2>2, <1>7
<1>10. OncePerContainer'
  BY <1>6, <1>7, <1>9 DEF ExactlyOnePlace, OncePerContainer, Once
<1>11. ASSUME NEW m \in Messages PROVE OneContainer(m)'
  <2>1. OneContainer(m)
    BY <1>3
  <2> QED
    BY <2>1, <1>4, <1>7, <1>8, <1>9 DEF OneContainer
<1>12. InflightHasDeadline'
  <2> SUFFICES ASSUME NEW h \in inflight \ Expired
               PROVE  /\ h.n = receiveCount[h.msg]
                      /\ Entry(h, visDeadline[h.msg]) \in visHeap \ Due(visHeap)
    BY <1>7 DEF InflightHasDeadline, Entry
  <2>1. Entry(h, visDeadline[h.msg]) \notin Due(visHeap)
    BY DEF Expired, Values, Entry
  <2> QED
    BY <2>1 DEF InflightHasDeadline
<1> QED
  BY <1>10, <1>11, <1>12 DEF ExactlyOnePlace

(* The steps of clients that name one message. *)
LEMMA SendKeepsPlaces ==
    ASSUME PlaceInv, NEW m \in Messages,
           SendNow(m) \/ \E d \in Delays : SendDelayed(m, d)
    PROVE  ExactlyOnePlace' /\ InflightHasDeadline'
<1> USE DEF PlaceInv
<1>1. /\ fate[m] = "unsent"
      /\ fate' = [fate EXCEPT ![m] = "accepted"]
      /\ UNCHANGED <<inflight, visHeap, visDeadline, receiveCount, redriven>>
  BY DEF SendNow, SendDelayed, counts, dlq
<1>2. \A x \in Messages : OneContainer(x)
  BY DEF ExactlyOnePlace
<1>3. ~InReady(m) /\ ~InDelayed(m) /\ ~InFlight(m) /\ ~InDLQ(m) /\ receiveCount[m] = 0
  BY <1>1, <1>2 DEF OneContainer
<1>4. fate \in [Messages -> {"unsent", "accepted", "removed"}]
  BY DEF TypeOK
<1>5. InflightHasDeadline'
  BY <1>1 DEF InflightHasDeadline
<1>6. \A x : (InFlight(x)' <=> InFlight(x)) /\ (InDLQ(x)' <=> InDLQ(x))
  BY <1>1 DEF InFlight, InDLQ
<1>7. CASE SendNow(m)
  <2>1. ready \in Seq(Messages) /\ Once(ready)
    BY DEF TypeOK, ExactlyOnePlace, OncePerContainer, Once
  <2>2. ready' = Append(ready, m) /\ delayed' = delayed
    BY <1>7 DEF SendNow
  <2>3. Once(ready') /\ ToSet(ready') = ToSet(ready) \cup {m}
    BY <2>1, <2>2, <1>3, AppendOnce DEF InReady
  <2>4. \A x : (InReady(x)' <=> InReady(x) \/ x = m) /\ (InDelayed(x)' <=> InDelayed(x))
    BY <2>2, <2>3 DEF InReady, InDelayed
  <2>5. OncePerContainer'
    BY <2>2, <2>3, <1>1 DEF ExactlyOnePlace, OncePerContainer, Once
  <2>6. \A x \in Messages : OneContainer(x)'
    BY <2>4, <1>1, <1>2, <1>3, <1>4, <1>6 DEF OneContainer
  <2> QED
    BY <2>5, <2>6, <1>5 DEF ExactlyOnePlace
<1>8. ASSUME NEW d \in Delays, SendDelayed(m, d)
      PROVE  ExactlyOnePlace' /\ InflightHasDeadline'
  <2>1. ready' = ready /\ delayed' = delayed \cup {Entry(m, d)}
    BY <1>8 DEF SendDelayed
  <2>2. \A x : (InReady(x)' <=> InReady(x)) /\ (InDelayed(x)' <=> InDelayed(x) \/ x = m)
    <3>1. Entry(m, d).value = m
      BY DEF Entry
    <3>2. \A x : InReady(x)' <=> InReady(x)
      BY <2>1 DEF InReady
    <3>3. \A x : InDelayed(x)' <=> InDelayed(x) \/ x = m
      BY <2>1, <3>1 DEF InDelayed
    <3> QED
      BY <3>2, <3>3
  <2>3. OncePerContainer'
    BY <2>1, <1>1, <1>3 DEF ExactlyOnePlace, OncePerContainer, InDelayed, Entry
  <2>4. \A x \in Messages : OneContainer(x)'
    BY <2>2, <1>1, <1>2, <1>3, <1>4, <1>6 DEF OneContainer
  <2> QED
    BY <2>3, <2>4, <1>5 DEF ExactlyOnePlace
<1> QED
  BY <1>7, <1>8

(* DeleteMessage and ChangeMessageVisibility. *)
LEMMA AnswerKeepsPlaces ==
    ASSUME PlaceInv, NEW h \in inflight,
           Delete(h) \/ Release(h) \/ \E t \in Extensions : Extend(h, t)
    PROVE  ExactlyOnePlace' /\ InflightHasDeadline'
<1> USE DEF PlaceInv
<1>1. \A x \in Messages : OneContainer(x)
  BY DEF ExactlyOnePlace
<1>2. h.msg \in Messages /\ InFlight(h.msg)
  BY DEF TypeOK, Handles, InFlight
<1>3. \A g \in inflight : g.msg = h.msg => g = h
  BY DEF ExactlyOnePlace, OncePerContainer
<1>4. UNCHANGED <<delayed, receiveCount, redriven>>
  BY DEF Delete, Release, Extend, counts, dlq
<1>5. fate \in [Messages -> {"unsent", "accepted", "removed"}]
  BY DEF TypeOK
<1>6. \A x : (InDelayed(x)' <=> InDelayed(x)) /\ (InDLQ(x)' <=> InDLQ(x))
  BY <1>4 DEF InDelayed, InDLQ
<1>7. ASSUME inflight' = inflight \ {h}
      PROVE  \A x : InFlight(x)' <=> InFlight(x) /\ x # h.msg
  BY <1>3, <1>7 DEF InFlight
<1>8. CASE Delete(h)
  <2>1. /\ inflight' = inflight \ {h} /\ visHeap' = visHeap
        /\ fate' = [fate EXCEPT ![h.msg] = "removed"]
        /\ UNCHANGED <<ready, visDeadline>>
    BY <1>8 DEF Delete, RemoveByValue, counts
  <2>2. OncePerContainer'
    BY <2>1, <1>4 DEF ExactlyOnePlace, OncePerContainer
  <2>3. \A x \in Messages : OneContainer(x)'
    BY <2>1, <1>1, <1>2, <1>4, <1>5, <1>6, <1>7 DEF OneContainer, InReady
  <2>4. InflightHasDeadline'
    BY <2>1, <1>4 DEF InflightHasDeadline
  <2> QED
    BY <2>2, <2>3, <2>4 DEF ExactlyOnePlace
<1>9. CASE Release(h)
  <2>1. /\ inflight' = inflight \ {h} /\ visHeap' = visHeap
        /\ ready' = Append(ready, h.msg)
        /\ UNCHANGED <<visDeadline, fate>>
    BY <1>9 DEF Release, RemoveByValue, counts
  <2>2. Once(ready') /\ ToSet(ready') = ToSet(ready) \cup {h.msg}
    <3>1. ready \in Seq(Messages) /\ Once(ready)
      BY DEF TypeOK, ExactlyOnePlace, OncePerContainer, Once
    <3>2. h.msg \notin ToSet(ready)
      BY <1>1, <1>2 DEF OneContainer, InReady
    <3> QED
      BY <3>1, <3>2, <2>1, <1>2, AppendOnce
  <2>3. OncePerContainer'
    BY <2>1, <2>2, <1>4 DEF ExactlyOnePlace, OncePerContainer, Once
  <2>4. \A x : InReady(x)' <=> InReady(x) \/ x = h.msg
    BY <2>2 DEF InReady
  <2>5. \A x \in Messages : OneContainer(x)'
    BY <2>1, <2>4, <1>1, <1>2, <1>4, <1>6, <1>7 DEF OneContainer
  <2>6. InflightHasDeadline'
    BY <2>1, <1>4 DEF InflightHasDeadline
  <2> QED
    BY <2>3, <2>5, <2>6 DEF ExactlyOnePlace
<1>10. ASSUME NEW t \in Extensions, Extend(h, t)
       PROVE  ExactlyOnePlace' /\ InflightHasDeadline'
  <2>1. /\ visHeap' = visHeap \cup {Entry(h, t)}
        /\ visDeadline' = [visDeadline EXCEPT ![h.msg] = t]
        /\ UNCHANGED <<ready, inflight, fate>>
    BY <1>10 DEF Extend, RemoveByValue
  <2>2. ExactlyOnePlace'
    BY <2>1, <1>4, <1>6
    DEF ExactlyOnePlace, OncePerContainer, OneContainer, InReady, InFlight
  <2>3. InflightHasDeadline'
    <3> SUFFICES ASSUME NEW g \in inflight
                 PROVE  /\ g.n = receiveCount[g.msg]
                        /\ Entry(g, visDeadline'[g.msg]) \in visHeap'
      BY <2>1, <1>4 DEF InflightHasDeadline, Entry
    <3>1. g.msg \in Messages /\ visDeadline \in [Messages -> Nat]
      BY DEF TypeOK, Handles
    <3> QED
      BY <3>1, <2>1, <1>2, <1>3 DEF InflightHasDeadline
  <2> QED
    BY <2>2, <2>3
<1> QED
  BY <1>8, <1>9, <1>10

(* Purge, which must empty every container at once. *)
LEMMA PurgeKeepsPlaces ==
    PlaceInv /\ Purge => ExactlyOnePlace' /\ InflightHasDeadline'
<1> SUFFICES ASSUME PlaceInv, Purge PROVE ExactlyOnePlace' /\ InflightHasDeadline'
  OBVIOUS
<1> USE DEF PlaceInv
<1>1. /\ ready' = <<>> /\ delayed' = {} /\ inflight' = {}
      /\ fate' = [m \in Messages |->
             IF InReady(m) \/ InDelayed(m) \/ InFlight(m)
             THEN "removed" ELSE fate[m]]
      /\ UNCHANGED <<receiveCount, redriven>>
  BY DEF Purge, counts, dlq
<1>2. ToSet(ready') = {} /\ Len(ready') = 0
  BY <1>1 DEF ToSet
<1>3. \A x : /\ ~InReady(x)' /\ ~InDelayed(x)' /\ ~InFlight(x)'
             /\ InDLQ(x)' <=> InDLQ(x)
  BY <1>1, <1>2 DEF InReady, InDelayed, InFlight, InDLQ
<1>4. OncePerContainer'
  BY <1>1, <1>2 DEF ExactlyOnePlace, OncePerContainer
<1>5. \A x \in Messages : OneContainer(x)'
  BY <1>1, <1>3 DEF ExactlyOnePlace, OneContainer
<1> QED
  BY <1>1, <1>4, <1>5 DEF ExactlyOnePlace, InflightHasDeadline

(* Time: the entries of the heaps stay apart, deadlines stay promised. *)
LEMMA TickKeepsPlaces ==
    PlaceInv /\ Tick => ExactlyOnePlace' /\ InflightHasDeadline'
<1> SUFFICES ASSUME PlaceInv, Tick PROVE ExactlyOnePlace' /\ InflightHasDeadline'
  OBVIOUS
<1> USE DEF PlaceInv
<1>1. /\ delayed' = ElapseHeap(delayed) /\ visHeap' = ElapseHeap(visHeap)
      /\ visDeadline' = [m \in Messages |-> Elapse(visDeadline[m])]
      /\ UNCHANGED <<ready, inflight, receiveCount, redriven, fate>>
  BY DEF Tick, dlq
<1>2. \A x : InDelayed(x)' <=> InDelayed(x)
  <2>1. \A d \in delayed : Entry(d.value, Elapse(d.left)).value = d.value
    BY DEF Entry
  <2> QED
    BY <2>1, <1>1 DEF InDelayed, ElapseHeap
<1>3. \A d, e \in delayed' : d.value = e.value => d = e
  <2> SUFFICES ASSUME NEW d \in delayed', NEW e \in delayed', d.value = e.value
               PROVE  d = e
    OBVIOUS
  <2>1. PICK f \in delayed : d = Entry(f.value, Elapse(f.left))
    BY <1>1 DEF ElapseHeap
  <2>2. PICK g \in delayed : e = Entry(g.value, Elapse(g.left))
    BY <1>1 DEF ElapseHeap
  <2>3. f.value = g.value
    BY <2>1, <2>2 DEF Entry
  <2>4. f = g
    BY <2>3 DEF ExactlyOnePlace, OncePerContainer
  <2> QED
    BY <2>1, <2>2, <2>4
<1>4. ExactlyOnePlace'
  BY <1>1, <1>2, <1>3
  DEF ExactlyOnePlace, OncePerContainer, OneContainer, InReady, InFlight, InDLQ
<1>5. InflightHasDeadline'
  <2> SUFFICES ASSUME NEW h \in inflight
               PROVE  /\ h.n = receiveCount[h.msg]
                      /\ Entry(h, visDeadline'[h.msg]) \in ElapseHeap(visHeap)
    BY <1>1 DEF InflightHasDeadline, Entry
  <2>1. h.msg \in Messages
    BY DEF TypeOK, Handles
  <2>2. Entry(h, visDeadline[h.msg]) \in visHeap /\ h.n = receiveCount[h.msg]
    BY DEF InflightHasDeadline
  <2>3. visDeadline'[h.msg] = Elapse(visDeadline[h.msg])
    BY <1>1, <2>1
  <2>4. /\ Entry(h, visDeadline[h.msg]).value = h
        /\ Entry(h, visDeadline[h.msg]).left = visDeadline[h.msg]
    BY DEF Entry
  <2> QED
    BY <2>2, <2>3, <2>4 DEF ElapseHeap
<1> QED
  BY <1>4, <1>5

(* The remaining steps touch neither a container nor a message. *)
LEMMA OthersKeepPlaces ==
    ASSUME PlaceInv,
           UNCHANGED <<ready, delayed, inflight, visHeap, visDeadline,
                       receiveCount, redriven, fate>>
    PROVE  ExactlyOnePlace' /\ InflightHasDeadline'
BY DEF PlaceInv, ExactlyOnePlace, OncePerContainer, OneContainer, InReady,
       InDelayed, InFlight, InDLQ, InflightHasDeadline

(* PlaceInv is inductive (its TypeOK part by TypeOKStep). *)
LEMMA PlaceInvStep ==
    PlaceInv /\ [Next]_vars => ExactlyOnePlace' /\ InflightHasDeadline'
<1> SUFFICES ASSUME PlaceInv, [Next]_vars
             PROVE  ExactlyOnePlace' /\ InflightHasDeadline'
  OBVIOUS
<1> DEFINE Kept == ExactlyOnePlace' /\ InflightHasDeadline'
<1>1. ASSUME NEW m \in Messages, SendNow(m) \/ \E d \in Delays : SendDelayed(m, d)
      PROVE Kept
  BY <1>1, SendKeepsPlaces
<1>2. ASSUME NEW c \in Consumers, NEW k \in Batches, NEW v \in Timeouts,
             NEW w \in Waits, Receive(c, k, v, w)
      PROVE Kept
  <2>1. PICK avail \in Available :
            \E n \in PopCounts(avail, k) : Collect(avail, n, v)
    BY <1>2 DEF Receive
  <2>2. PICK n \in PopCounts(avail, k) : Collect(avail, n, v)
    BY <2>1
  <2>3. n \in 0..Len(avail) /\ v \in Nat
    BY ParametersAssumption DEF PopCounts
  <2> QED
    BY <2>2, <2>3, CollectKeepsPlaces
<1>3. ASSUME NEW c \in Consumers, Resume(c) PROVE Kept
  <2>1. PICK avail \in Available :
            \E n \in PopCounts(avail, call[c].max) : Collect(avail, n, call[c].vis)
    BY <1>3 DEF Resume
  <2>2. PICK n \in PopCounts(avail, call[c].max) : Collect(avail, n, call[c].vis)
    BY <2>1
  <2>3. n \in 0..Len(avail) /\ call[c].vis \in Nat
    BY DEF PopCounts, PlaceInv, TypeOK
  <2> QED
    BY <2>2, <2>3, CollectKeepsPlaces
<1>4. ASSUME NEW h \in inflight,
             Delete(h) \/ Release(h) \/ \E t \in Extensions : Extend(h, t)
      PROVE Kept
  BY <1>4, AnswerKeepsPlaces
<1>5. CASE Purge
  BY <1>5, PurgeKeepsPlaces
<1>6. CASE MatureDelayed
  BY <1>6, MatureKeepsPlaces
<1>7. CASE ReclaimExpired
  BY <1>7, ReclaimKeepsPlaces
<1>8. CASE Tick
  BY <1>8, TickKeepsPlaces
<1>9. ASSUME \/ \E c \in Consumers : Abort(c)
             \/ \E p \in Policies : SetDLQ(p)
             \/ Close \/ DelayTick \/ VisTick \/ StopLoop
             \/ UNCHANGED vars
      PROVE Kept
  <2>1. UNCHANGED <<ready, delayed, inflight, visHeap, visDeadline,
                    receiveCount, redriven, fate>>
    BY <1>9 DEF Abort, SetDLQ, Close, DelayTick, VisTick, StopLoop, vars,
                buffers, counts, dlq
  <2> QED
    BY <2>1, OthersKeepPlaces
<1> QED
  BY <1>1, <1>2, <1>3, <1>4, <1>5, <1>6, <1>7, <1>8, <1>9
  DEF Next, Client, Background

(* PlaceInv is an invariant. *)
LEMMA PlaceInvariant == Spec => []PlaceInv
<1>1. Init => ExactlyOnePlace /\ InflightHasDeadline
  <2> SUFFICES ASSUME Init PROVE ExactlyOnePlace /\ InflightHasDeadline
    OBVIOUS
  <2>1. ready = <<>> /\ ToSet(ready) = {} /\ Len(ready) = 0
    BY DEF Init, ToSet
  <2> QED
    BY <2>1 DEF Init, ExactlyOnePlace, OncePerContainer, OneContainer, InReady,
                InDelayed, InFlight, InDLQ, InflightHasDeadline
<1>2. Init => PlaceInv
  BY <1>1, TypeOKInit DEF PlaceInv
<1>3. PlaceInv /\ [Next]_vars => PlaceInv'
  BY PlaceInvStep, TypeOKStep DEF PlaceInv
<1> QED
  BY <1>2, <1>3, PTL DEF Spec

(* Every accepted message is in exactly one container, once, until a       *)
(* client deletes or purges it: none is lost, doubled or revived.          *)
THEOREM NoMessageLostOrDoubled == Spec => []ExactlyOnePlace
<1>1. PlaceInv => ExactlyOnePlace
  BY DEF PlaceInv
<1> QED
  BY <1>1, PlaceInvariant, PTL

(* Every message in flight is held by the handle of its latest delivery    *)
(* and has an entry in the visibility heap at its promised deadline.       *)
THEOREM FlightsAreScheduled == Spec => []InflightHasDeadline
<1>1. PlaceInv => InflightHasDeadline
  BY DEF PlaceInv
<1> QED
  BY <1>1, PlaceInvariant, PTL

-----------------------------------------------------------------------------
(* The redrive policy acts exactly at maxReceiveCount, in the receives and *)
(* in backgroundLoop alike.                                                *)
THEOREM PolicyActsAtLimit == Spec => RedriveAtLimit
<1> DEFINE AtLimit ==
       /\ \A h \in inflight' \ inflight : dlqMax = 0 \/ h.n <= dlqMax
       /\ \A m \in Messages : redriven'[m] > redriven[m] =>
              dlqMax > 0 /\ receiveCount[m] >= dlqMax
<1>1. ASSUME TypeOK, NEW avail \in Available, NEW n \in 0..Len(avail),
             NEW vis \in Nat, Collect(avail, n, vis)
      PROVE  AtLimit
  <2>1. dlqMax \in Nat /\ \A m \in Messages : receiveCount[m] \in Nat
                                              /\ redriven[m] \in Nat
    BY <1>1, ParametersAssumption DEF TypeOK
  <2>2. Delivered(avail, n) \cup RedrivenAtCollect(avail, n) \subseteq Messages
    BY <1>1, AvailableType DEF Delivered, RedrivenAtCollect, Popped
  <2>3. ASSUME NEW h \in inflight' \ inflight PROVE dlqMax = 0 \/ h.n <= dlqMax
    <3>1. PICK m \in Delivered(avail, n) : h = Handle(m, receiveCount[m] + 1)
      BY <1>1, <2>3 DEF Collect
    <3>2. ~SpentAtCollect(m) /\ m \in Messages /\ h.n = receiveCount[m] + 1
      BY <3>1, <2>2 DEF Delivered, Handle
    <3> QED
      BY <3>2, <2>1 DEF SpentAtCollect
  <2>4. ASSUME NEW m \in Messages, redriven'[m] > redriven[m]
        PROVE  dlqMax > 0 /\ receiveCount[m] >= dlqMax
    <3>1. m \in RedrivenAtReclaim \/ SpentAtCollect(m)
      BY <1>1, <2>1, <2>4 DEF Collect, RedrivenAtCollect
    <3> QED
      BY <3>1, <2>1 DEF RedrivenAtReclaim, SpentAtReclaim, SpentAtCollect
  <2> QED
    BY <2>3, <2>4
<1>2. ASSUME TypeOK, ReclaimExpired PROVE AtLimit
  <2>1. \A m \in Messages : redriven[m] \in Nat
    BY <1>2 DEF TypeOK
  <2>2. /\ inflight' \subseteq inflight
        /\ redriven' = [m \in Messages |->
               IF m \in RedrivenAtReclaim THEN redriven[m] + 1 ELSE redriven[m]]
    BY <1>2 DEF ReclaimExpired
  <2> QED
    BY <2>1, <2>2 DEF RedrivenAtReclaim, SpentAtReclaim
<1>3. ASSUME TypeOK, inflight' \subseteq inflight, redriven' = redriven
      PROVE  AtLimit
  BY <1>3 DEF TypeOK
<1>4. TypeOK /\ [Next]_vars => AtLimit
  <2> SUFFICES ASSUME TypeOK, [Next]_vars PROVE AtLimit
    OBVIOUS
  <2> HIDE DEF AtLimit
  <2>1. ASSUME NEW c \in Consumers, NEW k \in Batches, NEW v \in Timeouts,
               NEW w \in Waits, Receive(c, k, v, w)
        PROVE AtLimit
    <3>1. PICK avail \in Available :
              \E n \in PopCounts(avail, k) : Collect(avail, n, v)
      BY <2>1 DEF Receive
    <3>2. PICK n \in PopCounts(avail, k) : Collect(avail, n, v)
      BY <3>1
    <3>3. n \in 0..Len(avail) /\ v \in Nat
      BY ParametersAssumption DEF PopCounts
    <3> QED
      BY <3>2, <3>3, <1>1
  <2>2. ASSUME NEW c \in Consumers, Resume(c) PROVE AtLimit
    <3>1. PICK avail \in Available :
              \E n \in PopCounts(avail, call[c].max) :
                  Collect(avail, n, call[c].vis)
      BY <2>2 DEF Resume
    <3>2. PICK n \in PopCounts(avail, call[c].max) : Collect(avail, n, call[c].vis)
      BY <3>1
    <3>3. n \in 0..Len(avail) /\ call[c].vis \in Nat
      BY DEF PopCounts, TypeOK
    <3> QED
      BY <3>2, <3>3, <1>1
  <2>3. CASE ReclaimExpired
    BY <2>3, <1>2
  <2>4. ASSUME \/ \E m \in Messages : SendNow(m)
               \/ \E m \in Messages, d \in Delays : SendDelayed(m, d)
               \/ \E h \in inflight : Delete(h) \/ Release(h)
               \/ \E h \in inflight, t \in Extensions : Extend(h, t)
               \/ Purge \/ (\E p \in Policies : SetDLQ(p)) \/ Close
               \/ (\E c \in Consumers : Abort(c))
               \/ DelayTick \/ VisTick \/ MatureDelayed \/ StopLoop \/ Tick
               \/ UNCHANGED vars
        PROVE AtLimit
    <3>1. inflight' \subseteq inflight /\ redriven' = redriven
      BY <2>4 DEF SendNow, SendDelayed, Delete, Release, Extend, Purge, SetDLQ,
                  Close, Abort, DelayTick, VisTick, MatureDelayed, StopLoop,
                  Tick, vars, buffers, dlq
    <3> QED
      BY <3>1, <1>3
  <2> QED
    BY <2>1, <2>2, <2>3, <2>4 DEF Next, Client, Background
<1> QED
  BY <1>4, TypeCorrect, PTL DEF Spec, RedriveAtLimit

-----------------------------------------------------------------------------
(* The refinement: every step of the queue is a step of MessageLifecycle,  *)
(* or changes no message's place.                                          *)

(* PlaceInv makes the mapping exact: each place is one container or fate. *)
LEMMA PlaceOfProps ==
    ASSUME PlaceInv
    PROVE  /\ PlaceOf \in [Messages -> Lifecycle!Places]
           /\ \A m \in Messages :
                 /\ PlaceOf[m] = "dlq" <=> InDLQ(m)
                 /\ PlaceOf[m] = "inflight" <=> InFlight(m)
                 /\ PlaceOf[m] = "ready" <=> InReady(m)
                 /\ PlaceOf[m] = "delayed" <=> InDelayed(m)
                 /\ PlaceOf[m] = "unsent" <=> fate[m] = "unsent"
                 /\ PlaceOf[m] = "gone" <=> fate[m] = "removed"
<1>1. \A m \in Messages : OneContainer(m)
  BY DEF PlaceInv, ExactlyOnePlace
<1>2. \A m \in Messages : fate[m] \in {"unsent", "accepted", "removed"}
  BY DEF PlaceInv, TypeOK
<1> QED
  BY <1>1, <1>2 DEF PlaceOf, OneContainer, Lifecycle!Places

(* The same of the next state. *)
LEMMA PlaceOfPropsNext ==
    ASSUME PlaceInv'
    PROVE  /\ PlaceOf' \in [Messages -> Lifecycle!Places]
           /\ \A m \in Messages :
                 /\ PlaceOf'[m] = "dlq" <=> InDLQ(m)'
                 /\ PlaceOf'[m] = "inflight" <=> InFlight(m)'
                 /\ PlaceOf'[m] = "ready" <=> InReady(m)'
                 /\ PlaceOf'[m] = "delayed" <=> InDelayed(m)'
                 /\ PlaceOf'[m] = "unsent" <=> fate'[m] = "unsent"
                 /\ PlaceOf'[m] = "gone" <=> fate'[m] = "removed"
<1>1. \A m \in Messages : OneContainer(m)'
  BY DEF PlaceInv, ExactlyOnePlace
<1>2. \A m \in Messages : fate'[m] \in {"unsent", "accepted", "removed"}
  BY DEF PlaceInv, TypeOK
<1> QED
  BY <1>1, <1>2 DEF PlaceOf, OneContainer, Lifecycle!Places

(* A step that moves messages along Moves only is a Progress step. *)
LEMMA MovesAreProgress ==
    ASSUME PlaceInv, PlaceInv',
           \A m \in Messages :
              \/ PlaceOf'[m] = PlaceOf[m]
              \/ <<PlaceOf[m], PlaceOf'[m]>> \in Lifecycle!Moves
    PROVE  Lifecycle!Next
BY PlaceOfPropsNext DEF Lifecycle!Next, Lifecycle!Progress

(* A receive moves messages along Moves; a message that was never received *)
(* is not redriven, because maxReceiveCount is at least 1.                 *)
LEMMA CollectImplements ==
    ASSUME PlaceInv, PlaceInv', NEW avail \in Available,
           NEW n \in 0..Len(avail), NEW vis \in Nat, Collect(avail, n, vis)
    PROVE  Lifecycle!Next
<1> DEFINE P == Popped(avail, n)
           D == Delivered(avail, n)
           RC == RedrivenAtCollect(avail, n)
<1>1. /\ \A m : InReady(m)' <=>
             (InReady(m) \/ m \in Matured \/ m \in Returned) /\ m \notin P
      /\ \A m \in P : InReady(m) \/ m \in Matured \/ m \in Returned
      /\ P = D \cup RC
      /\ D \cap RC = {}
      /\ \A m : InDelayed(m)' <=> InDelayed(m) /\ m \notin Matured
      /\ \A m : InFlight(m)' <=>
             (InFlight(m) /\ m \notin ExpiredMessages) \/ m \in D
  BY CollectMoves
<1>2. /\ \A m \in Matured : InDelayed(m)
      /\ \A m \in ExpiredMessages : InFlight(m)
      /\ Returned \cap RedrivenAtReclaim = {}
      /\ ExpiredMessages = Returned \cup RedrivenAtReclaim
  BY PoppedFromHeaps DEF ExpiredMessages
<1>3. \A m \in Messages : InDLQ(m)' <=> InDLQ(m) \/ m \in RedrivenAtReclaim \cup RC
  BY CollectRedrives
<1>4. fate' = fate
  BY DEF Collect
<1>5. \A m \in RC : ~InDelayed(m)
  <2> SUFFICES ASSUME NEW m \in RC, InDelayed(m) PROVE FALSE
    OBVIOUS
  <2>1. m \in Messages
    BY AvailableType DEF PlaceInv, RedrivenAtCollect, Popped
  <2>2. receiveCount[m] = 0
    BY <2>1 DEF PlaceInv, ExactlyOnePlace, OneContainer
  <2>3. dlqMax \in Nat /\ dlqMax > 0 /\ receiveCount[m] + 1 > dlqMax
    BY ParametersAssumption
    DEF PlaceInv, TypeOK, RedrivenAtCollect, SpentAtCollect
  <2> QED
    BY <2>2, <2>3
<1> HIDE DEF P, D, RC
<1> SUFFICES ASSUME NEW m \in Messages
             PROVE  \/ PlaceOf'[m] = PlaceOf[m]
                    \/ <<PlaceOf[m], PlaceOf'[m]>> \in Lifecycle!Moves
  BY MovesAreProgress
<1>6. OneContainer(m)
  BY DEF PlaceInv, ExactlyOnePlace
<1>7. CASE InDLQ(m)
  <2>1. InDLQ(m)'
    BY <1>3, <1>7
  <2> QED
    BY <2>1, <1>7, PlaceOfProps, PlaceOfPropsNext
<1>8. CASE InFlight(m)
  <2>1. InFlight(m)' \/ InReady(m)' \/ InDLQ(m)'
    BY <1>1, <1>2, <1>3, <1>8
  <2> QED
    BY <2>1, <1>8, PlaceOfProps, PlaceOfPropsNext DEF Lifecycle!Moves
<1>9. CASE InReady(m)
  <2>1. InFlight(m)' \/ InReady(m)' \/ InDLQ(m)'
    BY <1>1, <1>3, <1>9
  <2> QED
    BY <2>1, <1>9, PlaceOfProps, PlaceOfPropsNext DEF Lifecycle!Moves
<1>10. CASE InDelayed(m)
  <2>1. m \notin RC
    BY <1>5, <1>10
  <2>2. InFlight(m)' \/ InReady(m)' \/ InDelayed(m)'
    BY <2>1, <1>1, <1>10
  <2> QED
    BY <2>2, <1>10, PlaceOfProps, PlaceOfPropsNext DEF Lifecycle!Moves
<1>11. CASE ~(InDLQ(m) \/ InFlight(m) \/ InReady(m) \/ InDelayed(m))
  <2>1. fate[m] = "unsent" \/ fate[m] = "removed"
    BY <1>6, <1>11 DEF PlaceInv, TypeOK, OneContainer
  <2> QED
    BY <2>1, <1>4, PlaceOfProps, PlaceOfPropsNext
<1> QED
  BY <1>7, <1>8, <1>9, <1>10, <1>11

(* The delay tick moves delayed messages to the ring buffer. *)
LEMMA MatureImplements ==
    ASSUME PlaceInv, PlaceInv', MatureDelayed
    PROVE  Lifecycle!Next
<1>1. PICK s \in Orders(Matured) : ready' = ready \o s
  BY DEF MatureDelayed
<1>2. s \in Seq(Messages) /\ ToSet(s) = Matured /\ ready \in Seq(Messages)
  BY OrdersProps, MaturedType DEF PlaceInv, TypeOK
<1>3. UNCHANGED <<inflight, redriven, fate>> /\ delayed' = delayed \ Due(delayed)
  BY DEF MatureDelayed, dlq
<1>4. \A d \in delayed : d \in Due(delayed) <=> d.value \in Matured
  BY PoppedFromHeaps
<1>5. \A m \in Messages : InDelayed(m) => InDelayed(m)' \/ m \in Matured
  BY <1>3, <1>4 DEF InDelayed
<1>6. \A m \in Messages : InReady(m) \/ m \in Matured => InReady(m)'
  <2>1. /\ Len(ready) \in Nat /\ Len(s) \in Nat
        /\ Len(ready') = Len(ready) + Len(s) /\ ready' \in Seq(Messages)
        /\ \A i \in 1..Len(ready) : ready'[i] = ready[i]
        /\ \A i \in 1..Len(s) : ready'[Len(ready) + i] = s[i]
    BY <1>1, <1>2
  <2>2. /\ ToSet(ready) = {ready[i] : i \in 1..Len(ready)}
        /\ ToSet(s) = {s[i] : i \in 1..Len(s)}
    BY <1>2, ToSetOfSeq
  <2>3. ToSet(ready') = {ready'[i] : i \in 1..Len(ready')}
    BY <2>1, ToSetOfSeq
  <2>4. /\ \A i \in 1..Len(ready) : i \in 1..Len(ready')
        /\ \A i \in 1..Len(s) : Len(ready) + i \in 1..Len(ready')
    BY <2>1
  <2> QED
    BY <2>1, <2>2, <2>3, <2>4, <1>2 DEF InReady
<1>7. \A m \in Messages : /\ InFlight(m) <=> InFlight(m)'
                          /\ InDLQ(m) <=> InDLQ(m)'
  BY <1>3 DEF InFlight, InDLQ
<1> SUFFICES ASSUME NEW m \in Messages
             PROVE  \/ PlaceOf'[m] = PlaceOf[m]
                    \/ <<PlaceOf[m], PlaceOf'[m]>> \in Lifecycle!Moves
  BY MovesAreProgress
<1>8. \/ InDLQ(m) \/ InFlight(m) \/ InReady(m) \/ InDelayed(m)
      \/ fate[m] = "unsent" \/ fate[m] = "removed"
  BY DEF PlaceInv, ExactlyOnePlace, OneContainer, TypeOK
<1> QED
  BY <1>3, <1>5, <1>6, <1>7, <1>8, PlaceOfProps, PlaceOfPropsNext
  DEF Lifecycle!Moves

(* The visibility tick returns or redrives messages in flight. *)
LEMMA ReclaimImplements ==
    ASSUME PlaceInv, PlaceInv', ReclaimExpired
    PROVE  Lifecycle!Next
<1>1. /\ inflight' = inflight \ Expired
      /\ UNCHANGED <<delayed, fate>>
      /\ redriven' = [m \in Messages |->
             IF m \in RedrivenAtReclaim THEN redriven[m] + 1 ELSE redriven[m]]
  BY DEF ReclaimExpired
<1>2. \A m \in Messages : redriven[m] \in Nat
  BY DEF PlaceInv, TypeOK
<1>3. \A m \in Messages : InDLQ(m)' <=> InDLQ(m) \/ m \in RedrivenAtReclaim
  BY <1>1, <1>2 DEF InDLQ
<1>4. \A m \in Messages : InDelayed(m)' <=> InDelayed(m)
  BY <1>1 DEF InDelayed
<1>5. \A h \in inflight : h \in Expired <=> h.msg \in ExpiredMessages
  BY PoppedFromHeaps
<1>6. \A m \in Messages : InFlight(m)' <=> InFlight(m) /\ m \notin ExpiredMessages
  BY <1>1, <1>5 DEF InFlight
<1>7. \A m \in Messages : OneContainer(m) /\ OneContainer(m)'
  BY DEF PlaceInv, ExactlyOnePlace
<1>8. \A m \in Messages : fate[m] = "accepted" =>
          InReady(m)' \/ InDelayed(m)' \/ InFlight(m)' \/ InDLQ(m)'
  BY <1>1, <1>7 DEF OneContainer
<1>9. ExpiredMessages = Returned \cup RedrivenAtReclaim
      /\ \A m \in ExpiredMessages : InFlight(m)
  BY PoppedFromHeaps DEF ExpiredMessages
<1> SUFFICES ASSUME NEW m \in Messages
             PROVE  \/ PlaceOf'[m] = PlaceOf[m]
                    \/ <<PlaceOf[m], PlaceOf'[m]>> \in Lifecycle!Moves
  BY MovesAreProgress
<1>10. CASE InFlight(m)
  <2>1. InFlight(m)' \/ InReady(m)' \/ InDLQ(m)'
    BY <1>4, <1>7, <1>8, <1>10 DEF OneContainer
  <2> QED
    BY <2>1, <1>10, PlaceOfProps, PlaceOfPropsNext DEF Lifecycle!Moves
<1>11. CASE InDLQ(m) \/ InDelayed(m)
  BY <1>3, <1>4, <1>11, PlaceOfProps, PlaceOfPropsNext
<1>12. CASE InReady(m)
  <2>1. ~InFlight(m)' /\ ~InDelayed(m)' /\ ~InDLQ(m)'
    BY <1>3, <1>4, <1>6, <1>7, <1>9, <1>12 DEF OneContainer
  <2>2. InReady(m)'
    BY <2>1, <1>7, <1>8, <1>12 DEF OneContainer
  <2> QED
    BY <2>2, <1>12, PlaceOfProps, PlaceOfPropsNext
<1>13. CASE ~(InDLQ(m) \/ InFlight(m) \/ InReady(m) \/ InDelayed(m))
  <2>1. fate[m] = "unsent" \/ fate[m] = "removed"
    BY <1>7, <1>13 DEF PlaceInv, TypeOK, OneContainer
  <2> QED
    BY <2>1, <1>1, PlaceOfProps, PlaceOfPropsNext
<1> QED
  BY <1>10, <1>11, <1>12, <1>13

(* A send accepts one message that was not sent before. *)
LEMMA SendImplements ==
    ASSUME PlaceInv, PlaceInv', NEW m \in Messages,
           SendNow(m) \/ \E d \in Delays : SendDelayed(m, d)
    PROVE  Lifecycle!Next
<1>1. /\ fate[m] = "unsent" /\ fate' = [fate EXCEPT ![m] = "accepted"]
      /\ UNCHANGED <<inflight, redriven>>
      /\ \/ ready' = Append(ready, m) /\ delayed' = delayed
         \/ ready' = ready /\ \E d \in Delays : delayed' = delayed \cup {Entry(m, d)}
  BY DEF SendNow, SendDelayed, dlq
<1>2. ready \in Seq(Messages) /\ Once(ready) /\ m \notin ToSet(ready)
      /\ fate \in [Messages -> {"unsent", "accepted", "removed"}]
  BY <1>1 DEF PlaceInv, TypeOK, ExactlyOnePlace, OncePerContainer, OneContainer,
              InReady, Once
<1>3. \A x : /\ InFlight(x)' <=> InFlight(x)
             /\ InDLQ(x)' <=> InDLQ(x)
  BY <1>1 DEF InFlight, InDLQ
<1>4. \/ \A x : (InReady(x)' <=> InReady(x) \/ x = m) /\ (InDelayed(x)' <=> InDelayed(x))
      \/ \A x : (InReady(x)' <=> InReady(x)) /\ (InDelayed(x)' <=> InDelayed(x) \/ x = m)
  <2>1. CASE ready' = Append(ready, m) /\ delayed' = delayed
    <3>1. ToSet(ready') = ToSet(ready) \cup {m}
      BY <2>1, <1>2, AppendOnce
    <3> QED
      BY <2>1, <3>1 DEF InReady, InDelayed
  <2>2. ASSUME ready' = ready, NEW d \in Delays, delayed' = delayed \cup {Entry(m, d)}
        PROVE  \A x : (InReady(x)' <=> InReady(x))
                      /\ (InDelayed(x)' <=> InDelayed(x) \/ x = m)
    <3>1. Entry(m, d).value = m
      BY DEF Entry
    <3> QED
      BY <2>2, <3>1 DEF InReady, InDelayed
  <2> QED
    BY <2>1, <2>2, <1>1
<1>5. /\ PlaceOf[m] = "unsent"
      /\ PlaceOf'[m] \in {"ready", "delayed"}
  BY <1>1, <1>4, PlaceOfProps, PlaceOfPropsNext
<1>6. \A x \in Messages \ {m} : PlaceOf'[x] = PlaceOf[x]
  <2> SUFFICES ASSUME NEW x \in Messages \ {m} PROVE PlaceOf'[x] = PlaceOf[x]
    OBVIOUS
  <2>1. /\ InFlight(x)' <=> InFlight(x)
        /\ InDLQ(x)' <=> InDLQ(x)
        /\ InReady(x)' <=> InReady(x)
        /\ InDelayed(x)' <=> InDelayed(x)
        /\ fate'[x] = fate[x]
    BY <1>1, <1>2, <1>3, <1>4
  <2> QED
    BY <2>1 DEF PlaceOf
<1>7. PlaceOf' = [PlaceOf EXCEPT ![m] = PlaceOf'[m]]
  BY <1>6, PlaceOfProps, PlaceOfPropsNext
<1> QED
  BY <1>5, <1>7 DEF Lifecycle!Next, Lifecycle!Accept

(* A delete ends one message that is in flight. *)
LEMMA DeleteImplements ==
    ASSUME PlaceInv, PlaceInv', NEW h \in inflight, Delete(h)
    PROVE  Lifecycle!Next
<1>1. /\ h.msg \in Messages /\ InFlight(h.msg)
      /\ fate \in [Messages -> {"unsent", "accepted", "removed"}]
      /\ \A g \in inflight : g.msg = h.msg => g = h
  BY DEF PlaceInv, TypeOK, Handles, InFlight, ExactlyOnePlace, OncePerContainer
<1>2. /\ inflight' = inflight \ {h} /\ fate' = [fate EXCEPT ![h.msg] = "removed"]
      /\ UNCHANGED <<ready, delayed, redriven>>
  BY DEF Delete, dlq
<1>3. PlaceOf[h.msg] = "inflight" /\ PlaceOf'[h.msg] = "gone"
  BY <1>1, <1>2, PlaceOfProps, PlaceOfPropsNext
<1>4. ASSUME NEW x \in Messages, x # h.msg PROVE PlaceOf'[x] = PlaceOf[x]
  <2>1. InFlight(x)' <=> InFlight(x)
    BY <1>2, <1>4 DEF InFlight
  <2> QED
    BY <2>1, <1>1, <1>2, <1>4 DEF PlaceOf, InReady, InDelayed, InDLQ
<1>5. PlaceOf' = [PlaceOf EXCEPT ![h.msg] = "gone"]
  BY <1>3, <1>4, PlaceOfProps, PlaceOfPropsNext
<1> QED
  BY <1>1, <1>3, <1>5 DEF Lifecycle!Next, Lifecycle!Delete

(* A release moves one message from flight to the ring buffer. *)
LEMMA ReleaseImplements ==
    ASSUME PlaceInv, PlaceInv', NEW h \in inflight, Release(h)
    PROVE  Lifecycle!Next
<1>1. /\ h.msg \in Messages /\ InFlight(h.msg) /\ ready \in Seq(Messages)
      /\ \A g \in inflight : g.msg = h.msg => g = h
      /\ \A x \in Messages : OneContainer(x)
  BY DEF PlaceInv, TypeOK, Handles, InFlight, ExactlyOnePlace, OncePerContainer
<1>2. /\ inflight' = inflight \ {h} /\ ready' = Append(ready, h.msg)
      /\ UNCHANGED <<delayed, redriven, fate>>
  BY DEF Release, dlq
<1>3. ToSet(ready') = ToSet(ready) \cup {h.msg}
  <2>1. h.msg \notin ToSet(ready) /\ Once(ready)
    BY <1>1 DEF OneContainer, InReady, PlaceInv, ExactlyOnePlace,
                OncePerContainer, Once
  <2> QED
    BY <2>1, <1>1, <1>2, AppendOnce
<1>4. PlaceOf[h.msg] = "inflight" /\ PlaceOf'[h.msg] = "ready"
  <2>1. InReady(h.msg)'
    BY <1>3 DEF InReady
  <2> QED
    BY <2>1, <1>1, PlaceOfProps, PlaceOfPropsNext
<1>5. ASSUME NEW x \in Messages, x # h.msg PROVE PlaceOf'[x] = PlaceOf[x]
  <2>1. (InFlight(x)' <=> InFlight(x)) /\ (InReady(x)' <=> InReady(x))
    BY <1>2, <1>3, <1>5 DEF InFlight, InReady
  <2> QED
    BY <2>1, <1>2, <1>5 DEF PlaceOf, InDelayed, InDLQ
<1> QED
  BY <1>4, <1>5, MovesAreProgress DEF Lifecycle!Moves

(* Purge ends every message of the queue but not of the DLQ. *)
LEMMA PurgeImplements ==
    ASSUME PlaceInv, PlaceInv', Purge
    PROVE  Lifecycle!Next
<1>1. /\ ready' = <<>> /\ delayed' = {} /\ inflight' = {}
      /\ fate' = [m \in Messages |->
             IF InReady(m) \/ InDelayed(m) \/ InFlight(m)
             THEN "removed" ELSE fate[m]]
      /\ redriven' = redriven
  BY DEF Purge, dlq
<1>2. ToSet(ready') = {}
  BY <1>1 DEF ToSet
<1>3. \A m \in Messages :
          PlaceOf'[m] = IF PlaceOf[m] \in {"delayed", "ready", "inflight"}
                        THEN "gone" ELSE PlaceOf[m]
  <2> SUFFICES ASSUME NEW m \in Messages
               PROVE  PlaceOf'[m] =
                          IF PlaceOf[m] \in {"delayed", "ready", "inflight"}
                          THEN "gone" ELSE PlaceOf[m]
    OBVIOUS
  <2>1. ~InReady(m)' /\ ~InDelayed(m)' /\ ~InFlight(m)' /\ (InDLQ(m)' <=> InDLQ(m))
    BY <1>1, <1>2 DEF InReady, InDelayed, InFlight, InDLQ
  <2>3. CASE InReady(m) \/ InDelayed(m) \/ InFlight(m)
    <3>1. fate'[m] = "removed" /\ PlaceOf[m] \in {"delayed", "ready", "inflight"}
      BY <2>3, <1>1, PlaceOfProps
    <3> QED
      BY <3>1, PlaceOfPropsNext
  <2>4. CASE ~(InReady(m) \/ InDelayed(m) \/ InFlight(m))
    <3>1. fate'[m] = fate[m] /\ PlaceOf[m] \notin {"delayed", "ready", "inflight"}
      BY <2>4, <1>1, PlaceOfProps
    <3>2. PlaceOf'[m] = PlaceOf[m]
      BY <2>1, <2>4, <3>1 DEF PlaceOf
    <3> QED
      BY <3>1, <3>2
  <2> QED
    BY <2>3, <2>4
<1>4. PlaceOf' = [m \in Messages |->
                    IF PlaceOf[m] \in {"delayed", "ready", "inflight"}
                    THEN "gone" ELSE PlaceOf[m]]
  BY <1>3, PlaceOfPropsNext
<1> QED
  BY <1>4 DEF Lifecycle!Next, Lifecycle!Purge

(* Steps that move no message. *)
LEMMA OthersStutter ==
    ASSUME UNCHANGED <<ready, inflight, redriven, fate>>,
           \A m : InDelayed(m)' <=> InDelayed(m)
    PROVE  UNCHANGED PlaceOf
BY DEF PlaceOf, InReady, InFlight, InDLQ

(* Every step is a step of MessageLifecycle or changes no place. *)
LEMMA StepImplements ==
    PlaceInv /\ PlaceInv' /\ [Next]_vars => [Lifecycle!Next]_PlaceOf
<1> SUFFICES ASSUME PlaceInv, PlaceInv', [Next]_vars
             PROVE  Lifecycle!Next \/ UNCHANGED PlaceOf
  OBVIOUS
<1> DEFINE Implemented == Lifecycle!Next \/ UNCHANGED PlaceOf
<1>1. ASSUME NEW m \in Messages, SendNow(m) \/ \E d \in Delays : SendDelayed(m, d)
      PROVE Implemented
  BY <1>1, SendImplements
<1>2. ASSUME NEW c \in Consumers, NEW k \in Batches, NEW v \in Timeouts,
             NEW w \in Waits, Receive(c, k, v, w)
      PROVE Implemented
  <2>1. PICK avail \in Available :
            \E n \in PopCounts(avail, k) : Collect(avail, n, v)
    BY <1>2 DEF Receive
  <2>2. PICK n \in PopCounts(avail, k) : Collect(avail, n, v)
    BY <2>1
  <2>3. n \in 0..Len(avail) /\ v \in Nat
    BY ParametersAssumption DEF PopCounts
  <2> QED
    BY <2>2, <2>3, CollectImplements
<1>3. ASSUME NEW c \in Consumers, Resume(c) PROVE Implemented
  <2>1. PICK avail \in Available :
            \E n \in PopCounts(avail, call[c].max) : Collect(avail, n, call[c].vis)
    BY <1>3 DEF Resume
  <2>2. PICK n \in PopCounts(avail, call[c].max) : Collect(avail, n, call[c].vis)
    BY <2>1
  <2>3. n \in 0..Len(avail) /\ call[c].vis \in Nat
    BY DEF PopCounts, PlaceInv, TypeOK
  <2> QED
    BY <2>2, <2>3, CollectImplements
<1>4. ASSUME NEW h \in inflight, Delete(h) PROVE Implemented
  BY <1>4, DeleteImplements
<1>5. ASSUME NEW h \in inflight, Release(h) PROVE Implemented
  BY <1>5, ReleaseImplements
<1>6. CASE Purge
  BY <1>6, PurgeImplements
<1>7. CASE MatureDelayed
  BY <1>7, MatureImplements
<1>8. CASE ReclaimExpired
  BY <1>8, ReclaimImplements
<1>9. CASE Tick
  <2>1. \A m : InDelayed(m)' <=> InDelayed(m)
    <3>1. \A d \in delayed : Entry(d.value, Elapse(d.left)).value = d.value
      BY DEF Entry
    <3> QED
      BY <1>9, <3>1 DEF Tick, InDelayed, ElapseHeap
  <2>2. UNCHANGED <<ready, inflight, redriven, fate>>
    BY <1>9 DEF Tick, dlq
  <2> QED
    BY <2>1, <2>2, OthersStutter
<1>10. ASSUME \/ \E h \in inflight, t \in Extensions : Extend(h, t)
              \/ \E c \in Consumers : Abort(c)
              \/ \E p \in Policies : SetDLQ(p)
              \/ Close \/ DelayTick \/ VisTick \/ StopLoop
              \/ UNCHANGED vars
       PROVE Implemented
  <2>1. UNCHANGED <<ready, delayed, inflight, redriven, fate>>
    BY <1>10 DEF Extend, Abort, SetDLQ, Close, DelayTick, VisTick, StopLoop,
                 vars, buffers, dlq
  <2>2. \A m : InDelayed(m)' <=> InDelayed(m)
    BY <2>1 DEF InDelayed
  <2> QED
    BY <2>1, <2>2, OthersStutter
<1> QED
  BY <1>1, <1>2, <1>3, <1>4, <1>5, <1>6, <1>7, <1>8, <1>9, <1>10
  DEF Next, Client, Background

(* The queue implements the life cycle it promises: no accepted message is *)
(* lost, and each one moves only along the edges of MessageLifecycle.      *)
THEOREM QueueImplementsLifecycle == Spec => ImplementsLifecycle
<1>1. Init => Lifecycle!Init
  <2> SUFFICES ASSUME Init PROVE PlaceOf = [m \in Messages |-> "unsent"]
    BY DEF Lifecycle!Init
  <2>1. ToSet(ready) = {}
    BY DEF Init, ToSet
  <2> QED
    BY <2>1 DEF Init, PlaceOf, InReady, InDelayed, InFlight, InDLQ
<1> QED
  BY <1>1, StepImplements, PlaceInvariant, PTL
  DEF Spec, ImplementsLifecycle, Lifecycle!Spec

=============================================================================
