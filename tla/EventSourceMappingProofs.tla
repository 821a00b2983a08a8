---------------------- MODULE EventSourceMappingProofs ----------------------
(***************************************************************************)
(* Proofs about EventSourceMapping, for any queues, messages, mappings and *)
(* bounds.                                                                 *)
(***************************************************************************)
EXTENDS EventSourceMapping, Iteration, TLAPS

(* What Append adds to the elements of a sequence. *)
LEMMA AppendProps ==
    ASSUME NEW S, NEW s \in Seq(S), NEW e \in S
    PROVE  /\ Append(s, e) \in Seq(S)
           /\ Append(s, e) # <<>>
           /\ ToSet(Append(s, e)) = ToSet(s) \cup {e}
           /\ IsInjective(s) /\ e \notin ToSet(s) => IsInjective(Append(s, e))
<1> DEFINE t == Append(s, e)
<1>1. /\ t \in Seq(S) /\ Len(t) = Len(s) + 1 /\ Len(s) \in Nat
      /\ DOMAIN t = 1 .. Len(t) /\ DOMAIN s = 1 .. Len(s)
      /\ \A i \in 1 .. Len(s) : t[i] = s[i]
      /\ t[Len(t)] = e
  OBVIOUS
<1>2. ToSet(t) = ToSet(s) \cup {e}
  <2>1. \A x \in ToSet(s) : x \in ToSet(t)
    BY <1>1 DEF ToSet
  <2>2. e \in ToSet(t)
    BY <1>1 DEF ToSet
  <2>3. \A i \in 1 .. Len(t) : i \in 1 .. Len(s) \/ i = Len(t)
    BY <1>1
  <2>4. \A x \in ToSet(t) : x \in ToSet(s) \cup {e}
    BY <1>1, <2>3 DEF ToSet
  <2> QED
    BY <2>1, <2>2, <2>4
<1>3. ASSUME IsInjective(s), e \notin ToSet(s) PROVE IsInjective(t)
  <2> SUFFICES ASSUME NEW i \in 1 .. Len(t), NEW j \in 1 .. Len(t), t[i] = t[j]
               PROVE  i = j
    BY <1>1 DEF IsInjective
  <2>1. \A k \in 1 .. Len(s) : s[k] # e
    BY <1>1, <1>3 DEF ToSet
  <2>2. \A a, b \in 1 .. Len(s) : s[a] = s[b] => a = b
    BY <1>1, <1>3 DEF IsInjective
  <2> QED
    BY <1>1, <2>1, <2>2
<1> QED
  BY <1>1, <1>2, <1>3

(* What Head and Tail take off one. *)
LEMMA TailProps ==
    ASSUME NEW S, NEW s \in Seq(S), s # <<>>
    PROVE  /\ Head(s) \in S
           /\ Head(s) \in ToSet(s)
           /\ Tail(s) \in Seq(S)
           /\ ToSet(Tail(s)) \subseteq ToSet(s)
           /\ IsInjective(s) => /\ IsInjective(Tail(s))
                                /\ ToSet(Tail(s)) = ToSet(s) \ {Head(s)}
<1> DEFINE t == Tail(s)
<1>1. /\ t \in Seq(S) /\ Len(t) = Len(s) - 1 /\ Len(s) \in Nat /\ Len(s) >= 1
      /\ DOMAIN t = 1 .. Len(t) /\ DOMAIN s = 1 .. Len(s)
      /\ \A i \in 1 .. Len(t) : t[i] = s[i + 1]
      /\ Head(s) = s[1] /\ Head(s) \in S
  OBVIOUS
<1>2. Head(s) \in ToSet(s)
  BY <1>1 DEF ToSet
<1>3. ToSet(t) \subseteq ToSet(s)
  <2>1. \A i \in 1 .. Len(t) : i + 1 \in 1 .. Len(s)
    BY <1>1
  <2> QED
    BY <1>1, <2>1 DEF ToSet
<1>4. ASSUME IsInjective(s)
      PROVE  IsInjective(t) /\ ToSet(t) = ToSet(s) \ {Head(s)}
  <2>1. \A a, b \in 1 .. Len(s) : s[a] = s[b] => a = b
    BY <1>1, <1>4 DEF IsInjective
  <2>2. IsInjective(t)
    BY <1>1, <2>1 DEF IsInjective
  <2>3. \A i \in 1 .. Len(s) : i = 1 \/ (i - 1 \in 1 .. Len(t) /\ t[i - 1] = s[i])
    BY <1>1
  <2>4. ASSUME NEW x \in ToSet(s) PROVE x = Head(s) \/ x \in ToSet(t)
    <3>1. PICK i \in 1 .. Len(s) : x = s[i]
      BY <1>1 DEF ToSet
    <3>2. CASE i = 1
      BY <1>1, <3>1, <3>2
    <3>3. CASE i - 1 \in 1 .. Len(t) /\ t[i - 1] = s[i]
      BY <1>1, <3>1, <3>3 DEF ToSet
    <3> QED
      BY <2>3, <3>2, <3>3
  <2>5. Head(s) \notin ToSet(t)
    BY <1>1, <2>1 DEF ToSet
  <2> QED
    BY <1>3, <2>2, <2>4, <2>5
<1> QED
  BY <1>1, <1>2, <1>3, <1>4

LEMMA ToSetType ==
    ASSUME NEW S, NEW s \in Seq(S)
    PROVE  ToSet(s) \subseteq S
BY DEF ToSet

-----------------------------------------------------------------------------
(* A started poller has a queue; one that holds a batch has a message in   *)
(* it.                                                                     *)
WellFormed ==
    \A p \in Mappings :
        /\ pc[p] # "none" => source[p] \in Queues
        /\ pc[p] = "none" => fresh[p] = {}
        /\ pc[p] \in Holding => batch[p] # <<>>

TypeInv == TypeOK /\ WellFormed

(* A wired queue has a target, which may be the queue itself. *)
LEMMA TargetIsQueue ==
    ASSUME TypeOK, NEW q \in wired
    PROVE  q \in Queues /\ Target(q) \in Queues
BY PipelineParametersAssumption DEF TypeOK, Target

(* Leaves keeps the ready buffers sequences of messages. *)
LEMMA LeavesType ==
    ASSUME TypeOK, NEW q \in Queues, NEW m \in Messages,
           NEW spent \in BOOLEAN, spent => q \in wired,
           NEW rest \in Seq(Messages)
    PROVE  Leaves(q, spent, rest, m) \in [Queues -> Seq(Messages)]
<1>1. CASE spent
  <2>1. Target(q) \in Queues
    BY <1>1, TargetIsQueue
  <2>2. Leaves(q, spent, rest, m)
           = [ready EXCEPT ![q] = rest, ![Target(q)] = Append(@, m)]
    BY <1>1 DEF Leaves
  <2>3. \A s \in Seq(Messages) : Append(s, m) \in Seq(Messages)
    BY AppendProps
  <2>4. CASE Target(q) = q
    BY <2>1, <2>2, <2>3, <2>4 DEF TypeOK
  <2>5. CASE Target(q) # q
    <3>1. \A x \in Queues : /\ ready[x] \in Seq(Messages)
                            /\ Append(ready[x], m) \in Seq(Messages)
      BY <2>3 DEF TypeOK
    <3> QED
      BY <2>1, <2>2, <2>5, <3>1 DEF TypeOK
  <2> QED
    BY <2>4, <2>5
<1>2. CASE ~spent
  BY <1>2 DEF Leaves, TypeOK
<1> QED
  BY <1>1, <1>2

(* What Leaves does to every queue. *)
LEMMA LeavesProps ==
    ASSUME TypeOK, NEW q \in Queues, NEW m \in Messages,
           NEW spent \in BOOLEAN, spent => q \in wired /\ Target(q) # q,
           NEW rest \in Seq(Messages),
           NEW r, r = Leaves(q, spent, rest, m)
    PROVE  /\ r[q] = rest
           /\ \A x \in Queues \ {q} :
                 r[x] = IF spent /\ x = Target(q) THEN Append(ready[x], m)
                        ELSE ready[x]
<1>1. CASE spent
  <2>1. Target(q) \in Queues /\ Target(q) # q
    BY <1>1, TargetIsQueue
  <2>2. r = [ready EXCEPT ![q] = rest, ![Target(q)] = Append(@, m)]
    BY <1>1 DEF Leaves
  <2> QED
    BY <1>1, <2>1, <2>2 DEF TypeOK
<1>2. CASE ~spent
  <2>1. r = [ready EXCEPT ![q] = rest]
    BY <1>2 DEF Leaves
  <2> QED
    BY <1>2, <2>1 DEF TypeOK
<1> QED
  BY <1>1, <1>2

LEMMA InitType == Init => TypeInv
BY PipelineParametersAssumption
   DEF Init, TypeInv, TypeOK, WellFormed, Working, Holding

(* A step of the queues keeps the types. *)
LEMMA QueueType ==
    ASSUME TypeInv, NEW q \in Queues,
           \/ \E m \in Messages : Send(q, m) \/ Elapse(q, m)
           \/ WireDLQ(q) \/ DeleteQueue(q) \/ LoopLock(q) \/ LoopUnlock(q)
    PROVE  TypeInv'
<1> USE PipelineParametersAssumption
        DEF TypeInv, TypeOK, WellFormed, Working, Holding, Called, mapVars
<1>1. ASSUME NEW m \in Messages, Send(q, m) PROVE TypeInv'
  <2>1. Append(ready[q], m) \in Seq(Messages)
    OBVIOUS
  <2> QED
    BY <1>1, <2>1 DEF Send
<1>2. ASSUME NEW m \in Messages, Elapse(q, m) PROVE TypeInv'
  BY <1>2 DEF Elapse
<1>3. CASE WireDLQ(q)
  BY <1>3 DEF WireDLQ
<1>4. CASE DeleteQueue(q)
  BY <1>4 DEF DeleteQueue
<1>5. CASE LoopLock(q)
  BY <1>5 DEF LoopLock
<1>6. CASE LoopUnlock(q)
  BY <1>6 DEF LoopUnlock
<1> QED
  BY <1>1, <1>2, <1>3, <1>4, <1>5, <1>6

(* So does the reclaim of a message. *)
LEMMA ReclaimType ==
    ASSUME TypeInv, NEW x, NEW q \in Queues, NEW m \in Messages,
           Reclaim(x, q, m)
    PROVE  TypeInv'
<1> DEFINE spent == SpentAtReclaim(q, count[q][m])
           rest == IF spent THEN ready[q] ELSE Append(ready[q], m)
<1>1. spent \in BOOLEAN /\ (spent => q \in wired)
  BY DEF SpentAtReclaim
<1>2. rest \in Seq(Messages)
  BY AppendProps DEF TypeInv, TypeOK
<1>3. ready' = Leaves(q, spent, rest, m)
  BY DEF Reclaim
<1>4. ready' \in [Queues -> Seq(Messages)]
  <2> HIDE DEF spent, rest
  <2> QED
    BY <1>1, <1>2, <1>3, LeavesType DEF TypeInv
<1> QED
  BY <1>4 DEF Reclaim, TypeInv, TypeOK, WellFormed, mapVars

(* And the collection of one. *)
LEMMA CollectType ==
    ASSUME TypeInv, NEW p \in Mappings, Collect(p)
    PROVE  TypeInv'
<1> DEFINE q == source[p]
           m == Head(ready[q])
           n == Received(q, m)
           spent == SpentAtCollect(q, n)
<1>1. q \in Queues
  BY DEF Collect, Collecting, TypeInv, WellFormed
<1>2. m \in Messages /\ Tail(ready[q]) \in Seq(Messages)
  BY <1>1, TailProps DEF Collect, Full, TypeInv, TypeOK
<1>3. n \in 0 .. MaxReceiveCount + 1
  BY <1>1, <1>2, PipelineParametersAssumption
     DEF Received, Capped, TypeInv, TypeOK
<1>4. spent \in BOOLEAN /\ (spent => q \in wired)
  BY DEF SpentAtCollect
<1>5. ready' = Leaves(q, spent, Tail(ready[q]), m)
  BY DEF Collect
<1>6. ready' \in [Queues -> Seq(Messages)]
  <2> HIDE DEF q, m, spent
  <2> QED
    BY <1>1, <1>2, <1>4, <1>5, LeavesType DEF TypeInv
<1>7. /\ inflight' \in [Queues -> SUBSET Messages]
      /\ batch' \in [Mappings -> Seq(Messages)]
      /\ fresh' \in [Mappings -> SUBSET Messages]
      /\ \A x \in Mappings \ {p} : fresh'[x] = fresh[x] /\ batch'[x] = batch[x]
  <2>1. Append(batch[p], m) \in Seq(Messages)
    BY <1>2 DEF TypeInv, TypeOK
  <2>2. \/ inflight' = inflight /\ batch' = batch /\ fresh' = fresh
        \/ /\ inflight' = [inflight EXCEPT ![q] = @ \cup {m}]
           /\ batch' = [batch EXCEPT ![p] = Append(@, m)]
           /\ fresh' = [fresh EXCEPT ![p] = @ \cup {m}]
    BY DEF Collect
  <2> HIDE DEF q, m
  <2>3. CASE inflight' = inflight /\ batch' = batch /\ fresh' = fresh
    BY <2>3 DEF TypeInv, TypeOK
  <2>4. CASE /\ inflight' = [inflight EXCEPT ![q] = @ \cup {m}]
             /\ batch' = [batch EXCEPT ![p] = Append(@, m)]
             /\ fresh' = [fresh EXCEPT ![p] = @ \cup {m}]
    <3>1. inflight' \in [Queues -> SUBSET Messages]
      BY <1>1, <1>2, <2>4 DEF TypeInv, TypeOK
    <3> QED
      BY <1>2, <2>1, <2>4, <3>1 DEF TypeInv, TypeOK
  <2> QED
    BY <2>2, <2>3, <2>4
<1>8. /\ count' \in [Queues -> [Messages -> 0 .. MaxReceiveCount + 1]]
      /\ valid' \in [Mappings -> SUBSET Messages]
  BY <1>1, <1>2, <1>3 DEF Collect, TypeInv, TypeOK
<1>9. pc[p] \in Working /\ pc' = [pc EXCEPT ![p] = "collect"]
  BY DEF Collect, Collecting, Working
<1>10. TypeOK'
  BY <1>6, <1>7, <1>8, <1>9 DEF Collect, TypeInv, TypeOK, mapVars, Working
<1>11. WellFormed'
  BY <1>7, <1>9 DEF Collect, TypeInv, TypeOK, WellFormed, mapVars, Holding, Working
<1> QED
  BY <1>10, <1>11 DEF TypeInv

(* And every other step about a mapping. *)
LEMMA MappingType ==
    ASSUME TypeInv, NEW p \in Mappings,
           \/ \E q \in Queues : CreateMapping(p, q)
           \/ StartSQSPoller(p) \/ DeleteMapping(p)
           \/ StopPoller(p) \/ TickPoller(p) \/ Lock(p) \/ Unlock(p)
           \/ ReadHandles(p) \/ InvokeFails(p) \/ InvokeSucceeds(p)
           \/ AckMessage(p)
    PROVE  TypeInv'
<1> USE PipelineParametersAssumption
        DEF TypeInv, TypeOK, WellFormed, Working, Holding, Called, mapVars, queueVars
<1>1. ASSUME NEW q \in Queues, CreateMapping(p, q) PROVE TypeInv'
  BY <1>1 DEF CreateMapping
<1>2. CASE StartSQSPoller(p)
  BY <1>2 DEF StartSQSPoller
<1>3. CASE DeleteMapping(p)
  BY <1>3 DEF DeleteMapping
<1>4. CASE StopPoller(p)
  BY <1>4 DEF StopPoller
<1>5. CASE TickPoller(p)
  BY <1>5 DEF TickPoller
<1>6. CASE Lock(p)
  BY <1>6 DEF Lock
<1>7. CASE Unlock(p)
  BY <1>7 DEF Unlock, Collecting
<1>8. CASE ReadHandles(p)
  BY <1>8, ToSetType DEF ReadHandles
<1>9. CASE InvokeFails(p)
  BY <1>9 DEF InvokeFails
<1>10. CASE InvokeSucceeds(p)
  BY <1>10, ToSetType DEF InvokeSucceeds
<1>11. CASE AckMessage(p)
  <2>1. Tail(batch[p]) \in Seq(Messages)
    BY <1>11, TailProps DEF AckMessage
  <2> QED
    BY <1>11, <2>1 DEF AckMessage
<1> QED
  BY <1>1, <1>2, <1>3, <1>4, <1>5, <1>6, <1>7, <1>8, <1>9, <1>10, <1>11

(* Every step keeps the types. *)
LEMMA TypeStep == TypeInv /\ [Next]_vars => TypeInv'
<1> SUFFICES ASSUME TypeInv, [Next]_vars PROVE TypeInv'
  OBVIOUS
<1>1. CASE Next
  <2>1. ASSUME NEW q \in Queues, NEW m \in Messages, Reclaim(q, q, m)
        PROVE  TypeInv'
    BY <2>1, ReclaimType
  <2>2. ASSUME NEW p \in Mappings, ReclaimStep(p) PROVE TypeInv'
    <3>1. source[p] \in Queues
      BY <2>2 DEF ReclaimStep, TypeInv, WellFormed
    <3> QED
      BY <2>2, <3>1, ReclaimType DEF ReclaimStep
  <2> QED
    BY <1>1, <2>1, <2>2, QueueType, CollectType, MappingType
       DEF Next, LoopStep, PollerStep
<1>2. CASE UNCHANGED vars
  BY <1>2 DEF vars, queueVars, mapVars, TypeInv, TypeOK, WellFormed
<1> QED
  BY <1>1, <1>2

(* A reachable state of the pipeline is well typed.                        *)
THEOREM TypeCorrect == Spec => []TypeOK
<1>1. Init => TypeInv
  BY InitType
<1>2. TypeInv /\ [Next]_vars => TypeInv'
  BY TypeStep
<1>3. TypeInv => TypeOK
  BY DEF TypeInv
<1> QED
  BY <1>1, <1>2, <1>3, PTL DEF Spec

-----------------------------------------------------------------------------
(* Mutexes.                                                                *)

(* Who holds a queue's mutex is in its critical section.                   *)
Owned ==
    \A q \in Queues :
        mu[q] \notin {Nobody, q} =>
            /\ mu[q] \in Mappings
            /\ source[mu[q]] = q /\ pc[mu[q]] \in Working

(* Who is in the critical section holds the mutex. *)
Exclusion == \A p \in Mappings : pc[p] \in Working => mu[source[p]] = p

MutexInv == TypeInv /\ Owned /\ Exclusion

(* A step that leaves the mutexes and the critical sections alone. *)
Untouched ==
    /\ mu' = mu
    /\ \A p \in Mappings : /\ pc'[p] \in Working <=> pc[p] \in Working
                           /\ pc[p] \in Working => source'[p] = source[p]

LEMMA UntouchedKeeps ==
    ASSUME MutexInv, Untouched
    PROVE  Owned' /\ Exclusion'
<1>1. Owned'
  BY DEF MutexInv, Owned, Untouched
<1>2. Exclusion'
  BY DEF MutexInv, Exclusion, Untouched
<1> QED
  BY <1>1, <1>2

(* The steps of the queues are such. *)
LEMMA QueueUntouched ==
    ASSUME NEW q, NEW m,
           \/ Send(q, m) \/ Elapse(q, m) \/ WireDLQ(q) \/ DeleteQueue(q)
           \/ \E x : Reclaim(x, q, m)
    PROVE  Untouched
<1>1. mu' = mu /\ pc' = pc /\ source' = source
  BY DEF Send, Elapse, WireDLQ, DeleteQueue, Reclaim, mapVars
<1> QED
  BY <1>1 DEF Untouched

(* So are those of the mappings but Lock and Unlock. *)
LEMMA MappingUntouched ==
    ASSUME TypeInv, NEW p \in Mappings,
           \/ \E q : CreateMapping(p, q)
           \/ StartSQSPoller(p) \/ TickPoller(p) \/ Collect(p) \/ ReadHandles(p)
           \/ InvokeFails(p) \/ InvokeSucceeds(p) \/ AckMessage(p)
           \/ StopPoller(p) \/ DeleteMapping(p)
    PROVE  Untouched
<1> USE DEF Untouched, TypeInv, TypeOK, Working, queueVars, mapVars
<1>1. ASSUME NEW q, CreateMapping(p, q) PROVE Untouched
  BY <1>1 DEF CreateMapping
<1>2. CASE StartSQSPoller(p)
  BY <1>2 DEF StartSQSPoller
<1>3. CASE TickPoller(p)
  BY <1>3 DEF TickPoller
<1>4. CASE Collect(p)
  <2>1. /\ pc[p] \in Working /\ pc' = [pc EXCEPT ![p] = "collect"]
        /\ mu' = mu /\ source' = source
    BY <1>4 DEF Collect, Collecting
  <2> QED
    BY <2>1
<1>5. CASE ReadHandles(p)
  BY <1>5 DEF ReadHandles
<1>6. CASE InvokeFails(p)
  BY <1>6 DEF InvokeFails
<1>7. CASE InvokeSucceeds(p)
  BY <1>7 DEF InvokeSucceeds
<1>8. CASE AckMessage(p)
  BY <1>8 DEF AckMessage
<1>9. CASE StopPoller(p)
  BY <1>9 DEF StopPoller
<1>10. CASE DeleteMapping(p)
  BY <1>10 DEF DeleteMapping
<1> QED
  BY <1>1, <1>2, <1>3, <1>4, <1>5, <1>6, <1>7, <1>8, <1>9, <1>10

(* backgroundLoop takes a free mutex and gives back its own. *)
LEMMA LoopMutex ==
    ASSUME MutexInv, NEW q \in Queues, LoopLock(q) \/ LoopUnlock(q)
    PROVE  Owned' /\ Exclusion'
<1>1. /\ mu[q] \in {Nobody, q}
      /\ \E x \in {Nobody, q} : mu' = [mu EXCEPT ![q] = x]
      /\ pc' = pc /\ source' = source
  BY DEF LoopLock, LoopUnlock, mapVars
<1>2. Owned'
  BY <1>1 DEF MutexInv, TypeInv, TypeOK, Owned
<1>3. ASSUME NEW p \in Mappings, pc[p] \in Working PROVE source[p] # q
  BY <1>1, <1>3, PipelineParametersAssumption DEF MutexInv, Exclusion
<1>4. Exclusion'
  BY <1>1, <1>3 DEF MutexInv, TypeInv, TypeOK, Exclusion
<1> QED
  BY <1>2, <1>4

(* A poller takes a free mutex and gives back the one it holds. *)
LEMMA PollerMutex ==
    ASSUME MutexInv, NEW p \in Mappings, Lock(p) \/ Unlock(p)
    PROVE  Owned' /\ Exclusion'
<1>1. source[p] \in Queues /\ source' = source
  BY DEF Lock, Unlock, Collecting, MutexInv, TypeInv, WellFormed, mapVars
<1>2. PICK q \in Queues : q = source[p]
  BY <1>1
<1>3. CASE Lock(p)
  <2>1. /\ mu[q] = Nobody /\ mu' = [mu EXCEPT ![q] = p]
        /\ pc[p] \notin Working /\ pc' = [pc EXCEPT ![p] = "reclaim"]
    BY <1>2, <1>3 DEF Lock, Working
  <2>2. Owned'
    BY <1>1, <1>2, <2>1 DEF MutexInv, TypeInv, TypeOK, Owned, Working
  <2>3. ASSUME NEW r \in Mappings, pc[r] \in Working PROVE source[r] # q
    BY <2>1, <2>3, PipelineParametersAssumption DEF MutexInv, Exclusion
  <2>4. Exclusion'
    BY <1>1, <1>2, <2>1, <2>3 DEF MutexInv, TypeInv, TypeOK, Exclusion
  <2> QED
    BY <2>2, <2>4
<1>4. CASE Unlock(p)
  <2>1. /\ pc[p] \in Working /\ mu' = [mu EXCEPT ![q] = Nobody]
        /\ \E s \in {"select", "read"} : pc' = [pc EXCEPT ![p] = s]
    BY <1>2, <1>4 DEF Unlock, Collecting, Working
  <2>2. mu[q] = p
    BY <1>2, <2>1 DEF MutexInv, Exclusion
  <2>3. \A r \in Queues \ {q} : mu[r] \in {Nobody, r} \/ mu[r] # p
    BY <1>2 DEF MutexInv, Owned
  <2>4. Owned'
    BY <1>1, <1>2, <2>1, <2>3 DEF MutexInv, TypeInv, TypeOK, Owned, Working
  <2>5. \A r \in Mappings \ {p} : pc[r] \in Working => source[r] # q
    BY <2>2 DEF MutexInv, Exclusion
  <2>6. Exclusion'
    BY <1>1, <1>2, <2>1, <2>5 DEF MutexInv, TypeInv, TypeOK, Exclusion, Working
  <2> QED
    BY <2>4, <2>6
<1> QED
  BY <1>3, <1>4

LEMMA MutexStep == MutexInv /\ [Next]_vars => MutexInv'
<1> SUFFICES ASSUME MutexInv, [Next]_vars PROVE MutexInv'
  OBVIOUS
<1>1. TypeInv'
  BY TypeStep DEF MutexInv
<1>2. Owned' /\ Exclusion'
  <2>1. CASE Next
    BY <2>1, QueueUntouched, MappingUntouched, UntouchedKeeps, LoopMutex, PollerMutex
       DEF Next, LoopStep, PollerStep, ReclaimStep, MutexInv
  <2>2. CASE UNCHANGED vars
    BY <2>2, UntouchedKeeps DEF vars, queueVars, mapVars, Untouched
  <2> QED
    BY <2>1, <2>2
<1> QED
  BY <1>1, <1>2 DEF MutexInv

LEMMA MutexInvariant == Spec => []MutexInv
<1>1. Init => MutexInv
  BY InitType DEF Init, MutexInv, Owned, Exclusion, Working
<1> QED
  BY <1>1, MutexStep, PTL DEF Spec

(* A redrive leaves q: it goes to a queue whose mutex is free.             *)
LEMMA RedriveIsElsewhere ==
    ASSUME NEW q, mu[q] # Nobody, NEW spent, CanRedrive(q, spent), spent
    PROVE  Target(q) # q
BY DEF CanRedrive

-----------------------------------------------------------------------------
(* Where messages are, what the pollers know of them, and which are in     *)
(* nobody's way: AtMostOnePlace and ExclusiveWork are inductive only       *)
(* together with these.                                                    *)
WorkInv ==
    /\ done \subseteq sent
    /\ \A q \in Queues : late[q] \subseteq inflight[q] /\ Held(q) \subseteq sent
    /\ \A p \in Mappings :
          /\ ToSet(batch[p]) \subseteq sent
          /\ pc[p] = "ack" => ToSet(batch[p]) \subseteq done

(* What a poller has received and still has time for is nowhere but in     *)
(* flight in the poller's queue, if anywhere.                              *)
FreshInv ==
    \A p \in Mappings : \A m \in fresh[p] :
        /\ m \in sent
        /\ \A q \in Queues :
              /\ m \notin ToSet(ready[q])
              /\ m \in inflight[q] => q = source[p] /\ m \notin late[q]

PlaceInv == TypeInv /\ AtMostOnePlace /\ WorkInv /\ FreshInv /\ ExclusiveWork

LEMMA InitPlace == Init => PlaceInv
<1> SUFFICES ASSUME Init PROVE PlaceInv
  OBVIOUS
<1>1. TypeInv
  BY InitType
<1>2. ToSet(<< >>) = {} /\ IsInjective(<< >>)
  BY DEF ToSet, IsInjective
<1> QED
  BY <1>1, <1>2 DEF Init, PlaceInv, AtMostOnePlace, WorkInv, FreshInv,
                    ExclusiveWork, Held

(* q is done with m: it keeps it, or it does not and a copy is redriven.   *)
Moves(q, m, spent) ==
    /\ m \in Held(q)
    /\ spent \in BOOLEAN /\ (spent => q \in wired /\ Target(q) # q)
    /\ IsInjective(ready'[q]) /\ ToSet(ready'[q]) \cap inflight'[q] = {}
    /\ ToSet(ready'[q]) \cup inflight'[q]
          = IF spent THEN Held(q) \ {m} ELSE Held(q)
    /\ \A x \in Queues \ {q} :
          /\ inflight'[x] = inflight[x]
          /\ ready'[x] = IF spent /\ x = Target(q) THEN Append(ready[x], m)
                         ELSE ready[x]

(* Then m is in one place still.                                           *)
LEMMA MovePlaces ==
    ASSUME TypeInv, AtMostOnePlace,
           NEW q \in Queues, NEW m \in Messages, NEW spent, Moves(q, m, spent)
    PROVE  /\ AtMostOnePlace'
           /\ \A x \in Queues \ {q} :
                 ToSet(ready'[x]) = IF spent /\ x = Target(q)
                                    THEN ToSet(ready[x]) \cup {m}
                                    ELSE ToSet(ready[x])
           /\ Present' = Present
<1> USE DEF Moves
<1>1. \A x \in Queues : ready[x] \in Seq(Messages)
  BY DEF TypeInv, TypeOK
<1>2. spent => Target(q) \in Queues \ {q}
  BY TargetIsQueue DEF TypeInv
<1>3. \A x \in Queues \ {q} : m \notin Held(x)
  BY DEF AtMostOnePlace
<1>4. ASSUME NEW x \in Queues \ {q}
      PROVE  /\ IsInjective(ready'[x])
             /\ ToSet(ready'[x]) \cap inflight'[x] = {}
             /\ ToSet(ready'[x]) = IF spent /\ x = Target(q)
                                   THEN ToSet(ready[x]) \cup {m}
                                   ELSE ToSet(ready[x])
  <2>1. IsInjective(ready[x]) /\ ToSet(ready[x]) \cap inflight[x] = {}
    BY DEF AtMostOnePlace
  <2>2. m \notin ToSet(ready[x]) /\ m \notin inflight[x]
    BY <1>3 DEF Held
  <2>3. CASE spent /\ x = Target(q)
    BY <1>1, <2>1, <2>2, <2>3, AppendProps
  <2>4. CASE ~(spent /\ x = Target(q))
    BY <2>1, <2>4
  <2> QED
    BY <2>3, <2>4
<1>5. /\ Held(q)' = IF spent THEN Held(q) \ {m} ELSE Held(q)
      /\ \A x \in Queues \ {q} :
            Held(x)' = IF spent /\ x = Target(q) THEN Held(x) \cup {m}
                       ELSE Held(x)
  BY <1>4 DEF Held
<1>6. \A x \in Queues, y \in Queues : x # y => Held(x)' \cap Held(y)' = {}
  BY <1>2, <1>3, <1>5 DEF AtMostOnePlace
<1>7. AtMostOnePlace'
  BY <1>4, <1>6 DEF AtMostOnePlace
<1>8. Present' = Present
  <2>1. \A e : (\E x \in Queues : e \in Held(x)') <=> (\E x \in Queues : e \in Held(x))
    BY <1>2, <1>5
  <2> QED
    BY <2>1 DEF Present
<1> QED
  BY <1>4, <1>7, <1>8

(* Reclaiming moves a message to the ready buffer or redrives it.          *)
LEMMA ReclaimPlace ==
    ASSUME PlaceInv, NEW x \in Mappings \cup Queues,
           NEW q \in Queues, NEW m \in Messages, Reclaim(x, q, m)
    PROVE  /\ PlaceInv' /\ Present' = Present
           /\ Moves(q, m, SpentAtReclaim(q, count[q][m]))
<1> DEFINE spent == SpentAtReclaim(q, count[q][m])
           rest == IF spent THEN ready[q] ELSE Append(ready[q], m)
<1>1. TypeInv'
  BY ReclaimType DEF PlaceInv
<1>a. spent => Target(q) # q
  BY RedriveIsElsewhere, PipelineParametersAssumption DEF Reclaim
<1>2. /\ spent \in BOOLEAN /\ (spent => q \in wired /\ Target(q) # q)
      /\ ready' = Leaves(q, spent, rest, m)
      /\ inflight' = [inflight EXCEPT ![q] = @ \ {m}]
      /\ late' = [late EXCEPT ![q] = @ \ {m}]
      /\ m \in late[q]
      /\ UNCHANGED <<sent, pc, source, batch, done, fresh>>
  BY <1>a DEF Reclaim, Overdue, SpentAtReclaim, mapVars
<1>3. /\ m \in inflight[q] /\ m \notin ToSet(ready[q]) /\ m \in Held(q)
      /\ IsInjective(ready[q]) /\ ToSet(ready[q]) \cap inflight[q] = {}
      /\ ready[q] \in Seq(Messages)
  BY <1>2 DEF PlaceInv, WorkInv, AtMostOnePlace, Held, TypeInv, TypeOK
<1>4. /\ rest \in Seq(Messages) /\ IsInjective(rest)
      /\ ToSet(rest) = IF spent THEN ToSet(ready[q]) ELSE ToSet(ready[q]) \cup {m}
  <2>1. CASE spent
    BY <1>3, <2>1
  <2>2. CASE ~spent
    <3>1. rest = Append(ready[q], m)
      BY <2>2
    <3> QED
      BY <1>3, <2>2, <3>1, AppendProps
  <2> QED
    BY <2>1, <2>2
<1> HIDE DEF spent, rest
<1>5. /\ ready'[q] = rest
      /\ \A y \in Queues \ {q} :
            ready'[y] = IF spent /\ y = Target(q) THEN Append(ready[y], m)
                        ELSE ready[y]
  BY <1>2, <1>4, LeavesProps DEF PlaceInv, TypeInv
<1>6. /\ inflight'[q] = inflight[q] \ {m}
      /\ \A y \in Queues \ {q} : inflight'[y] = inflight[y] /\ late'[y] = late[y]
      /\ late'[q] = late[q] \ {m}
  BY <1>2 DEF PlaceInv, TypeInv, TypeOK
<1>7. /\ AtMostOnePlace' /\ Present' = Present /\ Moves(q, m, spent)
      /\ \A y \in Queues \ {q} :
            ToSet(ready'[y]) = IF spent /\ y = Target(q)
                               THEN ToSet(ready[y]) \cup {m} ELSE ToSet(ready[y])
  <2>1. ToSet(ready'[q]) \cap inflight'[q] = {}
    BY <1>3, <1>4, <1>5, <1>6
  <2>2. ToSet(ready'[q]) \cup inflight'[q]
           = IF spent THEN Held(q) \ {m} ELSE Held(q)
    BY <1>3, <1>4, <1>5, <1>6 DEF Held
  <2>3. \A y \in Queues \ {q} :
           /\ inflight'[y] = inflight[y]
           /\ ready'[y] = IF spent /\ y = Target(q) THEN Append(ready[y], m)
                          ELSE ready[y]
    BY <1>5, <1>6
  <2>4. TypeInv /\ AtMostOnePlace /\ IsInjective(ready'[q])
    BY <1>4, <1>5 DEF PlaceInv
  <2>5. Moves(q, m, spent)
    BY <1>2, <1>3, <2>1, <2>2, <2>3, <2>4 DEF Moves
  <2> QED
    BY <2>4, <2>5, MovePlaces
<1>8. WorkInv'
  <2>1. \A y \in Queues : late'[y] \subseteq inflight'[y]
    BY <1>6 DEF PlaceInv, WorkInv
  <2>2. \A y \in Queues : Held(y) \subseteq sent
    BY DEF PlaceInv, WorkInv
  <2>3. Held(q)' \subseteq sent
    BY <1>3, <1>4, <1>5, <1>6, <2>2 DEF Held
  <2>4. \A y \in Queues \ {q} : Held(y)' \subseteq sent
    BY <1>3, <1>6, <1>7, <2>2 DEF Held
  <2> QED
    BY <1>2, <2>1, <2>3, <2>4 DEF PlaceInv, WorkInv
<1>9. \A p \in Mappings : m \notin fresh[p]
  BY <1>2, <1>3 DEF PlaceInv, FreshInv
<1>10. FreshInv'
  <2> SUFFICES ASSUME NEW p \in Mappings, NEW e \in fresh[p], NEW y \in Queues
               PROVE  /\ e \in sent /\ e \notin ToSet(ready'[y])
                      /\ e \in inflight'[y] => y = source[p] /\ e \notin late'[y]
    BY <1>2 DEF FreshInv
  <2>1. /\ e \in sent /\ e \notin ToSet(ready[y])
        /\ e \in inflight[y] => y = source[p] /\ e \notin late[y]
    BY DEF PlaceInv, FreshInv
  <2>2. CASE y = q
    BY <1>4, <1>5, <1>6, <1>9, <2>1, <2>2
  <2>3. CASE y # q
    BY <1>6, <1>7, <1>9, <2>1, <2>3
  <2> QED
    BY <2>2, <2>3
<1>11. ExclusiveWork'
  BY <1>2 DEF PlaceInv, ExclusiveWork
<1> QED
  BY <1>1, <1>7, <1>8, <1>10, <1>11 DEF PlaceInv, spent

(* Collecting gives a message to a poller or redrives it.                  *)
LEMMA CollectPlace ==
    ASSUME PlaceInv, Exclusion, NEW p \in Mappings, Collect(p)
    PROVE  /\ PlaceInv' /\ Present' = Present
           /\ \E q \in Queues, m \in Messages :
                 /\ q = source[p] /\ m = Head(ready[q])
                 /\ Moves(q, m, SpentAtCollect(q, Received(q, m)))
<1>1. TypeInv'
  BY CollectType DEF PlaceInv
<1>a. PICK q \in Queues : q = source[p]
  BY DEF Collect, Collecting, PlaceInv, TypeInv, WellFormed
<1>b. PICK m \in Messages : m = Head(ready[q])
  BY <1>a, TailProps DEF Collect, Full, PlaceInv, TypeInv, TypeOK
<1> DEFINE rest == Tail(ready[q])
           spent == SpentAtCollect(q, Received(q, m))
<1>c. spent => Target(q) # q
  <2>1. mu[q] = p /\ CanRedrive(q, spent)
    BY <1>a, <1>b DEF Collect, Collecting, Working, Exclusion
  <2> QED
    BY <2>1, RedriveIsElsewhere, PipelineParametersAssumption
<1>2. /\ spent \in BOOLEAN /\ (spent => q \in wired /\ Target(q) # q)
      /\ ready' = Leaves(q, spent, rest, m)
      /\ UNCHANGED <<late, sent, source, done>>
      /\ pc' = [pc EXCEPT ![p] = "collect"]
      /\ IF spent
         THEN UNCHANGED <<inflight, batch, fresh>>
         ELSE /\ inflight' = [inflight EXCEPT ![q] = @ \cup {m}]
              /\ batch' = [batch EXCEPT ![p] = Append(@, m)]
              /\ fresh' = [fresh EXCEPT ![p] = @ \cup {m}]
      /\ ready[q] # <<>>
  BY <1>a, <1>b, <1>c DEF Collect, Full, SpentAtCollect, mapVars
<1>3. q = source[p] /\ source' = source
  BY <1>a DEF Collect, mapVars
<1>4. ready[q] \in Seq(Messages) /\ IsInjective(ready[q])
  BY <1>3 DEF PlaceInv, AtMostOnePlace, TypeInv, TypeOK
<1>5. /\ m \in ToSet(ready[q])
      /\ rest \in Seq(Messages) /\ IsInjective(rest)
      /\ ToSet(rest) = ToSet(ready[q]) \ {m}
  BY <1>2, <1>4, <1>b, TailProps
<1> HIDE DEF rest, spent
<1>6. /\ m \in Held(q) /\ m \notin inflight[q] /\ m \notin late[q] /\ m \in sent
      /\ ToSet(ready[q]) \cap inflight[q] = {}
  BY <1>3, <1>5 DEF PlaceInv, WorkInv, AtMostOnePlace, Held
<1>7. /\ ready'[q] = rest
      /\ \A y \in Queues \ {q} :
            ready'[y] = IF spent /\ y = Target(q) THEN Append(ready[y], m)
                        ELSE ready[y]
  BY <1>2, <1>3, <1>5, LeavesProps DEF PlaceInv, TypeInv
<1>8. /\ inflight'[q] = IF spent THEN inflight[q] ELSE inflight[q] \cup {m}
      /\ \A y \in Queues \ {q} : inflight'[y] = inflight[y]
  BY <1>2, <1>3 DEF PlaceInv, TypeInv, TypeOK
<1>9. /\ AtMostOnePlace' /\ Present' = Present /\ Moves(q, m, spent)
      /\ \A y \in Queues \ {q} :
            ToSet(ready'[y]) = IF spent /\ y = Target(q)
                               THEN ToSet(ready[y]) \cup {m} ELSE ToSet(ready[y])
  <2>1. ToSet(ready'[q]) \cap inflight'[q] = {}
    BY <1>5, <1>6, <1>7, <1>8
  <2>2. ToSet(ready'[q]) \cup inflight'[q]
           = IF spent THEN Held(q) \ {m} ELSE Held(q)
    BY <1>5, <1>6, <1>7, <1>8 DEF Held
  <2>3. \A y \in Queues \ {q} :
           /\ inflight'[y] = inflight[y]
           /\ ready'[y] = IF spent /\ y = Target(q) THEN Append(ready[y], m)
                          ELSE ready[y]
    BY <1>7, <1>8
  <2>4. TypeInv /\ AtMostOnePlace /\ IsInjective(ready'[q])
    BY <1>5, <1>7 DEF PlaceInv
  <2>5. Moves(q, m, spent)
    BY <1>2, <1>6, <2>1, <2>2, <2>3, <2>4 DEF Moves
  <2> QED
    BY <1>3, <1>5, <2>4, <2>5, MovePlaces
<1>10. /\ \A r \in Mappings \ {p} : batch'[r] = batch[r] /\ fresh'[r] = fresh[r]
       /\ ToSet(batch'[p]) \subseteq ToSet(batch[p]) \cup {m}
       /\ fresh'[p] = IF spent THEN fresh[p] ELSE fresh[p] \cup {m}
  <2>1. batch[p] \in Seq(Messages)
    BY DEF PlaceInv, TypeInv, TypeOK
  <2>2. ToSet(Append(batch[p], m)) = ToSet(batch[p]) \cup {m}
    BY <1>5, <2>1, AppendProps
  <2> QED
    BY <1>2, <2>2 DEF PlaceInv, TypeInv, TypeOK
<1>11. WorkInv'
  <2>1. \A y \in Queues : late'[y] \subseteq inflight'[y]
    BY <1>2, <1>8 DEF PlaceInv, WorkInv
  <2>2. \A y \in Queues : Held(y) \subseteq sent
    BY DEF PlaceInv, WorkInv
  <2>3. Held(q)' \subseteq sent
    <3>1. ToSet(ready[q]) \subseteq sent /\ inflight[q] \subseteq sent
      BY <1>3, <2>2 DEF Held
    <3>2. ToSet(ready'[q]) \subseteq sent /\ inflight'[q] \subseteq sent
      BY <1>3, <1>5, <1>6, <1>7, <1>8, <3>1
    <3> QED
      BY <3>2 DEF Held
  <2>4. \A y \in Queues \ {q} : Held(y)' \subseteq sent
    BY <1>6, <1>8, <1>9, <2>2 DEF Held
  <2>5. \A r \in Mappings :
           /\ ToSet(batch'[r]) \subseteq sent
           /\ pc'[r] = "ack" => ToSet(batch'[r]) \subseteq done
    BY <1>2, <1>6, <1>10 DEF PlaceInv, WorkInv, TypeInv, TypeOK
  <2>6. done' \subseteq sent' /\ sent' = sent /\ done' = done
    BY <1>2 DEF PlaceInv, WorkInv
  <2>7. \A y \in Queues : Held(y)' \subseteq sent'
    BY <2>3, <2>4, <2>6
  <2> QED
    BY <2>1, <2>5, <2>6, <2>7 DEF WorkInv
<1>12. \A r \in Mappings : m \notin fresh[r]
  BY <1>3, <1>5 DEF PlaceInv, FreshInv
<1>13. FreshInv'
  <2> SUFFICES ASSUME NEW r \in Mappings, NEW e \in fresh'[r], NEW y \in Queues
               PROVE  /\ e \in sent /\ e \notin ToSet(ready'[y])
                      /\ e \in inflight'[y] => y = source[r] /\ e \notin late[y]
    BY <1>2, <1>3 DEF FreshInv
  <2>1. CASE e \in fresh[r]
    <3>1. /\ e # m /\ e \in sent /\ e \notin ToSet(ready[y])
          /\ e \in inflight[y] => y = source[r] /\ e \notin late[y]
      BY <1>12, <2>1 DEF PlaceInv, FreshInv
    <3>2. CASE y = q
      BY <1>5, <1>7, <1>8, <3>1, <3>2
    <3>3. CASE y # q
      BY <1>8, <1>9, <3>1, <3>3
    <3> QED
      BY <3>2, <3>3
  <2>2. CASE e \notin fresh[r]
    <3>1. r = p /\ e = m /\ ~spent
      BY <1>10, <2>2
    <3>2. y # q => m \notin Held(y)
      BY <1>3, <1>6 DEF PlaceInv, AtMostOnePlace
    <3>3. CASE y = q
      BY <1>3, <1>5, <1>6, <1>7, <3>1, <3>3
    <3>4. CASE y # q
      BY <1>6, <1>8, <1>9, <3>1, <3>2, <3>4 DEF Held
    <3> QED
      BY <3>3, <3>4
  <2> QED
    BY <2>1, <2>2
<1>14. ExclusiveWork'
  BY <1>10, <1>12 DEF PlaceInv, ExclusiveWork
<1>15. PlaceInv' /\ Present' = Present
  BY <1>1, <1>9, <1>11, <1>13, <1>14 DEF PlaceInv
<1> QED
  BY <1>3, <1>9, <1>15, <1>b DEF spent

(* The queues' other steps: a message accepted, a deadline past.           *)
LEMMA QueuePlace ==
    ASSUME PlaceInv, NEW q \in Queues, NEW m \in Messages,
           Send(q, m) \/ Elapse(q, m)
    PROVE  PlaceInv'
<1>1. TypeInv'
  BY QueueType DEF PlaceInv
<1>2. CASE Send(q, m)
  <2>1. /\ m \notin sent /\ sent' = sent \cup {m}
        /\ ready' = [ready EXCEPT ![q] = Append(@, m)]
        /\ UNCHANGED <<inflight, late, source, pc, batch, done, fresh>>
    BY <1>2 DEF Send, mapVars
  <2>2. /\ \A x \in Queues : m \notin Held(x)
        /\ \A x \in Queues : m \notin ToSet(ready[x]) /\ m \notin inflight[x]
        /\ \A p \in Mappings : m \notin fresh[p]
    BY <2>1 DEF PlaceInv, WorkInv, FreshInv, Held
  <2>3. /\ \A x \in Queues \ {q} : ready'[x] = ready[x]
        /\ IsInjective(ready'[q])
        /\ ToSet(ready'[q]) = ToSet(ready[q]) \cup {m}
    BY <2>1, <2>2, AppendProps
       DEF PlaceInv, AtMostOnePlace, TypeInv, TypeOK
  <2>4. /\ Held(q)' = Held(q) \cup {m}
        /\ \A x \in Queues \ {q} : Held(x)' = Held(x)
    BY <2>1, <2>3 DEF Held
  <2>5. AtMostOnePlace'
    <3>1. \A x \in Queues : /\ IsInjective(ready'[x])
                            /\ ToSet(ready'[x]) \cap inflight'[x] = {}
      BY <2>1, <2>2, <2>3 DEF PlaceInv, AtMostOnePlace
    <3>2. \A x \in Queues, y \in Queues : x # y => Held(x)' \cap Held(y)' = {}
      BY <2>2, <2>4 DEF PlaceInv, AtMostOnePlace
    <3> QED
      BY <3>1, <3>2 DEF AtMostOnePlace
  <2>6. WorkInv'
    BY <2>1, <2>4 DEF PlaceInv, WorkInv
  <2>7. FreshInv'
    BY <2>1, <2>2, <2>3 DEF PlaceInv, FreshInv
  <2>8. ExclusiveWork'
    BY <2>1 DEF PlaceInv, ExclusiveWork
  <2> QED
    BY <1>1, <2>5, <2>6, <2>7, <2>8 DEF PlaceInv
<1>3. CASE Elapse(q, m)
  <2>1. /\ m \in inflight[q]
        /\ late' = [late EXCEPT ![q] = @ \cup {m}]
        /\ fresh' = [p \in Mappings |->
                       IF source[p] = q THEN fresh[p] \ {m} ELSE fresh[p]]
        /\ UNCHANGED <<ready, inflight, sent, source, pc, batch, done>>
    BY <1>3 DEF Elapse, mapVars
  <2>2. AtMostOnePlace'
    BY <2>1 DEF PlaceInv, AtMostOnePlace, Held
  <2>3. WorkInv'
    BY <2>1 DEF PlaceInv, WorkInv, Held, TypeInv, TypeOK
  <2>4. FreshInv'
    BY <2>1 DEF PlaceInv, FreshInv, TypeInv, TypeOK
  <2>5. ExclusiveWork'
    BY <2>1 DEF PlaceInv, ExclusiveWork
  <2> QED
    BY <1>1, <2>2, <2>3, <2>4, <2>5 DEF PlaceInv
<1> QED
  BY <1>2, <1>3

(* The pollers' steps that change what they have, and the deletions their  *)
(* acknowledgements make.                                                  *)
LEMMA PollerPlace ==
    ASSUME PlaceInv, NEW p \in Mappings,
           InvokeFails(p) \/ InvokeSucceeds(p) \/ AckMessage(p)
    PROVE  PlaceInv'
<1>1. TypeInv'
  BY MappingType DEF PlaceInv
<1>2. CASE InvokeFails(p)
  <2>1. ToSet(<< >>) = {}
    BY DEF ToSet
  <2> QED
    BY <1>1, <1>2, <2>1
       DEF InvokeFails, queueVars, mapVars, PlaceInv, AtMostOnePlace, WorkInv,
           FreshInv, ExclusiveWork, Held, TypeInv, TypeOK
<1>3. CASE InvokeSucceeds(p)
  BY <1>1, <1>3
     DEF InvokeSucceeds, queueVars, mapVars, PlaceInv, AtMostOnePlace, WorkInv,
         FreshInv, ExclusiveWork, Held, TypeInv, TypeOK
<1>4. CASE AckMessage(p)
  <2>1. /\ pc[p] = "ack" /\ batch[p] # <<>> /\ batch[p] \in Seq(Messages)
        /\ UNCHANGED <<ready, sent, source, done>>
        /\ batch' = [batch EXCEPT ![p] = Tail(@)]
        /\ \A x \in Queues : inflight'[x] \subseteq inflight[x]
        /\ \A x \in Queues : late'[x] = late[x] \cap inflight'[x]
        /\ \A r \in Mappings : fresh'[r] \subseteq fresh[r]
        /\ \A r \in Mappings \ {p} : pc'[r] = pc[r]
    BY <1>4 DEF AckMessage, mapVars, PlaceInv, WorkInv, TypeInv, TypeOK,
                WellFormed, Holding
  <2>2. ToSet(Tail(batch[p])) \subseteq ToSet(batch[p])
    BY <2>1, TailProps
  <2>3. \A x \in Queues : Held(x)' \subseteq Held(x)
    BY <2>1 DEF Held
  <2>4. AtMostOnePlace'
    BY <2>1, <2>3 DEF PlaceInv, AtMostOnePlace
  <2>5. WorkInv'
    BY <2>1, <2>2, <2>3 DEF PlaceInv, WorkInv, TypeInv, TypeOK
  <2>6. FreshInv'
    BY <2>1 DEF PlaceInv, FreshInv
  <2>7. ExclusiveWork'
    BY <2>1 DEF PlaceInv, ExclusiveWork
  <2> QED
    BY <1>1, <2>4, <2>5, <2>6, <2>7 DEF PlaceInv
<1> QED
  BY <1>2, <1>3, <1>4

(* Steps that move nothing and tell nobody anything.                       *)
LEMMA QuietPlace ==
    ASSUME PlaceInv, TypeInv',
           UNCHANGED <<ready, inflight, late, sent, batch, done, fresh>>,
           \A p \in Mappings : pc'[p] = "ack" => pc[p] = "ack",
           \A p \in Mappings : source'[p] = source[p] \/ fresh[p] = {}
    PROVE  PlaceInv' /\ Present' = Present
<1>1. AtMostOnePlace' /\ Present' = Present
  BY DEF PlaceInv, AtMostOnePlace, Held, Present
<1>2. WorkInv'
  BY DEF PlaceInv, WorkInv, Held
<1>3. FreshInv'
  BY DEF PlaceInv, FreshInv
<1>4. ExclusiveWork'
  BY DEF PlaceInv, ExclusiveWork
<1> QED
  BY <1>1, <1>2, <1>3, <1>4 DEF PlaceInv

(* Which they are.                                                         *)
LEMMA QuietSteps ==
    ASSUME PlaceInv,
           \/ \E q \in Queues : \/ WireDLQ(q) \/ DeleteQueue(q)
                               \/ LoopLock(q) \/ LoopUnlock(q)
           \/ \E p \in Mappings : \/ \E q \in Queues : CreateMapping(p, q)
                                 \/ StartSQSPoller(p) \/ DeleteMapping(p)
                                 \/ StopPoller(p) \/ TickPoller(p)
                                 \/ Lock(p) \/ Unlock(p) \/ ReadHandles(p)
    PROVE  /\ PlaceInv'
           /\ UNCHANGED <<ready, inflight, sent, done>> /\ Present' = Present
<1>1. TypeInv'
  BY QueueType, MappingType DEF PlaceInv
<1>2. /\ UNCHANGED <<ready, inflight, late, sent, batch, done, fresh>>
      /\ \A p \in Mappings : pc'[p] = "ack" => pc[p] = "ack"
      /\ \A p \in Mappings : source'[p] = source[p] \/ fresh[p] = {}
  <2> USE DEF queueVars, mapVars, PlaceInv, TypeInv, TypeOK, WellFormed
  <2>1. CASE \E q \in Queues : \/ WireDLQ(q) \/ DeleteQueue(q)
                             \/ LoopLock(q) \/ LoopUnlock(q)
    BY <2>1 DEF WireDLQ, DeleteQueue, LoopLock, LoopUnlock
  <2>2. ASSUME NEW p \in Mappings, NEW q \in Queues, CreateMapping(p, q)
        PROVE  <1>2!1 /\ <1>2!2 /\ <1>2!3
    BY <2>2 DEF CreateMapping
  <2>3. ASSUME NEW p \in Mappings,
               \/ StartSQSPoller(p) \/ DeleteMapping(p) \/ StopPoller(p)
               \/ TickPoller(p) \/ Lock(p) \/ Unlock(p) \/ ReadHandles(p)
        PROVE  <1>2!1 /\ <1>2!2 /\ <1>2!3
    BY <2>3 DEF StartSQSPoller, DeleteMapping, StopPoller, TickPoller, Lock,
                Unlock, ReadHandles
  <2> QED
    BY <2>1, <2>2, <2>3
<1> QED
  BY <1>1, <1>2, QuietPlace

LEMMA PlaceStep == PlaceInv /\ Exclusion /\ [Next]_vars => PlaceInv'
<1> SUFFICES ASSUME PlaceInv, Exclusion, [Next]_vars PROVE PlaceInv'
  OBVIOUS
<1>1. CASE Next
  <2>1. ASSUME NEW q \in Queues, NEW m \in Messages, Reclaim(q, q, m)
        PROVE  PlaceInv'
    BY <2>1, ReclaimPlace
  <2>2. ASSUME NEW p \in Mappings, ReclaimStep(p) PROVE PlaceInv'
    <3>1. source[p] \in Queues
      BY <2>2 DEF ReclaimStep, PlaceInv, TypeInv, WellFormed
    <3> QED
      BY <2>2, <3>1, ReclaimPlace DEF ReclaimStep
  <2> QED
    BY <1>1, <2>1, <2>2, QueuePlace, CollectPlace, PollerPlace, QuietSteps
       DEF Next, LoopStep, PollerStep
<1>2. CASE UNCHANGED vars
  <2>1. TypeInv'
    BY <1>2, TypeStep DEF PlaceInv
  <2> QED
    BY <1>2, <2>1, QuietPlace DEF vars, queueVars, mapVars
<1> QED
  BY <1>1, <1>2

LEMMA PlaceInvariant == Spec => [](PlaceInv /\ Exclusion)
<1>1. MutexInv => Exclusion
  BY DEF MutexInv
<1> QED
  BY <1>1, InitPlace, PlaceStep, MutexInvariant, PTL DEF Spec

(* Redrives and late acknowledgements keep a message in at most one place. *)
THEOREM OnePlace == Spec => []AtMostOnePlace
<1>1. PlaceInv => AtMostOnePlace
  BY DEF PlaceInv
<1> QED
  BY <1>1, PlaceInvariant, PTL

(* Nobody receives what another poller still has time for.                 *)
THEOREM Exclusive == Spec => []ExclusiveWork
<1>1. PlaceInv => ExclusiveWork
  BY DEF PlaceInv
<1> QED
  BY <1>1, PlaceInvariant, PTL

-----------------------------------------------------------------------------
(* A message that stays where it is, or goes to a ready buffer only, does  *)
(* not break the counts.                                                   *)
LEMMA AttemptsIfStill ==
    ASSUME PlaceInv,
           \A q \in Queues : inflight'[q] \subseteq inflight[q],
           \A q \in Queues, m \in sent : m \in Held(q)' => m \in Held(q)
    PROVE  AttemptsStep
BY DEF AttemptsStep, PlaceInv, AtMostOnePlace, WorkInv, TypeInv, TypeOK

(* One that q gives out or redrives respects them if it was given out      *)
(* MaxReceiveCount times, or fewer.                                        *)
LEMMA AttemptsIfMoved ==
    ASSUME PlaceInv, NEW q \in Queues, NEW m \in Messages, NEW spent,
           Moves(q, m, spent),
           spent => count[q][m] >= MaxReceiveCount,
           q \in wired => \A e \in inflight'[q] \ inflight[q] :
                             count[q][e] < MaxReceiveCount
    PROVE  AttemptsStep
<1> USE DEF Moves
<1>1. AtMostOnePlace /\ wired \subseteq Queues
  BY DEF PlaceInv, TypeInv, TypeOK
<1>2. \A y \in Queues \ {q} :
         ToSet(ready'[y]) = IF spent /\ y = Target(q)
                            THEN ToSet(ready[y]) \cup {m} ELSE ToSet(ready[y])
  BY MovePlaces DEF PlaceInv
<1>3. /\ Held(q)' \subseteq Held(q)
      /\ \A y \in Queues \ {q} :
            Held(y)' = Held(y) \/ (spent /\ Held(y)' = Held(y) \cup {m})
  BY <1>2 DEF Held
<1>4. ASSUME NEW x \in wired, NEW e \in Messages, e \in Held(x),
             NEW y \in Queues \ {x}, e \in Held(y)'
      PROVE  count[x][e] >= MaxReceiveCount
  <2>1. x \in Queues /\ e \notin Held(y)
    BY <1>1, <1>4 DEF AtMostOnePlace
  <2>2. spent /\ e = m
    BY <1>3, <1>4, <2>1
  <2>3. x = q
    BY <1>1, <1>4, <2>1, <2>2 DEF AtMostOnePlace
  <2> QED
    BY <2>2, <2>3
<1>5. ASSUME NEW x \in wired, NEW e \in inflight'[x] \ inflight[x]
      PROVE  count[x][e] < MaxReceiveCount
  BY <1>1
<1> QED
  BY <1>4, <1>5 DEF AttemptsStep

LEMMA AttemptsReclaim ==
    ASSUME PlaceInv, NEW x \in Mappings \cup Queues,
           NEW q \in Queues, NEW m \in Messages, Reclaim(x, q, m)
    PROVE  AttemptsStep
<1> DEFINE spent == SpentAtReclaim(q, count[q][m])
<1>1. Moves(q, m, spent)
  BY ReclaimPlace
<1>2. spent => count[q][m] >= MaxReceiveCount
  BY DEF SpentAtReclaim
<1>3. inflight'[q] \subseteq inflight[q]
  BY DEF Reclaim, PlaceInv, TypeInv, TypeOK
<1> HIDE DEF spent
<1> QED
  BY <1>1, <1>2, <1>3, AttemptsIfMoved

LEMMA AttemptsCollect ==
    ASSUME PlaceInv, Exclusion, NEW p \in Mappings, Collect(p)
    PROVE  AttemptsStep
<1>1. PICK q \in Queues, m \in Messages :
         /\ q = source[p] /\ m = Head(ready[q])
         /\ Moves(q, m, SpentAtCollect(q, Received(q, m)))
  BY CollectPlace
<1> DEFINE n == Received(q, m)
           spent == SpentAtCollect(q, n)
<1>2. /\ count[q][m] \in Nat /\ MaxReceiveCount \in Nat
      /\ n > MaxReceiveCount => count[q][m] >= MaxReceiveCount
      /\ ~(n > MaxReceiveCount) => count[q][m] < MaxReceiveCount
  BY PipelineParametersAssumption
     DEF Received, Capped, PlaceInv, TypeInv, TypeOK
<1>3. \/ inflight' = inflight
      \/ ~spent /\ inflight' = [inflight EXCEPT ![q] = @ \cup {m}]
  BY <1>1 DEF Collect
<1>4. \A e \in inflight'[q] \ inflight[q] : e = m /\ ~spent
  BY <1>3 DEF PlaceInv, TypeInv, TypeOK
<1>5. /\ spent => count[q][m] >= MaxReceiveCount
      /\ q \in wired /\ ~spent => count[q][m] < MaxReceiveCount
  BY <1>2 DEF SpentAtCollect
<1> HIDE DEF spent
<1> QED
  BY <1>1, <1>4, <1>5, AttemptsIfMoved DEF spent

LEMMA AttemptsNext ==
    ASSUME PlaceInv, Exclusion, [Next]_vars
    PROVE  [AttemptsStep]_vars
<1>1. CASE Next
  <2>1. ASSUME NEW q \in Queues, NEW m \in Messages, Reclaim(q, q, m)
        PROVE  AttemptsStep
    BY <2>1, AttemptsReclaim
  <2>2. ASSUME NEW p \in Mappings, ReclaimStep(p) PROVE AttemptsStep
    <3>1. source[p] \in Queues
      BY <2>2 DEF ReclaimStep, PlaceInv, TypeInv, WellFormed
    <3> QED
      BY <2>2, <3>1, AttemptsReclaim DEF ReclaimStep
  <2>3. ASSUME NEW q \in Queues, NEW m \in Messages, Send(q, m)
        PROVE  AttemptsStep
    <3>1. /\ m \notin sent /\ ready' = [ready EXCEPT ![q] = Append(@, m)]
          /\ inflight' = inflight
      BY <2>3 DEF Send
    <3>2. ToSet(Append(ready[q], m)) = ToSet(ready[q]) \cup {m}
      BY AppendProps DEF PlaceInv, TypeInv, TypeOK
    <3> QED
      BY <3>1, <3>2, AttemptsIfStill DEF Held, PlaceInv, TypeInv, TypeOK
  <2>4. ASSUME NEW q \in Queues, NEW m \in Messages, Elapse(q, m)
        PROVE  AttemptsStep
    BY <2>4, AttemptsIfStill DEF Elapse, Held
  <2>5. ASSUME NEW p \in Mappings,
               InvokeFails(p) \/ InvokeSucceeds(p) \/ AckMessage(p)
        PROVE  AttemptsStep
    <3>1. ready' = ready /\ \A q \in Queues : inflight'[q] \subseteq inflight[q]
      <4> USE DEF PlaceInv, TypeInv, TypeOK, queueVars
      <4>1. CASE InvokeFails(p)
        BY <4>1 DEF InvokeFails
      <4>2. CASE InvokeSucceeds(p)
        BY <4>2 DEF InvokeSucceeds
      <4>3. CASE AckMessage(p)
        BY <4>3 DEF AckMessage
      <4> QED
        BY <2>5, <4>1, <4>2, <4>3
    <3> QED
      BY <3>1, AttemptsIfStill DEF Held
  <2>6. ASSUME UNCHANGED <<ready, inflight>> PROVE AttemptsStep
    BY <2>6, AttemptsIfStill DEF Held
  <2> QED
    BY <1>1, <2>1, <2>2, <2>3, <2>4, <2>5, <2>6, AttemptsCollect, QuietSteps
       DEF Next, LoopStep, PollerStep
<1> QED
  BY <1>1

(* A dead-lettered message was given out MaxReceiveCount times, and none   *)
(* is given out more often.                                                *)
THEOREM AttemptsHold == Spec => RedriveAfterAttempts
BY PlaceInvariant, AttemptsNext, PTL DEF Spec, RedriveAfterAttempts

-----------------------------------------------------------------------------
(* The pipeline implements AtLeastOnce: a step that changes neither what   *)
(* was accepted, nor what is there, nor what was processed is a stutter.   *)
LEMMA StutterIf ==
    ASSUME UNCHANGED <<sent, done>>, Present' = Present
    PROVE  UNCHANGED Delivery!vars
BY DEF Delivery!vars

LEMMA SendAccepts ==
    ASSUME PlaceInv, NEW q \in Queues, NEW m \in Messages, Send(q, m)
    PROVE  Delivery!Accept(m)
<1>1. /\ m \notin sent /\ sent' = sent \cup {m} /\ done' = done
      /\ ready' = [ready EXCEPT ![q] = Append(@, m)] /\ inflight' = inflight
  BY DEF Send
<1>2. ToSet(Append(ready[q], m)) = ToSet(ready[q]) \cup {m}
  BY AppendProps DEF PlaceInv, TypeInv, TypeOK
<1>3. /\ Held(q)' = Held(q) \cup {m}
      /\ \A x \in Queues \ {q} : Held(x)' = Held(x)
  BY <1>1, <1>2 DEF Held, PlaceInv, TypeInv, TypeOK
<1>4. Present' = Present \cup {m}
  BY <1>3 DEF Present
<1> QED
  BY <1>1, <1>4 DEF Delivery!Accept

LEMMA SuccessProcesses ==
    ASSUME PlaceInv, NEW p \in Mappings, InvokeSucceeds(p)
    PROVE  Delivery!Process(ToSet(batch[p]))
<1>1. Present' = Present
  BY DEF InvokeSucceeds, queueVars, Present, Held
<1> QED
  BY <1>1 DEF InvokeSucceeds, queueVars, Delivery!Process, PlaceInv, WorkInv

(* What an acknowledgement removes, a successful invocation has seen; one  *)
(* that finds nothing is a stutter.                                        *)
LEMMA AckAcknowledges ==
    ASSUME PlaceInv, NEW p \in Mappings, AckMessage(p)
    PROVE  (\E m \in Messages : Delivery!Acknowledge(m)) \/ UNCHANGED Delivery!vars
<1>1. /\ pc[p] = "ack" /\ source[p] \in Queues
      /\ batch[p] # <<>> /\ batch[p] \in Seq(Messages)
  BY DEF AckMessage, PlaceInv, TypeInv, TypeOK, WellFormed, Holding
<1>2. PICK q \in Queues : q = source[p]
  BY <1>1
<1>3. PICK m \in Messages : m = Head(batch[p]) /\ m \in ToSet(batch[p])
  BY <1>1, TailProps
<1>4. m \in done /\ m \in sent
  BY <1>1, <1>3 DEF PlaceInv, WorkInv
<1>5. /\ UNCHANGED <<sent, done, ready>>
      /\ inflight' = inflight \/ inflight' = [inflight EXCEPT ![q] = @ \ {m}]
  <2>1. inflight' = [inflight EXCEPT ![q] = IF q \in named /\ m \in valid[p]
                                            THEN @ \ {m} ELSE @]
    BY <1>2, <1>3 DEF AckMessage
  <2> QED
    BY <2>1 DEF AckMessage, PlaceInv, TypeInv, TypeOK
<1>6. Present' = Present \/ Present' = Present \ {m}
  <2>1. CASE inflight' = inflight \/ m \notin inflight[q]
    <3>1. \A x \in Queues : inflight'[x] = inflight[x]
      <4>1. CASE inflight' = inflight
        BY <4>1
      <4>2. CASE inflight' = [inflight EXCEPT ![q] = @ \ {m}] /\ m \notin inflight[q]
        BY <4>2 DEF PlaceInv, TypeInv, TypeOK
      <4> QED
        BY <1>5, <2>1, <4>1, <4>2
    <3>2. \A x \in Queues : Held(x)' = Held(x)
      BY <1>5, <3>1 DEF Held
    <3> QED
      BY <3>2 DEF Present
  <2>2. CASE inflight' = [inflight EXCEPT ![q] = @ \ {m}] /\ m \in inflight[q]
    <3>1. /\ inflight'[q] = inflight[q] \ {m}
          /\ \A x \in Queues \ {q} : inflight'[x] = inflight[x]
      BY <2>2 DEF PlaceInv, TypeInv, TypeOK
    <3>2. m \in Held(q) /\ m \notin ToSet(ready[q])
      BY <2>2 DEF Held, PlaceInv, AtMostOnePlace
    <3>3. /\ Held(q)' = Held(q) \ {m}
          /\ \A x \in Queues \ {q} : Held(x)' = Held(x)
      BY <1>5, <3>1, <3>2 DEF Held
    <3>4. \A x \in Queues \ {q} : m \notin Held(x)
      BY <3>2 DEF PlaceInv, AtMostOnePlace
    <3>5. \A e : (\E x \in Queues : e \in Held(x)')
                <=> e # m /\ (\E x \in Queues : e \in Held(x))
      BY <3>3, <3>4
    <3> QED
      BY <3>5 DEF Present
  <2> QED
    BY <1>5, <2>1, <2>2
<1>7. CASE Present' = Present
  BY <1>5, <1>7, StutterIf
<1>8. CASE Present' = Present \ {m} /\ Present' # Present
  <2>1. (sent \ Present)' = (sent \ Present) \cup {m}
    BY <1>4, <1>5, <1>8
  <2>2. Delivery!Acknowledge(m)
    BY <1>4, <1>5, <2>1 DEF Delivery!Acknowledge
  <2> QED
    BY <2>2
<1> QED
  BY <1>6, <1>7, <1>8

LEMMA DeliveryInit == Init => Delivery!Init
BY DEF Init, Delivery!Init

LEMMA DeliveryNext ==
    ASSUME PlaceInv, Exclusion, [Next]_vars
    PROVE  [Delivery!Next]_(Delivery!vars)
<1>1. CASE Next
  <2>1. ASSUME NEW q \in Queues, NEW m \in Messages, Send(q, m)
        PROVE  Delivery!Next
    BY <2>1, SendAccepts DEF Delivery!Next
  <2>2. ASSUME NEW q \in Queues, NEW m \in Messages,
               Elapse(q, m) \/ Reclaim(q, q, m)
        PROVE  UNCHANGED Delivery!vars
    <3>1. CASE Elapse(q, m)
      BY <3>1, StutterIf DEF Elapse, Present, Held
    <3>2. CASE Reclaim(q, q, m)
      BY <3>2, StutterIf, ReclaimPlace DEF Reclaim
    <3> QED
      BY <2>2, <3>1, <3>2
  <2>3. ASSUME NEW p \in Mappings,
               ReclaimStep(p) \/ Collect(p) \/ InvokeFails(p)
        PROVE  UNCHANGED Delivery!vars
    <3>1. CASE ReclaimStep(p)
      <4>1. source[p] \in Queues
        BY <3>1 DEF ReclaimStep, PlaceInv, TypeInv, WellFormed
      <4> QED
        BY <3>1, <4>1, StutterIf, ReclaimPlace DEF ReclaimStep, Reclaim
    <3>2. CASE Collect(p)
      BY <3>2, StutterIf, CollectPlace DEF Collect
    <3>3. CASE InvokeFails(p)
      BY <3>3, StutterIf DEF InvokeFails, queueVars, Present, Held
    <3> QED
      BY <2>3, <3>1, <3>2, <3>3
  <2>4. ASSUME NEW p \in Mappings, InvokeSucceeds(p) PROVE Delivery!Next
    <3>1. ToSet(batch[p]) \in SUBSET Messages
      BY ToSetType DEF PlaceInv, TypeInv, TypeOK
    <3> QED
      BY <2>4, <3>1, SuccessProcesses DEF Delivery!Next
  <2>5. ASSUME NEW p \in Mappings, AckMessage(p)
        PROVE  Delivery!Next \/ UNCHANGED Delivery!vars
    BY <2>5, AckAcknowledges DEF Delivery!Next
  <2>6. \A q \in Queues : \/ WireDLQ(q) \/ DeleteQueue(q)
                         \/ LoopLock(q) \/ LoopUnlock(q)
                         => UNCHANGED Delivery!vars
    BY QuietSteps, StutterIf
  <2>7. \A p \in Mappings : \/ \E q \in Queues : CreateMapping(p, q)
                           \/ StartSQSPoller(p) \/ DeleteMapping(p)
                           \/ StopPoller(p) \/ TickPoller(p)
                           \/ Lock(p) \/ Unlock(p) \/ ReadHandles(p)
                           => UNCHANGED Delivery!vars
    BY QuietSteps, StutterIf
  <2> QED
    BY <1>1, <2>1, <2>2, <2>3, <2>4, <2>5, <2>6, <2>7
       DEF Next, LoopStep, PollerStep
<1>2. CASE UNCHANGED vars
  BY <1>2, StutterIf DEF vars, queueVars, Present, Held
<1> QED
  BY <1>1, <1>2

(* A message leaves the queues only when a successful invocation saw it.   *)
THEOREM DeliveryHolds == Spec => ImplementsDelivery
BY PlaceInvariant, DeliveryInit, DeliveryNext, PTL
   DEF Spec, ImplementsDelivery, Delivery!Spec
-----------------------------------------------------------------------------
(* Deadlock.                                                               *)

(* q's mutex is held and its holder can take its next step: reclaim a      *)
(* message, collect one, or unlock.  These are the guards of Reclaim,      *)
(* Collect, Unlock and LoopUnlock for the holder.                          *)
GoesOn(q) ==
    \/ /\ mu[q] = q \/ (mu[q] \in Mappings /\ pc[mu[q]] = "reclaim")
       /\ \E m \in Overdue(q) : CanRedrive(q, SpentAtReclaim(q, count[q][m]))
    \/ mu[q] = q /\ Overdue(q) = {}
    \/ /\ mu[q] \in Mappings /\ Collecting(mu[q])
       /\ \/ Full(mu[q])
          \/ LET m == Head(ready[q])
             IN  CanRedrive(q, SpentAtCollect(q, Received(q, m)))

(* q's mutex is held, and before it is given back a message is redriven:   *)
(* an overdue one, or the next to be collected.                            *)
MustRedrive(q) ==
    \/ /\ mu[q] = q \/ (mu[q] \in Mappings /\ pc[mu[q]] = "reclaim")
       /\ \E m \in Overdue(q) : SpentAtReclaim(q, count[q][m])
    \/ /\ mu[q] \in Mappings /\ pc[mu[q]] \in Working /\ ~Full(mu[q])
       /\ LET m == Head(ready[q]) IN SpentAtCollect(q, Received(q, m))

(* The holders of these queues wait for each other.                        *)
Circle(S) ==
    /\ S # {}
    /\ \A q \in S : q \in wired /\ MustRedrive(q) /\ Target(q) \in S

(* While mutexes are held, one of the holders goes on, or some wait for    *)
(* each other in a circle of policies.                                     *)
OnlyCirclesBlock ==
    (\E q \in Queues : mu[q] # Nobody) =>
        \/ \E q \in Queues : GoesOn(q)
        \/ \E S \in SUBSET Queues : Circle(S)

(* While mutexes are held, one of the holders goes on. *)
NoCircularWait ==
    (\E q \in Queues : mu[q] # Nobody) => \E q \in Queues : GoesOn(q)

(* A circle is never undone. *)
CircleStays == \A S \in SUBSET Queues : Circle(S) => Circle(S)'

(* A holder goes on, unless it must redrive to a queue that is held.       *)
LEMMA HolderGoesOn ==
    ASSUME MutexInv, NEW q \in Queues, mu[q] # Nobody, ~GoesOn(q)
    PROVE  q \in wired /\ MustRedrive(q) /\ mu[Target(q)] # Nobody
<1>1. CASE mu[q] = q
  <2>1. PICK m \in Overdue(q) : ~CanRedrive(q, SpentAtReclaim(q, count[q][m]))
    BY <1>1 DEF GoesOn
  <2> QED
    BY <1>1, <2>1 DEF CanRedrive, SpentAtReclaim, MustRedrive
<1>2. CASE mu[q] # q
  <2>1. mu[q] \in Mappings /\ source[mu[q]] = q /\ pc[mu[q]] \in Working
    BY <1>2 DEF MutexInv, Owned
  <2>2. CASE Collecting(mu[q])
    <3>1. /\ ~Full(mu[q])
          /\ ~CanRedrive(q, SpentAtCollect(q, Received(q, Head(ready[q]))))
      BY <2>1, <2>2 DEF GoesOn
    <3> QED
      BY <2>1, <3>1 DEF CanRedrive, SpentAtCollect, MustRedrive
  <2>3. CASE ~Collecting(mu[q])
    <3>1. pc[mu[q]] = "reclaim" /\ Overdue(q) # {}
      BY <2>1, <2>3 DEF Collecting, Working
    <3>2. PICK m \in Overdue(q) : ~CanRedrive(q, SpentAtReclaim(q, count[q][m]))
      BY <2>1, <3>1 DEF GoesOn
    <3> QED
      BY <2>1, <3>1, <3>2 DEF CanRedrive, SpentAtReclaim, MustRedrive
  <2> QED
    BY <2>2, <2>3
<1> QED
  BY <1>1, <1>2

(* So if none goes on, all that are held are a circle.                     *)
LEMMA CirclesBlock == MutexInv => OnlyCirclesBlock
<1> SUFFICES ASSUME MutexInv, NEW h \in Queues, mu[h] # Nobody,
                    \A q \in Queues : ~GoesOn(q)
             PROVE  \E S \in SUBSET Queues : Circle(S)
  BY DEF OnlyCirclesBlock
<1> DEFINE S == {q \in Queues : mu[q] # Nobody}
<1>1. \A q \in S : q \in wired /\ MustRedrive(q) /\ mu[Target(q)] # Nobody
  BY HolderGoesOn
<1>2. \A q \in S : Target(q) \in S
  BY <1>1, TargetIsQueue DEF MutexInv, TypeInv
<1>3. S \in SUBSET Queues /\ S # {}
  OBVIOUS
<1> HIDE DEF S
<1> QED
  BY <1>1, <1>2, <1>3 DEF Circle

(* Without circles of policies there is none of waits: of a circle's       *)
(* queues one has the least rank, and its target is in the circle.         *)
LEMMA AcyclicPolicies ==
    ASSUME Acyclic, TypeOK, NEW S \in SUBSET Queues, Circle(S)
    PROVE  FALSE
<1>1. PICK rank \in [Queues -> 0 .. Cardinality(Queues)] :
          \A q \in Queues : Policy[q] # NoQueue => rank[Policy[q]] < rank[q]
  BY DEF Acyclic
<1> DEFINE Ranks == {rank[q] : q \in S}
<1>2. Ranks \subseteq Nat /\ \E i : i \in Ranks
  BY DEF Circle
<1>3. PICK n \in Ranks : \A i \in Ranks : n <= i
  BY <1>2, Least
<1>4. PICK q \in S : rank[q] = n
  BY <1>3
<1>5. Target(q) \in S /\ rank[Target(q)] < rank[q]
  BY <1>1, TargetIsQueue, PipelineParametersAssumption DEF Circle, Target
<1>6. rank[Target(q)] \in Int /\ rank[q] \in Int
  BY <1>5
<1> QED
  BY <1>3, <1>4, <1>5, <1>6

(* What a wait depends on. *)
LEMMA WaitFrame ==
    ASSUME NEW q, MustRedrive(q), wired \subseteq wired',
           mu'[q] = mu[q], count'[q] = count[q],
           mu[q] \in Mappings => /\ source[mu[q]] = q /\ source'[mu[q]] = q
                                 /\ pc'[mu[q]] = pc[mu[q]]
                                 /\ batch'[mu[q]] = batch[mu[q]],
           \A m \in late[q] : SpentAtReclaim(q, count[q][m]) => m \in late'[q],
           ready[q] # << >> => /\ ready'[q] # << >>
                               /\ Head(ready'[q]) = Head(ready[q])
    PROVE  MustRedrive(q)'
<1>1. CASE /\ mu[q] = q \/ (mu[q] \in Mappings /\ pc[mu[q]] = "reclaim")
           /\ \E m \in Overdue(q) : SpentAtReclaim(q, count[q][m])
  BY <1>1 DEF MustRedrive, Overdue, SpentAtReclaim
<1>2. CASE /\ mu[q] \in Mappings /\ pc[mu[q]] \in Working /\ ~Full(mu[q])
           /\ SpentAtCollect(q, Received(q, Head(ready[q])))
  BY <1>2 DEF MustRedrive, Full, SpentAtCollect, Received, Capped
<1> QED
  BY <1>1, <1>2 DEF MustRedrive

(* q's mutex is held, and that of its target, to which it must redrive.    *)
Waits(q) == q \in wired /\ MustRedrive(q) /\ mu[Target(q)] # Nobody

LEMMA WaitFacts ==
    ASSUME MutexInv, NEW q, Waits(q)
    PROVE  /\ q \in Queues /\ mu[q] # Nobody
           /\ mu[q] \in Mappings => source[mu[q]] = q /\ pc[mu[q]] \in Working
           /\ ~CanRedrive(q, TRUE)
<1>1. q \in Queues /\ q \notin Mappings /\ q # Nobody /\ Nobody \notin Mappings
  BY PipelineParametersAssumption DEF Waits, MutexInv, TypeInv, TypeOK
<1>2. mu[q] = q \/ mu[q] \in Mappings
  BY DEF Waits, MustRedrive
<1> QED
  BY <1>1, <1>2 DEF MutexInv, Owned, Waits, CanRedrive

(* A redrive from elsewhere does not go to q, whose mutex is held, and q   *)
(* makes none.                                                             *)
LEMMA WaitLeaves ==
    ASSUME MutexInv, NEW q, Waits(q), NEW r \in Queues, NEW m \in Messages,
           NEW spent \in BOOLEAN, spent => r \in wired,
           mu[r] # Nobody, CanRedrive(r, spent), NEW rest \in Seq(Messages),
           ready' = Leaves(r, spent, rest, m)
    PROVE  /\ r = q => ~spent
           /\ ready'[q] = IF r = q THEN rest ELSE ready[q]
<1>1. q \in Queues /\ mu[q] # Nobody /\ ~CanRedrive(q, TRUE)
  BY WaitFacts
<1>2. spent => Target(r) # r /\ Target(r) # q /\ r # q
  BY <1>1 DEF CanRedrive
<1>3. /\ ready'[r] = rest
      /\ \A x \in Queues \ {r} :
            ready'[x] = IF spent /\ x = Target(r) THEN Append(ready[x], m)
                        ELSE ready[x]
  BY <1>2, LeavesProps DEF MutexInv, TypeInv
<1> QED
  BY <1>1, <1>2, <1>3

LEMMA QueueWaits ==
    ASSUME MutexInv, NEW q, Waits(q), NEW r \in Queues,
           \/ \E m \in Messages : Send(r, m) \/ Elapse(r, m)
           \/ WireDLQ(r) \/ DeleteQueue(r) \/ LoopLock(r) \/ LoopUnlock(r)
    PROVE  MustRedrive(q)'
<1>1. /\ q \in Queues /\ mu[q] # Nobody /\ MustRedrive(q)
      /\ mu[q] \in Mappings => source[mu[q]] = q
  BY WaitFacts DEF Waits
<1>2. q \notin Mappings
  BY <1>1, PipelineParametersAssumption
<1>3. /\ UNCHANGED <<count, pc, source, batch>>
      /\ wired \subseteq wired' /\ ready'[q] = ready[q]
      /\ late[q] \subseteq late'[q] /\ mu'[q] = mu[q]
  <2> USE DEF MutexInv, TypeInv, TypeOK, mapVars
  <2>1. ASSUME NEW m \in Messages, Send(r, m) PROVE <1>3
    BY <1>1, <2>1 DEF Send
  <2>2. ASSUME NEW m \in Messages, Elapse(r, m) PROVE <1>3
    BY <1>1, <2>2 DEF Elapse
  <2>3. CASE WireDLQ(r) \/ DeleteQueue(r)
    BY <1>1, <2>3 DEF WireDLQ, DeleteQueue
  <2>4. CASE LoopLock(r)
    BY <1>1, <2>4 DEF LoopLock
  <2>5. CASE LoopUnlock(r)
    <3>1. r # q
      BY <1>1, <1>2, <2>5 DEF LoopUnlock, MustRedrive
    <3> QED
      BY <1>1, <2>5, <3>1 DEF LoopUnlock
  <2> QED
    BY <2>1, <2>2, <2>3, <2>4, <2>5
<1> QED
  BY <1>1, <1>3, WaitFrame

LEMMA ReclaimWaits ==
    ASSUME MutexInv, NEW q, Waits(q), NEW x \in Mappings \cup Queues,
           NEW r \in Queues, NEW m \in Messages, Reclaim(x, r, m)
    PROVE  MustRedrive(q)'
<1>1. /\ q \in Queues /\ MustRedrive(q)
      /\ mu[q] \in Mappings => source[mu[q]] = q
  BY WaitFacts DEF Waits
<1> DEFINE spent == SpentAtReclaim(r, count[r][m])
           rest == IF spent THEN ready[r] ELSE Append(ready[r], m)
<1>2. /\ UNCHANGED <<mu, count, wired, pc, source, batch>>
      /\ late' = [late EXCEPT ![r] = @ \ {m}]
      /\ mu[r] # Nobody /\ CanRedrive(r, spent)
      /\ ready' = Leaves(r, spent, rest, m)
      /\ spent \in BOOLEAN /\ (spent => r \in wired)
  BY PipelineParametersAssumption DEF Reclaim, SpentAtReclaim, mapVars
<1>3. ready[r] \in Seq(Messages) /\ rest \in Seq(Messages)
  BY AppendProps DEF MutexInv, TypeInv, TypeOK
<1>4. /\ r = q => ~spent
      /\ ready'[q] = IF r = q THEN rest ELSE ready[q]
  <2> HIDE DEF spent, rest
  <2> QED
    BY <1>2, <1>3, WaitLeaves
<1>5. \A e \in late[q] : SpentAtReclaim(q, count[q][e]) => e \in late'[q]
  BY <1>1, <1>2, <1>4 DEF MutexInv, TypeInv, TypeOK
<1>6. ready[q] # << >> => /\ ready'[q] # << >>
                          /\ Head(ready'[q]) = Head(ready[q])
  <2>1. CASE r = q
    BY <1>3, <1>4, <2>1
  <2>2. CASE r # q
    BY <1>4, <2>2
  <2> QED
    BY <2>1, <2>2
<1> QED
  BY <1>1, <1>2, <1>5, <1>6, WaitFrame

(* A poller that is not q's holder takes nothing from q; the holder, which *)
(* must redrive first, neither collects nor unlocks.                       *)
LEMMA CollectWaits ==
    ASSUME MutexInv, NEW q, Waits(q), NEW p \in Mappings, Collect(p)
    PROVE  MustRedrive(q)'
<1>1. /\ q \in Queues /\ MustRedrive(q) /\ ~CanRedrive(q, TRUE)
      /\ mu[q] \in Mappings => source[mu[q]] = q
  BY WaitFacts DEF Waits
<1>a. PICK r \in Queues : r = source[p]
  BY DEF Collect, Collecting, MutexInv, TypeInv, WellFormed
<1>b. PICK m \in Messages : m = Head(ready[r])
  BY <1>a, TailProps DEF Collect, Full, MutexInv, TypeInv, TypeOK
<1> DEFINE spent == SpentAtCollect(r, Received(r, m))
           rest == Tail(ready[r])
<1>2. /\ Collecting(p) /\ ~Full(p) /\ CanRedrive(r, spent)
      /\ ready' = Leaves(r, spent, rest, m)
      /\ UNCHANGED <<mu, late, wired, source>>
      /\ count' = [count EXCEPT ![r][m] = Received(r, m)]
      /\ pc' = [pc EXCEPT ![p] = "collect"]
      /\ batch' = batch \/ batch' = [batch EXCEPT ![p] = Append(@, m)]
      /\ spent \in BOOLEAN /\ (spent => r \in wired)
      /\ ready[r] # << >>
  BY <1>a, <1>b DEF Collect, Full, SpentAtCollect, mapVars
<1>3. mu[r] = p
  BY <1>a, <1>2 DEF Collecting, Working, MutexInv, Exclusion
<1>4. rest \in Seq(Messages)
  BY <1>2, TailProps DEF MutexInv, TypeInv, TypeOK
<1>5. r # q
  <2> SUFFICES ASSUME r = q PROVE FALSE
    OBVIOUS
  <2>1. q \notin Mappings /\ mu[q] = p
    BY <1>1, <1>3, PipelineParametersAssumption
  <2>2. ~(pc[p] = "reclaim" /\ \E e \in Overdue(q) : SpentAtReclaim(q, count[q][e]))
    BY <1>a, <1>2 DEF Collecting
  <2>3. ~spent
    BY <1>1, <1>2 DEF CanRedrive
  <2> QED
    BY <1>1, <1>b, <2>1, <2>2, <2>3 DEF MustRedrive
<1>6. ready'[q] = ready[q]
  <2>1. mu[r] # Nobody
    BY <1>3, PipelineParametersAssumption
  <2> HIDE DEF spent, rest
  <2> QED
    BY <1>2, <1>4, <1>5, <2>1, WaitLeaves
<1>7. mu[q] # p
  BY <1>a, <1>1, <1>5
<1>8. count'[q] = count[q]
  BY <1>2, <1>5 DEF MutexInv, TypeInv, TypeOK
<1>9. mu[q] \in Mappings => /\ source[mu[q]] = q /\ source'[mu[q]] = q
                            /\ pc'[mu[q]] = pc[mu[q]]
                            /\ batch'[mu[q]] = batch[mu[q]]
  BY <1>1, <1>2, <1>7 DEF MutexInv, TypeInv, TypeOK
<1> QED
  BY <1>1, <1>2, <1>6, <1>8, <1>9, WaitFrame

LEMMA MappingWaits ==
    ASSUME MutexInv, NEW q, Waits(q), NEW p \in Mappings,
           \/ \E r \in Queues : CreateMapping(p, r)
           \/ StartSQSPoller(p) \/ TickPoller(p) \/ Lock(p) \/ Unlock(p)
           \/ ReadHandles(p) \/ InvokeFails(p) \/ InvokeSucceeds(p)
           \/ AckMessage(p) \/ StopPoller(p) \/ DeleteMapping(p)
    PROVE  MustRedrive(q)'
<1>1. /\ q \in Queues /\ MustRedrive(q) /\ mu[q] # Nobody
      /\ mu[q] \in Mappings => source[mu[q]] = q /\ pc[mu[q]] \in Working
  BY WaitFacts DEF Waits
<1>2. q \notin Mappings
  BY <1>1, PipelineParametersAssumption
<1> DEFINE Frame == /\ UNCHANGED <<ready, count, wired>>
                    /\ late[q] \subseteq late'[q] /\ mu'[q] = mu[q]
                    /\ mu[q] \in Mappings =>
                          /\ source'[mu[q]] = source[mu[q]]
                          /\ pc'[mu[q]] = pc[mu[q]]
                          /\ batch'[mu[q]] = batch[mu[q]]
<1>3. Frame
  <2> USE DEF MutexInv, TypeInv, TypeOK, queueVars, mapVars, Working
  <2>1. ASSUME NEW r \in Queues, CreateMapping(p, r) PROVE Frame
    BY <1>1, <2>1 DEF CreateMapping
  <2>2. CASE StartSQSPoller(p) \/ TickPoller(p) \/ StopPoller(p)
    BY <1>1, <2>2 DEF StartSQSPoller, TickPoller, StopPoller
  <2>3. CASE Lock(p)
    <3>1. source[p] \in Queues /\ source[p] # q
      BY <1>1, <2>3 DEF Lock, WellFormed
    <3> QED
      BY <1>1, <2>3, <3>1 DEF Lock
  <2>4. CASE Unlock(p)
    <3>1. pc[p] \in Working /\ source[p] \in Queues
      BY <2>4 DEF Unlock, Collecting, WellFormed
    <3>2. mu[source[p]] = p
      BY <3>1 DEF Exclusion
    <3>3. source[p] # q
      BY <1>1, <1>2, <2>4, <3>2 DEF Unlock, Collecting, MustRedrive
    <3>4. mu[q] # p
      BY <1>1, <3>3
    <3> QED
      BY <1>1, <2>4, <3>1, <3>3, <3>4 DEF Unlock
  <2>5. CASE ReadHandles(p) \/ InvokeFails(p) \/ InvokeSucceeds(p)
    BY <1>1, <2>5 DEF ReadHandles, InvokeFails, InvokeSucceeds
  <2>6. CASE AckMessage(p)
    <3>1. late'[q] = late[q] \/ (source[p] = q /\ q \in named)
      BY <1>1, <2>6 DEF AckMessage
    <3>2. late'[q] = late[q]
      BY <1>1, <2>6, <3>1 DEF AckMessage
    <3> QED
      BY <1>1, <2>6, <3>2 DEF AckMessage
  <2>7. CASE DeleteMapping(p)
    BY <1>1, <2>7 DEF DeleteMapping
  <2> QED
    BY <2>1, <2>2, <2>3, <2>4, <2>5, <2>6, <2>7
<1> QED
  BY <1>1, <1>3, WaitFrame

LEMMA WaitStays ==
    ASSUME MutexInv, [Next]_vars, NEW q, Waits(q)
    PROVE  MustRedrive(q)' /\ q \in wired'
<1>1. CASE Next
  <2>1. MustRedrive(q)'
    <3>1. ASSUME NEW r \in Queues, NEW m \in Messages, Reclaim(r, r, m)
          PROVE  MustRedrive(q)'
      BY <3>1, ReclaimWaits
    <3>2. ASSUME NEW p \in Mappings, ReclaimStep(p) PROVE MustRedrive(q)'
      <4>1. source[p] \in Queues
        BY <3>2 DEF ReclaimStep, MutexInv, TypeInv, WellFormed
      <4> QED
        BY <3>2, <4>1, ReclaimWaits DEF ReclaimStep
    <3> QED
      BY <1>1, <3>1, <3>2, QueueWaits, CollectWaits, MappingWaits
         DEF Next, LoopStep, PollerStep
  <2>2. wired \subseteq wired'
    BY <1>1 DEF Next, LoopStep, PollerStep, ReclaimStep, Send, Elapse, WireDLQ,
                DeleteQueue, LoopLock, LoopUnlock, Reclaim, CreateMapping,
                StartSQSPoller, TickPoller, Lock, Collect, Unlock, ReadHandles,
                InvokeFails, InvokeSucceeds, AckMessage, StopPoller,
                DeleteMapping, queueVars
  <2> QED
    BY <2>1, <2>2 DEF Waits
<1>2. CASE UNCHANGED vars
  BY <1>2 DEF vars, queueVars, mapVars, Waits, MustRedrive, Overdue, Full,
              SpentAtReclaim, SpentAtCollect, Received, Capped
<1> QED
  BY <1>1, <1>2

LEMMA CircleStep == MutexInv /\ [Next]_vars => CircleStays
<1> SUFFICES ASSUME MutexInv, [Next]_vars,
                    NEW S \in SUBSET Queues, Circle(S)
             PROVE  Circle(S)'
  BY DEF CircleStays
<1>1. \A q \in S : mu[q] # Nobody
  BY PipelineParametersAssumption DEF Circle, MustRedrive
<1>2. \A q \in S : Waits(q)
  BY <1>1 DEF Circle, Waits
<1>3. \A q \in S : MustRedrive(q)' /\ q \in wired'
  BY <1>2, WaitStays
<1>4. \A q \in S : Target(q)' \in S
  BY DEF Circle, Target
<1> QED
  BY <1>3, <1>4 DEF Circle

(* Whatever the policies, a queue's mutex is held only by one at a time    *)
(* and only in its critical section; and while mutexes are held some       *)
(* holder can take its next step, unless the holders of a set of queues    *)
(* each have to redrive to a queue of that set (standard.go:285).          *)
THEOREM OnlyCirclesStop == Spec => [](Owned /\ Exclusion /\ OnlyCirclesBlock)
<1>1. MutexInv => Owned /\ Exclusion /\ OnlyCirclesBlock
  BY CirclesBlock DEF MutexInv
<1> QED
  BY <1>1, MutexInvariant, PTL

(* Such a circle, which the store permits (store.go:127), is a deadlock:   *)
(* no step of anybody undoes it.                                           *)
THEOREM CirclesAreFinal == Spec => [][CircleStays]_vars
BY MutexInvariant, CircleStep, PTL DEF Spec

(* Where the chains of policies end there is none: while mutexes are held, *)
(* some holder goes on.  That each is released is MutexesAreReleased.      *)
THEOREM NoDeadlock == Acyclic => (Spec => []NoCircularWait)
<1> SUFFICES ASSUME Acyclic PROVE Spec => []NoCircularWait
  OBVIOUS
<1>1. MutexInv => NoCircularWait
  <2>1. MutexInv => TypeOK
    BY DEF MutexInv, TypeInv
  <2> QED
    BY <2>1, CirclesBlock, AcyclicPolicies DEF OnlyCirclesBlock, NoCircularWait
<1> QED
  BY <1>1, MutexInvariant, PTL
=============================================================================
