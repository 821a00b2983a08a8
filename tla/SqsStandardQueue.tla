-------------------------- MODULE SqsStandardQueue --------------------------
(***************************************************************************)
(* A standard (non-FIFO) SQS queue: services/sqs/standard.go.              *)
(*                                                                         *)
(* Every exported method of StandardQueue takes q.mu for its whole body,   *)
(* so a method is one action, except the long poll of ReceiveMessages: it  *)
(* releases q.mu, sleeps in a select and runs a second critical section.   *)
(* backgroundLoop is a goroutine of its own: it takes a timer tick without *)
(* the lock and acts on it later, under the lock.                          *)
(*                                                                         *)
(* Time is relative.  A deadline is the number of ticks left before it,    *)
(* never below 0, and Tick lets one unit of time pass everywhere at once.  *)
(* The state space is finite without a bound on the clock, and a goroutine *)
(* may be arbitrarily late.  Entries that are due are popped in any order: *)
(* whole ticks cannot tell which of two elapsed deadlines was the earlier. *)
(***************************************************************************)
EXTENDS Integers, Sequences, FiniteSets, SequencesExt

CONSTANTS
    Messages,       \* messages producers send, each one at most once
    Consumers,      \* goroutines that call ReceiveMessages
    Delays,         \* DelaySeconds of SendMessage, in ticks
    Batches,        \* MaxNumberOfMessages of ReceiveMessage
    Timeouts,       \* VisibilityTimeout of ReceiveMessage, in ticks
    Waits,          \* WaitTimeSeconds of ReceiveMessage, in ticks
    Extensions,     \* VisibilityTimeout of ChangeMessageVisibility, in ticks
    Policies,       \* maxReceiveCount values of a RedrivePolicy
    MaxReceives     \* bound of the model: see Receive

ASSUME ParametersAssumption ==
    /\ IsFiniteSet(Messages)
    /\ Delays \subseteq Nat
    /\ Batches \subseteq Nat \ {0}
    /\ Timeouts \subseteq Nat
    /\ Waits \subseteq Nat
    /\ Extensions \subseteq Nat
    /\ Policies \subseteq Nat \ {0}
    /\ MaxReceives \in Nat

VARIABLES
    ready,          \* the ring buffer, as the sequence of its messages
    delayed,        \* heap of messages by DelayUntil
    inflight,       \* receipt handles of the messages in flight
    visHeap,        \* heap of receipt handles by visibility deadline
    visDeadline,    \* Message.VisibilityDeadline
    receiveCount,   \* Message.ReceiveCount
    dlqMax,         \* dlqMaxReceiveCount, 0 while there is no DLQ
    redriven,       \* copies of each message sent to the DLQ
    delayTimer, visTimer,   \* ticks before the timer fires, or Off
    bg,             \* control state of backgroundLoop
    closed,         \* closeCh is closed
    call,           \* control state of each consumer's ReceiveMessages
    fate            \* what clients were told of each message (history)

buffers == <<ready, delayed, inflight, visHeap>>
counts == <<visDeadline, receiveCount>>
dlq == <<dlqMax, redriven>>
timers == <<delayTimer, visTimer>>
loop == <<bg, closed>>
vars == <<buffers, counts, dlq, timers, loop, call, fate>>

Off == -1

(* Each delivery issues a fresh handle; the delivery's number within its    *)
(* message stands for newReceiptHandle's process-wide counter.              *)
Handles == [msg : Messages, n : Nat \ {0}]
Handle(m, k) == [msg |-> m, n |-> k]

-----------------------------------------------------------------------------
(* pkg/collections.MinHeap keyed by deadline, as a set of entries. *)

Entry(v, t) == [value |-> v, left |-> t]
Due(heap) == {e \in heap : e.left = 0}
Values(heap) == {e.value : e \in heap}

(* RemoveByValue compares pointers, and every caller passes a freshly      *)
(* allocated inflightEntry: no element is equal to it, none is removed.    *)
RemoveByValue(heap, h) == heap

(* Mutants of ResetTimer: armed for the last deadline, or only stopped. *)
MutLastDeadline(heap) ==
    IF heap = {} THEN {Off}
    ELSE {e.left : e \in {f \in heap : \A g \in heap : f.left >= g.left}}
MutNeverRearmed(heap) == {Off}

(* resetDelayTimerLocked, resetVisTimerLocked: stopped on an empty heap,   *)
(* else armed for the first deadline.  The set holds the one timer value.  *)
ResetTimer(heap) ==
    IF heap = {} THEN {Off}
    ELSE {e.left : e \in {f \in heap : \A g \in heap : f.left <= g.left}}

(* The sequences that hold each element of S once. *)
Orders(S) ==
    {s \in [1..Cardinality(S) -> S] :
        /\ ToSet(s) = S
        /\ \A i, j \in DOMAIN s : s[i] = s[j] => i = j}

(* The containers a message may be in. *)
InReady(m) == m \in ToSet(ready)
InDelayed(m) == \E e \in delayed : e.value = m
InFlight(m) == \E h \in inflight : h.msg = m
InDLQ(m) == redriven[m] > 0

-----------------------------------------------------------------------------
(* signalWaitersLocked gives every registered waiter whose deadline has    *)
(* not passed its token and empties the list.  A waiter dropped because it *)
(* has expired returns through its own timer.                              *)
SignalWaiters(calls) ==
    [c \in Consumers |->
        IF calls[c].state = "parked" /\ calls[c].left > 0
        THEN [calls[c] EXCEPT !.state = "signalled"] ELSE calls[c]]

Idle == [state |-> "idle", left |-> 0, max |-> 0, vis |-> 0]

(* matureDelayedLocked pops the delayed messages that are due. *)
Matured == Values(Due(delayed))

MutExpired == Values(Due(visHeap))       \* mutant: no check of inflight

(* reclaimExpiredLocked pops the due entries and keeps the handles that    *)
(* are still in flight.                                                    *)
Expired == Values(Due(visHeap)) \cap inflight

(* It redrives a message that was delivered maxReceiveCount times ...      *)
SpentAtReclaim(h) == dlqMax > 0 /\ receiveCount[h.msg] >= dlqMax
RedrivenAtReclaim == {h.msg : h \in {x \in Expired : SpentAtReclaim(x)}}
(* Mutant of Returned: a queue with a redrive policy pushes nothing back. *)
MutReturned == {h.msg : h \in {x \in Expired : dlqMax = 0}}
(* ... and returns the others to the ring buffer.                          *)
Returned == {h.msg : h \in {x \in Expired : ~SpentAtReclaim(x)}}

MutSpentAtCollect(m) ==                 \* mutant: off by one
    dlqMax > 0 /\ receiveCount[m] + 1 >= dlqMax

(* collectReadyLocked counts a delivery first, then redrives a message     *)
(* whose count exceeds maxReceiveCount instead of delivering it.           *)
SpentAtCollect(m) == dlqMax > 0 /\ receiveCount[m] + 1 > dlqMax
Popped(avail, n) == {avail[i] : i \in 1..n}
Delivered(avail, n) == {m \in Popped(avail, n) : ~SpentAtCollect(m)}
RedrivenAtCollect(avail, n) == {m \in Popped(avail, n) : SpentAtCollect(m)}

(* It pops until max messages are delivered or the ring buffer is empty.   *)
PopCounts(avail, max) ==
    {n \in 0..Len(avail) :
        /\ n > 0 => Cardinality(Delivered(avail, n - 1)) < max
        /\ n < Len(avail) => Cardinality(Delivered(avail, n)) >= max}

(* The critical section of ReceiveMessages, run once or twice per call:    *)
(* mature, reclaim, collect n messages from avail, reset both timers.      *)
Collect(avail, n, vis) ==
    /\ ready' = SubSeq(avail, n + 1, Len(avail))
    /\ delayed' = delayed \ Due(delayed)
    /\ receiveCount' = [m \in Messages |->
          IF m \in Popped(avail, n) THEN receiveCount[m] + 1
          ELSE receiveCount[m]]
    /\ redriven' = [m \in Messages |->
          IF m \in RedrivenAtReclaim \cup RedrivenAtCollect(avail, n)
          THEN redriven[m] + 1 ELSE redriven[m]]
    /\ LET issued == {Handle(m, receiveCount[m] + 1) :
                         m \in Delivered(avail, n)}
       IN  /\ inflight' = (inflight \ Expired) \cup issued
           /\ visHeap' = (visHeap \ Due(visHeap))
                             \cup {Entry(h, vis) : h \in issued}
    /\ visDeadline' = [m \in Messages |->
          IF m \in Delivered(avail, n) THEN vis ELSE visDeadline[m]]
    /\ delayTimer' \in ResetTimer(delayed')
    /\ visTimer' \in ResetTimer(visHeap')
    /\ UNCHANGED <<dlqMax, loop, fate>>

(* The ring buffer after matureDelayedLocked and reclaimExpiredLocked. *)
Available ==
    {ready \o m \o r : m \in Orders(Matured), r \in Orders(Returned)}

-----------------------------------------------------------------------------
Init ==
    /\ ready = <<>>
    /\ delayed = {}
    /\ inflight = {}
    /\ visHeap = {}
    /\ visDeadline = [m \in Messages |-> 0]
    /\ receiveCount = [m \in Messages |-> 0]
    /\ dlqMax \in Policies \cup {0}
    /\ redriven = [m \in Messages |-> 0]
    /\ delayTimer = Off
    /\ visTimer = Off
    /\ bg = "select"
    /\ closed = FALSE
    /\ call = [c \in Consumers |-> Idle]
    /\ fate = [m \in Messages |-> "unsent"]

(* SendMessage without a delay: push on the ring buffer, wake the waiters. *)
SendNow(m) ==
    /\ fate[m] = "unsent"
    /\ fate' = [fate EXCEPT ![m] = "accepted"]
    /\ ready' = Append(ready, m)
    /\ call' = SignalWaiters(call)
    /\ UNCHANGED <<delayed, inflight, visHeap, counts, dlq, timers, loop>>

(* SendMessage with a delay: nobody is woken until the delay timer fires. *)
SendDelayed(m, delay) ==
    /\ fate[m] = "unsent"
    /\ delay > 0
    /\ fate' = [fate EXCEPT ![m] = "accepted"]
    /\ delayed' = delayed \cup {Entry(m, delay)}
    /\ delayTimer' \in ResetTimer(delayed')
    /\ UNCHANGED <<ready, inflight, visHeap, counts, dlq, visTimer, loop,
                   call>>

(* ReceiveMessages up to its first unlock: it returns what it collected,   *)
(* or nothing if it may not wait, or registers a waiter.  MaxReceives      *)
(* bounds the model: no consumer calls again once some message was         *)
(* delivered that often (a poll that already sleeps is not bounded).       *)
Receive(c, max, vis, wait) ==
    /\ call[c] = Idle
    /\ \A m \in Messages : receiveCount[m] < MaxReceives
    /\ \E avail \in Available : \E n \in PopCounts(avail, max) :
          /\ Collect(avail, n, vis)
          /\ IF Delivered(avail, n) = {} /\ wait > 0
             THEN call' = [call EXCEPT ![c] =
                    [state |-> "parked", left |-> wait,
                     max |-> max, vis |-> vis]]
             ELSE UNCHANGED call

(* Mutant of Resume: the select has no timer case. *)
MutResume(c) ==
    /\ call[c].state = "signalled"
    /\ \E avail \in Available : \E n \in PopCounts(avail, call[c].max) :
          Collect(avail, n, call[c].vis)
    /\ call' = [call EXCEPT ![c] = Idle]

(* The select of a long poll ended by the token or by the timer, and the   *)
(* second critical section.                                                *)
Resume(c) ==
    /\ \/ call[c].state = "signalled"
       \/ call[c].state = "parked" /\ call[c].left = 0
    /\ \E avail \in Available : \E n \in PopCounts(avail, call[c].max) :
          Collect(avail, n, call[c].vis)
    /\ call' = [call EXCEPT ![c] = Idle]

(* The select of a long poll ended by closeCh: it returns nil. *)
Abort(c) ==
    /\ closed
    /\ call[c].state # "idle"
    /\ call' = [call EXCEPT ![c] = Idle]
    /\ UNCHANGED <<buffers, counts, dlq, timers, loop, fate>>

(* DeleteMessage.  A handle that is not in flight is refused. *)
Delete(h) ==
    /\ h \in inflight
    /\ inflight' = inflight \ {h}
    /\ visHeap' = RemoveByValue(visHeap, h)
    /\ fate' = [fate EXCEPT ![h.msg] = "removed"]
    /\ UNCHANGED <<ready, delayed, counts, dlq, timers, loop, call>>

(* ChangeMessageVisibility to 0 returns the message at once; no redrive    *)
(* policy is consulted.                                                    *)
Release(h) ==
    /\ h \in inflight
    /\ inflight' = inflight \ {h}
    /\ visHeap' = RemoveByValue(visHeap, h)
    /\ ready' = Append(ready, h.msg)
    /\ call' = SignalWaiters(call)
    /\ UNCHANGED <<delayed, counts, dlq, timers, loop, fate>>

(* Mutant of Extend: the deadline moves, no heap entry is pushed. *)
MutExtend(h, t) ==
    /\ h \in inflight
    /\ t > 0
    /\ visDeadline' = [visDeadline EXCEPT ![h.msg] = t]
    /\ UNCHANGED <<buffers, receiveCount, dlq, timers, loop, call, fate>>

(* ChangeMessageVisibility to t > 0 sets a new deadline. *)
Extend(h, t) ==
    /\ h \in inflight
    /\ t > 0
    /\ visDeadline' = [visDeadline EXCEPT ![h.msg] = t]
    /\ visHeap' = RemoveByValue(visHeap, h) \cup {Entry(h, t)}
    /\ visTimer' \in ResetTimer(visHeap')
    /\ UNCHANGED <<ready, delayed, inflight, receiveCount, dlq, delayTimer,
                   loop, call, fate>>

(* Purge replaces the containers; timers and waiters stay as they are. *)
Purge ==
    /\ ready' = <<>>
    /\ delayed' = {}
    /\ inflight' = {}
    /\ visHeap' = {}
    /\ fate' = [m \in Messages |->
          IF InReady(m) \/ InDelayed(m) \/ InFlight(m)
          THEN "removed" ELSE fate[m]]
    /\ UNCHANGED <<counts, dlq, timers, loop, call>>

(* SetDLQ, called when the queue is created and again by ImportState. *)
SetDLQ(max) ==
    /\ dlqMax' = max
    /\ UNCHANGED <<buffers, counts, redriven, timers, loop, call, fate>>

(* Close, called by DeleteQueue; handlers that looked the queue up before  *)
(* keep using it.                                                          *)
Close ==
    /\ ~closed
    /\ closed' = TRUE
    /\ UNCHANGED <<buffers, counts, dlq, timers, bg, call, fate>>

-----------------------------------------------------------------------------
(* backgroundLoop: take a tick without the lock ... *)
DelayTick ==
    /\ bg = "select" /\ delayTimer = 0
    /\ bg' = "delay"
    /\ delayTimer' = Off
    /\ UNCHANGED <<buffers, counts, dlq, visTimer, closed, call, fate>>

VisTick ==
    /\ bg = "select" /\ visTimer = 0
    /\ bg' = "vis"
    /\ visTimer' = Off
    /\ UNCHANGED <<buffers, counts, dlq, delayTimer, closed, call, fate>>

(* ... and act on it under the lock, waking the waiters if it left         *)
(* anything ready.                                                         *)
MatureDelayed ==
    /\ bg = "delay"
    /\ bg' = "select"
    /\ \E m \in Orders(Matured) : ready' = ready \o m
    /\ delayed' = delayed \ Due(delayed)
    /\ delayTimer' \in ResetTimer(delayed')
    /\ call' = IF ready' # <<>> THEN SignalWaiters(call) ELSE call
    /\ UNCHANGED <<inflight, visHeap, counts, dlq, visTimer, closed, fate>>

ReclaimExpired ==
    /\ bg = "vis"
    /\ bg' = "select"
    /\ \E r \in Orders(Returned) : ready' = ready \o r
    /\ inflight' = inflight \ Expired
    /\ visHeap' = visHeap \ Due(visHeap)
    /\ redriven' = [m \in Messages |->
          IF m \in RedrivenAtReclaim THEN redriven[m] + 1 ELSE redriven[m]]
    /\ visTimer' \in ResetTimer(visHeap')
    /\ call' = IF ready' # <<>> THEN SignalWaiters(call) ELSE call
    /\ UNCHANGED <<delayed, counts, dlqMax, delayTimer, closed, fate>>

StopLoop ==
    /\ bg = "select" /\ closed
    /\ bg' = "exited"
    /\ UNCHANGED <<buffers, counts, dlq, timers, closed, call, fate>>

(* One unit of time passes for every deadline, timer and sleeping poll. *)
MutElapse(t) == IF t = Off THEN Off ELSE t - 1      \* mutant: no floor
Elapse(t) == IF t > 0 THEN t - 1 ELSE t
ElapseHeap(heap) == {Entry(e.value, Elapse(e.left)) : e \in heap}

Tick ==
    /\ delayed' = ElapseHeap(delayed)
    /\ visHeap' = ElapseHeap(visHeap)
    /\ visDeadline' = [m \in Messages |-> Elapse(visDeadline[m])]
    /\ delayTimer' = Elapse(delayTimer)
    /\ visTimer' = Elapse(visTimer)
    /\ call' = [c \in Consumers |->
                  [call[c] EXCEPT !.left = Elapse(call[c].left)]]
    /\ UNCHANGED <<ready, inflight, receiveCount, dlq, loop, fate>>

-----------------------------------------------------------------------------
Client ==
    \/ \E m \in Messages : SendNow(m)
    \/ \E m \in Messages, d \in Delays : SendDelayed(m, d)
    \/ \E c \in Consumers, k \in Batches, v \in Timeouts, w \in Waits :
          Receive(c, k, v, w)
    \/ \E h \in inflight : Delete(h)
    \/ 0 \in Extensions /\ \E h \in inflight : Release(h)
    \/ \E h \in inflight, t \in Extensions : Extend(h, t)
    \/ Purge
    \/ \E p \in Policies : SetDLQ(p)
    \/ Close

Background == DelayTick \/ VisTick \/ MatureDelayed \/ ReclaimExpired \/ StopLoop

Next ==
    \/ Client
    \/ \E c \in Consumers : Resume(c) \/ Abort(c)
    \/ Background
    \/ Tick

Spec == Init /\ [][Next]_vars

(* The runtime schedules every goroutine that can run and time passes; no  *)
(* client is obliged to call anything.  The select of backgroundLoop picks *)
(* at random among its ready cases, so none of them is ignored for ever.   *)
Fairness ==
    /\ WF_vars(Tick)
    /\ WF_vars(DelayTick) /\ WF_vars(VisTick)
    /\ WF_vars(MatureDelayed) /\ WF_vars(ReclaimExpired)
    /\ \A c \in Consumers : WF_vars(Resume(c) \/ Abort(c))

LiveSpec == Spec /\ Fairness

-----------------------------------------------------------------------------
(* TypeOK: every field of StandardQueue keeps its type. *)
TypeOK ==
    /\ ready \in Seq(Messages)
    /\ delayed \subseteq [value : Messages, left : Nat]
    /\ inflight \subseteq Handles
    /\ visHeap \subseteq [value : Handles, left : Nat]
    /\ visDeadline \in [Messages -> Nat]
    /\ receiveCount \in [Messages -> Nat]
    /\ dlqMax \in Policies \cup {0}
    /\ redriven \in [Messages -> Nat]
    /\ delayTimer \in Nat \cup {Off}
    /\ visTimer \in Nat \cup {Off}
    /\ bg \in {"select", "delay", "vis", "exited"}
    /\ closed \in BOOLEAN
    /\ call \in [Consumers -> [state : {"idle", "parked", "signalled"},
                               left : Nat, max : Nat, vis : Nat]]
    /\ fate \in [Messages -> {"unsent", "accepted", "removed"}]

(* An accepted message is in exactly one container, once, and any other    *)
(* message in none: no interleaving of receives, releases, deletes,        *)
(* expiries and redrives delivers one message under two live handles,      *)
(* redrives it twice, revives it after its delete or loses it.             *)
OncePerContainer ==
    /\ \A i, j \in 1..Len(ready) : ready[i] = ready[j] => i = j
    /\ \A d, e \in delayed : d.value = e.value => d = e
    /\ \A g, h \in inflight : g.msg = h.msg => g = h
    /\ \A m \in Messages : redriven[m] <= 1

OneContainer(m) ==
    /\ InReady(m) => ~InDelayed(m) /\ ~InFlight(m) /\ ~InDLQ(m)
    /\ InDelayed(m) => ~InFlight(m) /\ ~InDLQ(m) /\ receiveCount[m] = 0
    /\ InFlight(m) => ~InDLQ(m)
    /\ fate[m] = "accepted"
          <=> InReady(m) \/ InDelayed(m) \/ InFlight(m) \/ InDLQ(m)
    /\ fate[m] = "unsent" => receiveCount[m] = 0

ExactlyOnePlace == OncePerContainer /\ \A m \in Messages : OneContainer(m)

(* A message in flight is held by the handle of its latest delivery (a     *)
(* handle of an earlier one can neither delete nor extend it), and the     *)
(* visibility heap holds an entry at its promised deadline, so it cannot   *)
(* stay hidden longer, whatever was deleted, extended or purged before.    *)
InflightHasDeadline ==
    \A h \in inflight :
        /\ h.n = receiveCount[h.msg]
        /\ Entry(h, visDeadline[h.msg]) \in visHeap

(* While backgroundLoop runs, each heap that has an entry has a timer      *)
(* armed no later than its first deadline, or the loop has taken the tick  *)
(* and is about to act on it.  Timers are reset by clients and by the loop *)
(* in any order; were one lost, messages would stay hidden until the next  *)
(* call, which may never come.                                             *)
Armed(timer, heap) == timer # Off /\ \A e \in heap : timer <= e.left
TimersArmed ==
    bg # "exited" =>
        /\ delayed # {} => bg = "delay" \/ Armed(delayTimer, delayed)
        /\ visHeap # {} => bg = "vis" \/ Armed(visTimer, visHeap)

(* A redrive policy acts at its limit: a message is never delivered more   *)
(* than maxReceiveCount times under the policy in force, and goes to the   *)
(* DLQ only once it was (collect tests "count > max" after counting,       *)
(* reclaim tests "count >= max" before: an off-by-one in either breaks     *)
(* one of the two conjuncts).                                              *)
RedriveAtLimit ==
    [][/\ \A h \in inflight' \ inflight : dlqMax = 0 \/ h.n <= dlqMax
       /\ \A m \in Messages :
             redriven'[m] > redriven[m] =>
                 dlqMax > 0 /\ receiveCount[m] >= dlqMax]_vars

(* The queue implements MessageLifecycle.  PlaceOf reads the containers;   *)
(* an accepted message that none of them holds would be "lost", a place    *)
(* MessageLifecycle does not have.                                         *)
PlaceOf ==
    [m \in Messages |->
        IF InDLQ(m) THEN "dlq"
        ELSE IF InFlight(m) THEN "inflight"
        ELSE IF InReady(m) THEN "ready"
        ELSE IF InDelayed(m) THEN "delayed"
        ELSE IF fate[m] = "unsent" THEN "unsent"
        ELSE IF fate[m] = "removed" THEN "gone" ELSE "lost"]

Lifecycle == INSTANCE MessageLifecycle WITH place <- PlaceOf
ImplementsLifecycle == Lifecycle!Spec

(* A message returns to the queue, or moves to the DLQ, by expiry only     *)
(* when the visibility deadline last set for it has passed.                *)
NoEarlyReclaim ==
    [][\A h \in inflight \ inflight' :
          Delete(h) \/ Release(h) \/ Purge \/ visDeadline[h.msg] = 0]_vars

(* A long poll is not left asleep, without a token, while a message it     *)
(* could take is in the ring buffer.                                       *)
NoStrandedPoll ==
    ready # <<>> => \A c \in Consumers : call[c].state # "parked"
                                            \/ call[c].left = 0

(* A delayed message is not delayed for ever, and a message whose consumer *)
(* never answers does not stay in flight for ever, unless the queue was    *)
(* deleted: this rests on the timers and on backgroundLoop alone, as no    *)
(* consumer need ever call again.                                          *)
WaitsEnd ==
    \A m \in Messages :
        /\ InDelayed(m) ~> (~InDelayed(m) \/ closed)
        /\ \A k \in 1..(MaxReceives + Cardinality(Consumers)) :
              Handle(m, k) \in inflight ~> (Handle(m, k) \notin inflight \/ closed)

(* Every long poll returns, with or without a message, also when the queue *)
(* is deleted, purged or idle while it sleeps.                             *)
PollsEnd == \A c \in Consumers : call[c].state # "idle" ~> call[c].state = "idle"
=============================================================================
