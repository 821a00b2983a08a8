---------------------------- MODULE SqsFifoQueue ----------------------------
(***************************************************************************)
(* A FIFO SQS queue: services/sqs/fifo.go.                                 *)
(*                                                                         *)
(* Messages wait in groups.  A group is locked by the receive that         *)
(* delivers from it; receives visit the groups in the order they appeared. *)
(* Visibility deadlines, the long poll and backgroundLoop work as in       *)
(* SqsStandardQueue, with the same relative time.                          *)
(*                                                                         *)
(* Record q holds the fields the helpers called under q.mu work on, so     *)
(* that a method is the composition of its helpers.                        *)
(***************************************************************************)
EXTENDS Integers, Sequences, FiniteSets, SequencesExt

CONSTANTS
    Messages,       \* messages producers send, each one at most once
    Groups,         \* message group ids
    DedupIds,       \* deduplication ids
    GroupOf,        \* GroupOf[m]: MessageGroupId
    DedupOf,        \* DedupOf[m]: the deduplication ids of m, at most one
    Consumers,      \* goroutines that call ReceiveMessages
    Window,         \* the deduplication window, in ticks
    DelaysOf,       \* DelaysOf[m]: DelaySeconds m may be sent with
    Batches, Timeouts, Waits, Extensions, Policies,
                    \* parameter values, as in SqsStandardQueue
    MaxReceives     \* bound of the model: see Receive

ASSUME FifoParametersAssumption ==
    /\ IsFiniteSet(Messages)
    /\ GroupOf \in [Messages -> Groups]
    /\ DedupOf \in [Messages -> SUBSET DedupIds]
    /\ \A m \in Messages : Cardinality(DedupOf[m]) <= 1
    /\ Window \in Nat
    /\ DelaysOf \in [Messages -> SUBSET Nat]
    /\ Timeouts \cup Waits \cup Extensions \subseteq Nat
    /\ Batches \cup Policies \subseteq Nat \ {0}
    /\ MaxReceives \in Nat

VARIABLES
    q,              \* groups, groupOrder, inflight, visHeap and the messages:
                    \* see Init
    delay,          \* ticks before Message.DelayUntil
    dedup,          \* dedupCache: ticks before an id expires, 0 if absent
    dlqMax,         \* dlqMaxReceiveCount, 0 while there is no DLQ
    visTimer,       \* ticks before visTimer fires, or Off
    bg,             \* control state of backgroundLoop
    closed,         \* closeCh is closed
    call,           \* control state of each consumer's ReceiveMessages
    log,            \* each group's accepted sends in order (history)
    removed         \* messages clients deleted or purged (history)

vars == <<q, delay, dedup, dlqMax, visTimer, bg, closed, call, log, removed>>

Off == -1
Idle == [state |-> "idle", left |-> 0, max |-> 0, vis |-> 0]

Handle(m, k) == [msg |-> m, n |-> k]
Entry(h, t) == [value |-> h, left |-> t]
Due(heap) == {e \in heap : e.left = 0}
RemoveByValue(heap, h) == heap      \* as in SqsStandardQueue: no effect

ResetTimer(heap) ==
    IF heap = {} THEN {Off}
    ELSE {e.left : e \in {f \in heap : \A g \in heap : f.left <= g.left}}

(* The sequences that hold each element of S once. *)
Orders(S) ==
    {s \in [1..Cardinality(S) -> S] :
        /\ ToSet(s) = S
        /\ \A i, j \in DOMAIN s : s[i] = s[j] => i = j}

SignalWaiters(calls) ==
    [c \in Consumers |->
        IF calls[c].state = "parked" /\ calls[c].left > 0
        THEN [calls[c] EXCEPT !.state = "signalled"] ELSE calls[c]]

-----------------------------------------------------------------------------
(* The ring buffer of g in s.messages, whose domain are the groups there   *)
(* are.                                                                    *)
Buffer(s, g) == IF g \in DOMAIN s.messages THEN s.messages[g] ELSE <<>>
Put(s, g, buffer) ==
    [x \in DOMAIN s.messages \cup {g} |-> IF x = g THEN buffer ELSE s.messages[x]]

(* Mutant of PushToGroup: the message goes to the front of its group. *)
MutPushToGroup(s, m) ==
    LET g == GroupOf[m]
    IN  [s EXCEPT !.messages = Put(s, g, <<m>> \o Buffer(s, g)),
                  !.order = IF g \in DOMAIN s.messages THEN @ ELSE Append(@, g)]

(* Push a message on its group, which is created at the end of groupOrder  *)
(* if it does not exist.                                                   *)
PushToGroup(s, m) ==
    LET g == GroupOf[m]
    IN  [s EXCEPT !.messages = Put(s, g, Append(Buffer(s, g), m)),
                  !.order = IF g \in DOMAIN s.messages THEN @ ELSE Append(@, g)]

Plus1(counts, m) == [counts EXCEPT ![m] = @ + 1]
Unlock(s, g) == [s EXCEPT !.locked = @ \ {g}]

(* One iteration of reclaimExpiredLocked, for an entry still in flight: the *)
(* group is unlocked and the message redriven or pushed at its group's end. *)
ReclaimOne(s, h) ==
    LET m == h.msg
        free == Unlock([s EXCEPT !.inflight = @ \ {h}], GroupOf[m])
    IN IF dlqMax > 0 /\ s.count[m] >= dlqMax
       THEN [free EXCEPT !.redriven = Plus1(@, m)]
       ELSE PushToGroup(free, m)

MutExpired(s) == {e.value : e \in Due(s.heap)}  \* mutant: no check of inflight
Expired(s) == {e.value : e \in Due(s.heap)} \cap s.inflight

Reclaim(s, order) ==
    LET r[k \in 0 .. Len(order)] ==
            IF k = 0 THEN s ELSE ReclaimOne(r[k - 1], order[k])
    IN  [r[Len(order)] EXCEPT !.heap = @ \ Due(s.heap)]

-----------------------------------------------------------------------------
(* collectReadyLocked.  The inner loop visits a group: it skips a locked   *)
(* or empty one, rotates a head that is still delayed to the end, redrives *)
(* a head whose count exceeds the policy, and delivers any other head.  t  *)
(* holds the queue, what was delivered so far, and whether this pass       *)
(* changed something.                                                      *)
Visit(t, g, max) ==
    LET s == t.q
        m == Head(Buffer(s, g))
        rest == Tail(Buffer(s, g))
        popped == [s EXCEPT !.messages = Put(s, g, rest),
                            !.count = Plus1(@, m)]
    IN IF Len(t.result) >= max \/ g \in s.locked \/ Buffer(s, g) = <<>> THEN t
       ELSE IF delay[m] > 0
            THEN [t EXCEPT !.q = [s EXCEPT !.messages = Put(s, g, Append(rest, m))]]
       ELSE IF dlqMax > 0 /\ popped.count[m] > dlqMax
            THEN [t EXCEPT !.q = [popped EXCEPT !.redriven = Plus1(@, m)],
                           !.changed = TRUE]
       ELSE [q |-> popped, result |-> Append(t.result, m), changed |-> TRUE]

Pass(t, max) ==
    LET order == t.q.order
        p[k \in 0 .. Len(order)] ==
            IF k = 0 THEN [t EXCEPT !.changed = FALSE]
            ELSE Visit(p[k - 1], order[k], max)
    IN  p[Len(order)]

(* The outer loop repeats the pass while it changed something.  A pass     *)
(* that does takes a message, so Messages bounds their number.             *)
Passes(s, max) ==
    LET p[k \in 0 .. Cardinality(Messages) + 1] ==
            IF k = 0 THEN [q |-> s, result |-> <<>>, changed |-> TRUE]
            ELSE LET t == p[k - 1]
                 IN  IF t.changed /\ Len(t.result) < max THEN Pass(t, max) ELSE t
    IN  p[Cardinality(Messages) + 1]

(* The elements of order that are in kept, in order. *)
Only(order, kept) ==
    LET f[k \in 0 .. Len(order)] ==
            IF k = 0 THEN <<>>
            ELSE LET front == f[k - 1]
                 IN  IF order[k] \in kept THEN Append(front, order[k]) ELSE front
    IN  f[Len(order)]

InUse(s) == {g \in DOMAIN s.messages : s.messages[g] # <<>> \/ g \in s.locked}

(* Mutant of CleanGroups: the ids stay in groupOrder. *)
MutCleanGroups(s) ==
    [s EXCEPT !.messages = [g \in InUse(s) |-> s.messages[g]]]

(* cleanEmptyGroupsLocked drops the groups that are empty and unlocked. *)
CleanGroups(s) ==
    [s EXCEPT !.messages = [g \in InUse(s) |-> s.messages[g]],
              !.order = Only(@, InUse(s))]

MutLockGroups(s, touched) == s       \* mutant: nothing is locked
LockGroups(s, touched) == [s EXCEPT !.locked = @ \cup touched]

(* The groups delivered from are locked after the loop. *)
Collect(s, max, vis) ==
    LET t == Passes(s, max)
        got == ToSet(t.result)
        issued == {Handle(m, t.q.count[m]) : m \in got}
    IN CleanGroups(LockGroups(
         [t.q EXCEPT !.inflight = @ \cup issued,
                     !.heap = @ \cup {Entry(h, vis) : h \in issued}],
         {GroupOf[m] : m \in got}))

-----------------------------------------------------------------------------
(* q.messages[g] is the ring buffer of group g, q.locked the groups whose  *)
(* flag is set, q.order groupOrder; count is ReceiveCount.                 *)
Init ==
    /\ q = [messages |-> [g \in {} |-> <<>>], locked |-> {}, order |-> <<>>,
            inflight |-> {}, heap |-> {},
            count |-> [m \in Messages |-> 0],
            redriven |-> [m \in Messages |-> 0]]
    /\ delay = [m \in Messages |-> 0]
    /\ dedup = [d \in DedupIds |-> 0]
    /\ dlqMax \in Policies \cup {0}
    /\ visTimer = Off
    /\ bg = "select"
    /\ closed = FALSE
    /\ call = [c \in Consumers |-> Idle]
    /\ log = [g \in Groups |-> <<>>]
    /\ removed = {}

Sends == UNION {ToSet(log[g]) : g \in Groups}
Sent == {e.msg : e \in Sends}

(* The age of a send without a deduplication id does not matter. *)
LogEntry(m, t) == [msg |-> m, delay |-> t,
                   age |-> IF DedupOf[m] = {} THEN Window ELSE 0]

(* The cache holds an id of m whose window has not ended.  SendMessage     *)
(* prunes the expired ids before it looks, and nothing else reads the      *)
(* cache, so when the dedup timer prunes them cannot be observed.          *)
MutDuplicate(m) == \E d \in DedupOf[m] : dedup[d] > 1     \* mutant: off by one
Duplicate(m) == \E d \in DedupOf[m] : dedup[d] > 0

(* SendMessage.  A duplicate is refused and leaves the queue unchanged.    *)
Send(m, t) ==
    /\ m \notin Sent
    /\ ~Duplicate(m)
    /\ dedup' = [d \in DedupIds |-> IF d \in DedupOf[m] THEN Window ELSE dedup[d]]
    /\ delay' = [delay EXCEPT ![m] = t]
    /\ q' = PushToGroup(q, m)
    /\ call' = SignalWaiters(call)
    /\ log' = [log EXCEPT ![GroupOf[m]] = Append(@, LogEntry(m, t))]
    /\ UNCHANGED <<dlqMax, visTimer, bg, closed, removed>>

(* The critical section of ReceiveMessages: reclaim, collect, reset. *)
Refill(max, vis) ==
    /\ \E order \in Orders(Expired(q)) :
          q' = Collect(Reclaim(q, order), max, vis)
    /\ visTimer' \in ResetTimer(q'.heap)
    /\ UNCHANGED <<delay, dedup, dlqMax, bg, closed, log, removed>>

(* ReceiveMessages up to its first unlock.  MaxReceives bounds the model:  *)
(* no consumer calls again once some message was delivered that often.     *)
Receive(c, max, vis, wait) ==
    /\ call[c] = Idle
    /\ \A m \in Messages : q.count[m] < MaxReceives
    /\ Refill(max, vis)
    /\ call' = IF q'.inflight \subseteq q.inflight /\ wait > 0
               THEN [call EXCEPT ![c] = [state |-> "parked", left |-> wait,
                                         max |-> max, vis |-> vis]]
               ELSE call

(* The long poll after its token or its timer. *)
Resume(c) ==
    /\ \/ call[c].state = "signalled"
       \/ call[c].state = "parked" /\ call[c].left = 0
    /\ Refill(call[c].max, call[c].vis)
    /\ call' = [call EXCEPT ![c] = Idle]

(* The long poll ended by closeCh. *)
Abort(c) ==
    /\ closed
    /\ call[c].state # "idle"
    /\ call' = [call EXCEPT ![c] = Idle]
    /\ UNCHANGED <<q, delay, dedup, dlqMax, visTimer, bg, closed, log, removed>>

(* DeleteMessage unlocks the group and wakes nobody. *)
Delete(h) ==
    /\ h \in q.inflight
    /\ q' = Unlock([q EXCEPT !.inflight = @ \ {h},
                             !.heap = RemoveByValue(@, h)], GroupOf[h.msg])
    /\ removed' = removed \cup {h.msg}
    /\ UNCHANGED <<delay, dedup, dlqMax, visTimer, bg, closed, call, log>>

(* ChangeMessageVisibility to 0: back at the end of the group, if the      *)
(* group still exists.                                                     *)
Release(h) ==
    /\ h \in q.inflight
    /\ LET s == [q EXCEPT !.inflight = @ \ {h}, !.heap = RemoveByValue(@, h)]
       IN q' = IF GroupOf[h.msg] \in DOMAIN q.messages
               THEN Unlock(PushToGroup(s, h.msg), GroupOf[h.msg]) ELSE s
    /\ call' = SignalWaiters(call)
    /\ UNCHANGED <<delay, dedup, dlqMax, visTimer, bg, closed, log, removed>>

(* ChangeMessageVisibility to t > 0. *)
Extend(h, t) ==
    /\ h \in q.inflight
    /\ t > 0
    /\ q' = [q EXCEPT !.heap = RemoveByValue(@, h) \cup {Entry(h, t)}]
    /\ visTimer' \in ResetTimer(q'.heap)
    /\ UNCHANGED <<delay, dedup, dlqMax, bg, closed, call, log, removed>>

Queued(g) == ToSet(Buffer(q, g))
InQueue(m) == m \in Queued(GroupOf[m])
InFlight(m) == \E h \in q.inflight : h.msg = m
InDLQ(m) == q.redriven[m] > 0

(* Purge keeps the deduplication cache, the timers and the waiters. *)
Purge ==
    /\ q' = [q EXCEPT !.messages = [g \in {} |-> <<>>], !.locked = {},
                      !.order = <<>>, !.inflight = {}, !.heap = {}]
    /\ removed' = removed \cup {m \in Messages : InQueue(m) \/ InFlight(m)}
    /\ UNCHANGED <<delay, dedup, dlqMax, visTimer, bg, closed, call, log>>

SetDLQ(max) ==
    /\ dlqMax' = max
    /\ UNCHANGED <<q, delay, dedup, visTimer, bg, closed, call, log, removed>>

Close ==
    /\ ~closed
    /\ closed' = TRUE
    /\ UNCHANGED <<q, delay, dedup, dlqMax, visTimer, bg, call, log, removed>>

-----------------------------------------------------------------------------
(* backgroundLoop takes a visibility tick without the lock and acts on it  *)
(* later; it wakes the waiters whether or not it returned anything.        *)
VisTick ==
    /\ bg = "select" /\ visTimer = 0
    /\ bg' = "vis"
    /\ visTimer' = Off
    /\ UNCHANGED <<q, delay, dedup, dlqMax, closed, call, log, removed>>

ReclaimExpired ==
    /\ bg = "vis"
    /\ bg' = "select"
    /\ \E order \in Orders(Expired(q)) : q' = Reclaim(q, order)
    /\ visTimer' \in ResetTimer(q'.heap)
    /\ call' = SignalWaiters(call)
    /\ UNCHANGED <<delay, dedup, dlqMax, closed, log, removed>>

StopLoop ==
    /\ bg = "select" /\ closed
    /\ bg' = "exited"
    /\ UNCHANGED <<q, delay, dedup, dlqMax, visTimer, closed, call, log, removed>>

MutElapse(t) == IF t = Off THEN Off ELSE t - 1      \* mutant: no floor
Elapse(t) == IF t > 0 THEN t - 1 ELSE t

Tick ==
    /\ q' = [q EXCEPT !.heap = {Entry(e.value, Elapse(e.left)) : e \in @}]
    /\ delay' = [m \in Messages |-> Elapse(delay[m])]
    /\ dedup' = [d \in DedupIds |-> Elapse(dedup[d])]
    /\ visTimer' = Elapse(visTimer)
    /\ call' = [c \in Consumers |->
                  [call[c] EXCEPT !.left = Elapse(call[c].left)]]
    /\ log' = [g \in Groups |-> [i \in 1..Len(log[g]) |->
                 [log[g][i] EXCEPT !.age = IF @ < Window THEN @ + 1 ELSE @]]]
    /\ UNCHANGED <<dlqMax, bg, closed, removed>>

Client ==
    \/ \E m \in Messages : \E t \in DelaysOf[m] : Send(m, t)
    \/ \E c \in Consumers, k \in Batches, v \in Timeouts, w \in Waits :
          Receive(c, k, v, w)
    \/ \E h \in q.inflight : Delete(h)
    \/ 0 \in Extensions /\ \E h \in q.inflight : Release(h)
    \/ \E h \in q.inflight, t \in Extensions : Extend(h, t)
    \/ Purge
    \/ \E p \in Policies : SetDLQ(p)
    \/ Close

Next ==
    \/ Client
    \/ \E c \in Consumers : Resume(c) \/ Abort(c)
    \/ VisTick \/ ReclaimExpired \/ StopLoop
    \/ Tick

Spec == Init /\ [][Next]_vars

-----------------------------------------------------------------------------
(* TypeOK: the fields of FIFOQueue keep their types; a message waits in its *)
(* own group only.                                                          *)
TypeOK ==
    /\ \A g \in DOMAIN q.messages :
          \A m \in ToSet(q.messages[g]) : m \in Messages /\ GroupOf[m] = g
    /\ q.locked \subseteq DOMAIN q.messages
    /\ \A h \in q.inflight : h.msg \in Messages /\ h.n \in Nat \ {0}
    /\ \A e \in q.heap : e.value.msg \in Messages /\ e.left \in Nat
    /\ q.count \in [Messages -> Nat]
    /\ q.redriven \in [Messages -> Nat]
    /\ delay \in [Messages -> Nat]
    /\ dedup \in [DedupIds -> 0..Window]
    /\ dlqMax \in Policies \cup {0}
    /\ visTimer \in Nat \cup {Off}
    /\ bg \in {"select", "vis", "exited"}
    /\ closed \in BOOLEAN
    /\ call \in [Consumers -> [state : {"idle", "parked", "signalled"},
                               left : Nat, max : Nat, vis : Nat]]
    /\ Sent \cup removed \subseteq Messages

(* groupOrder lists exactly the groups that exist, each once.  The two are *)
(* updated apart, by pushes that create a group, by cleanEmptyGroupsLocked *)
(* and by Purge; a group missing from groupOrder would never be visited,   *)
(* one listed twice would be visited twice in a pass.                      *)
GroupsListed ==
    /\ ToSet(q.order) = DOMAIN q.messages
    /\ \A i, j \in DOMAIN q.order : q.order[i] = q.order[j] => i = j

(* An accepted message is in exactly one place, once: its group, in flight *)
(* under one handle, or the DLQ, until a client deletes or purges it.      *)
ExactlyOnePlace ==
    /\ \A g \in DOMAIN q.messages :
          \A i, j \in DOMAIN q.messages[g] :
             q.messages[g][i] = q.messages[g][j] => i = j
    /\ \A g, h \in q.inflight : g.msg = h.msg => g = h
    /\ \A m \in Messages :
          /\ q.redriven[m] <= 1
          /\ InQueue(m) => ~InFlight(m) /\ ~InDLQ(m)
          /\ InFlight(m) => ~InDLQ(m)
          /\ m \in Sent \ removed <=> InQueue(m) \/ InFlight(m) \/ InDLQ(m)

(* As in SqsStandardQueue: a message in flight is in the heap, and while   *)
(* the loop runs a heap that is not empty has its timer armed in time.     *)
ExpiryScheduled ==
    /\ \A h \in q.inflight : \E e \in q.heap : e.value = h
    /\ q.heap # {} /\ bg = "select" =>
          visTimer # Off /\ \A e \in q.heap : visTimer <= e.left

(* What the queue keeps can be reached: ready messages by the round-robin  *)
(* over groupOrder, messages in flight by the visibility timer.            *)
NothingStranded == GroupsListed /\ ExpiryScheduled

(* A receive delivers nothing from a group while another message of the    *)
(* group stays in flight.                                                  *)
GroupLocked ==
    [][\A h \in q'.inflight \ q.inflight, x \in q.inflight \cap q'.inflight :
          GroupOf[h.msg] # GroupOf[x.msg]]_vars

(* First deliveries follow the order of the sends within a group: a        *)
(* message is not delivered for the first time before an earlier one of    *)
(* its group that was sent without a delay and is still to be delivered.   *)
(* Receives of several groups, redrives and returned messages may happen   *)
(* in between.                                                             *)
FirstDeliveryInOrder ==
    [][\A g \in Groups : \A i, j \in 1..Len(log[g]) :
          LET early == log[g][i].msg
              late == log[g][j].msg
          IN  /\ i < j /\ log[g][i].delay = 0
              /\ q.count[late] = 0 /\ q'.count[late] = 1
              => q'.count[early] > 0 \/ early \in removed]_vars

(* Two sends with one deduplication id are accepted at least a window      *)
(* apart, whatever happened to the first message: delivery, delete, purge. *)
DedupWindow ==
    [][\A m \in Sent' \ Sent, e \in Sends :
          DedupOf[m] \cap DedupOf[e.msg] # {} => e.age = Window]_vars
=============================================================================
