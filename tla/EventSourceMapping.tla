------------------------- MODULE EventSourceMapping -------------------------
(***************************************************************************)
(* Lambda event source mappings over SQS queues that redrive into each     *)
(* other: services/lambda/event_source.go over PollMessages and AckMessage *)
(* (services/sqs/service.go), standard.go and store.go.                    *)
(*                                                                         *)
(* SqsStandardQueue has one queue in full; here there are several, each    *)
(* with its mutex, because a redrive locks the dead-letter queue while it  *)
(* holds the source's.  A poller receives, unlocks, reads the receipt      *)
(* handles, invokes the function and acknowledges, and any of these steps  *)
(* may outlast the visibility timeout.  Delays, long polls and clients     *)
(* that change visibility are left to SqsStandardQueue.                    *)
(*                                                                         *)
(* fresh is history: no guard reads it.                                    *)
(***************************************************************************)
EXTENDS Integers, Sequences, FiniteSets, SequencesExt

CONSTANTS
    Messages,
    Queues,
    Mappings,           \* UUIDs of event source mappings, one poller each
    Policy,             \* Policy[q]: the queue its RedrivePolicy names
    MaxReceiveCount,
    BatchSize,
    Sources,            \* bound: Sources[p] are queues p may be created for
    MaxCalls,           \* bound: sends, creations, deletions and imports
    NoQueue, Nobody

ASSUME PipelineParametersAssumption ==
    /\ Policy \in [Queues -> Queues \cup {NoQueue}]
    /\ NoQueue \notin Queues
    /\ MaxReceiveCount \in Nat \ {0}
    /\ BatchSize \in Nat \ {0}
    /\ Sources \in [Mappings -> SUBSET Queues]
    /\ MaxCalls \in Nat
    /\ Nobody \notin Mappings \cup Queues
    /\ Mappings \cap Queues = {}

(* Chains of policies end.  Nothing enforces it: CreateQueue and           *)
(* ImportState take a policy that names its own queue, or one that leads   *)
(* back to it, and then a redrive waits for a mutex that is never given    *)
(* back (store.go:127, standard.go:285).                                   *)
Acyclic ==
    \E rank \in [Queues -> 0 .. Cardinality(Queues)] :
        \A q \in Queues : Policy[q] # NoQueue => rank[Policy[q]] < rank[q]

VARIABLES
    mu,         \* the poller that holds a queue's mutex, the queue itself
                \* for its backgroundLoop, or Nobody
    ready,      \* StandardQueue.ready
    inflight,   \* StandardQueue.inflight
    late,       \* the inflight messages whose deadline has passed
    count,      \* Message.ReceiveCount, up to MaxReceiveCount + 1
    wired,      \* queues whose dlqTarget is set to the policy's
    named,      \* queues the store finds by name: not deleted
    sent,       \* messages ever accepted
    pc,         \* what each poller does
    source,     \* the queue each mapping names
    listed,     \* EventSourceMappingStore.mappings
    stopChs,    \* EventSourceMappingStore.stopChs
    closed,     \* mappings whose stop channel is closed
    batch,      \* the messages a poller has received
    valid,      \* those of them whose handle, as read, is their latest
    done,       \* messages a successful invocation has seen
    calls,      \* requests made so far (bound)
    fresh       \* received and not past their deadline since (history)

queueVars == <<mu, ready, inflight, late, count, wired, named, sent>>
mapVars == <<source, listed, stopChs, closed>>
vars == <<queueVars, pc, mapVars, batch, valid, done, calls, fresh>>

Called == calls < MaxCalls /\ calls' = calls + 1

Capped(n) == IF n > MaxReceiveCount THEN n ELSE n + 1

Init ==
    /\ mu = [q \in Queues |-> Nobody]
    /\ ready = [q \in Queues |-> <<>>]
    /\ inflight = [q \in Queues |-> {}]
    /\ late = [q \in Queues |-> {}]
    /\ count = [q \in Queues |-> [m \in Messages |-> 0]]
    /\ wired = {}
    /\ named = Queues
    /\ sent = {}
    /\ pc = [p \in Mappings |-> "none"]
    /\ source = [p \in Mappings |-> NoQueue]
    /\ listed = {}
    /\ stopChs = {}
    /\ closed = {}
    /\ batch = [p \in Mappings |-> <<>>]
    /\ valid = [p \in Mappings |-> {}]
    /\ done = {}
    /\ calls = 0
    /\ fresh = [p \in Mappings |-> {}]

-----------------------------------------------------------------------------
(* Queues: one at a time, under their mutex.                               *)

(* EnqueueDirect, or any SendMessage.  The queue may have been deleted      *)
(* since it was looked up (service.go:90).                                 *)
Send(q, m) ==
    /\ Called
    /\ mu[q] = Nobody
    /\ m \notin sent
    /\ ready' = [ready EXCEPT ![q] = Append(@, m)]
    /\ sent' = sent \cup {m}
    /\ UNCHANGED <<mu, inflight, late, count, wired, named, pc, mapVars,
                   batch, valid, done, fresh>>

(* The visibility deadline of m passes. *)
Elapse(q, m) ==
    /\ m \in inflight[q] \ late[q]
    /\ late' = [late EXCEPT ![q] = @ \cup {m}]
    /\ fresh' = [p \in Mappings |->
                    IF source[p] = q THEN fresh[p] \ {m} ELSE fresh[p]]
    /\ UNCHANGED <<mu, ready, inflight, count, wired, named, sent, pc,
                   mapVars, batch, valid, done, calls>>

(* Mutant of WireDLQ: a target that is not found is set all the same. *)
MutWireDLQ(q) ==
    /\ Called
    /\ q \in named \ wired /\ mu[q] = Nobody
    /\ wired' = wired \cup {q}
    /\ UNCHANGED <<mu, ready, inflight, late, count, named, sent, pc,
                   mapVars, batch, valid, done, fresh>>

(* wireDLQLocked, by CreateQueue or by ImportState once the target exists. *)
WireDLQ(q) ==
    /\ Called
    /\ q \in named \ wired /\ mu[q] = Nobody
    /\ Policy[q] \in named
    /\ wired' = wired \cup {q}
    /\ UNCHANGED <<mu, ready, inflight, late, count, named, sent, pc,
                   mapVars, batch, valid, done, fresh>>

(* Close, and the queue is no longer found; whoever has it keeps it. *)
DeleteQueue(q) ==
    /\ Called
    /\ q \in named /\ mu[q] = Nobody
    /\ named' = named \ {q}
    /\ UNCHANGED <<mu, ready, inflight, late, count, wired, sent, pc,
                   mapVars, batch, valid, done, fresh>>

(* Mutant of Target: the queue is its own. *)
MutTarget(q) == q

Target(q) == Policy[q]

(* Mutant of SpentAtCollect: >= for >. *)
MutSpentAtCollect(q, n) == q \in wired /\ n >= MaxReceiveCount

SpentAtCollect(q, n) == q \in wired /\ n > MaxReceiveCount
SpentAtReclaim(q, n) == q \in wired /\ n >= MaxReceiveCount

(* Mutant of Leaves: a redriven message is returned as well. *)
MutLeaves(q, spent, rest, m) ==
    IF spent THEN [ready EXCEPT ![q] = Append(rest, m),
                                ![Target(q)] = Append(@, m)]
    ELSE [ready EXCEPT ![q] = rest]

(* The ready buffers when q, whose own is rest, is done with m: a copy of  *)
(* a spent message is in the target's.                                     *)
Leaves(q, spent, rest, m) ==
    IF spent THEN [ready EXCEPT ![q] = rest, ![Target(q)] = Append(@, m)]
    ELSE [ready EXCEPT ![q] = rest]

(* dlqTarget.SendMessage waits for the target's mutex, q's being held. *)
CanRedrive(q, spent) == spent => mu[Target(q)] = Nobody

(* Mutant of Overdue: whatever is in flight is taken back. *)
MutOverdue(q) == inflight[q]

Overdue(q) == late[q]

(* reclaimExpiredLocked, one entry, by x. *)
Reclaim(x, q, m) ==
    LET spent == SpentAtReclaim(q, count[q][m]) IN
    /\ mu[q] = x
    /\ m \in Overdue(q)
    /\ CanRedrive(q, spent)
    /\ ready' = Leaves(q, spent,
                       IF spent THEN ready[q] ELSE Append(ready[q], m), m)
    /\ inflight' = [inflight EXCEPT ![q] = @ \ {m}]
    /\ late' = [late EXCEPT ![q] = @ \ {m}]
    /\ UNCHANGED <<mu, count, wired, named, sent, pc, mapVars,
                   batch, valid, done, calls, fresh>>

(* backgroundLoop of q: the visibility timer has fired, the loop reclaims  *)
(* and unlocks.  A loop that had its tick when the queue was deleted may   *)
(* reclaim once more; pollers that keep the queue reclaim there too.       *)
LoopLock(q) ==
    /\ q \in named /\ mu[q] = Nobody
    /\ late[q] # {}
    /\ mu' = [mu EXCEPT ![q] = q]
    /\ UNCHANGED <<ready, inflight, late, count, wired, named, sent, pc,
                   mapVars, batch, valid, done, calls, fresh>>

LoopUnlock(q) ==
    /\ mu[q] = q
    /\ Overdue(q) = {}
    /\ mu' = [mu EXCEPT ![q] = Nobody]
    /\ UNCHANGED <<ready, inflight, late, count, wired, named, sent, pc,
                   mapVars, batch, valid, done, calls, fresh>>

-----------------------------------------------------------------------------
(* Mappings.                                                               *)

CreateMapping(p, q) ==
    /\ Called
    /\ pc[p] = "none"
    /\ q \in Sources[p]
    /\ pc' = [pc EXCEPT ![p] = "create"]
    /\ source' = [source EXCEPT ![p] = q]
    /\ listed' = listed \cup {p}
    /\ UNCHANGED <<queueVars, stopChs, closed, batch, valid, done,
                   fresh>>

StartSQSPoller(p) ==
    /\ pc[p] = "create"
    /\ pc' = [pc EXCEPT ![p] = "select"]
    /\ stopChs' = stopChs \cup {p}
    /\ UNCHANGED <<queueVars, source, listed, closed, batch, valid, done,
                   calls, fresh>>

(* Mutant of DeleteMapping: the channel is forgotten, not closed. *)
MutDeleteMapping(p) ==
    /\ Called
    /\ p \in listed
    /\ listed' = listed \ {p}
    /\ stopChs' = stopChs \ {p}
    /\ UNCHANGED <<queueVars, pc, source, closed, batch, valid, done,
                   fresh>>

(* A poller that has not been started yet is not told (event_source.go:74). *)
DeleteMapping(p) ==
    /\ Called
    /\ p \in listed
    /\ listed' = listed \ {p}
    /\ stopChs' = stopChs \ {p}
    /\ closed' = closed \cup (stopChs \cap {p})
    /\ UNCHANGED <<queueVars, pc, source, batch, valid, done,
                   fresh>>

(* The select of a poller: with both channels ready it takes either. *)
StopPoller(p) ==
    /\ pc[p] = "select"
    /\ p \in closed
    /\ pc' = [pc EXCEPT ![p] = "stopped"]
    /\ UNCHANGED <<queueVars, mapVars, batch, valid, done, calls, fresh>>

TickPoller(p) ==
    /\ pc[p] = "select"
    /\ source[p] \in named
    /\ pc' = [pc EXCEPT ![p] = "poll"]
    /\ UNCHANGED <<queueVars, mapVars, batch, valid, done, calls, fresh>>

(* ReceiveMessages: lock, reclaim, collect one by one, unlock. *)
Lock(p) ==
    /\ pc[p] = "poll"
    /\ mu[source[p]] = Nobody
    /\ mu' = [mu EXCEPT ![source[p]] = p]
    /\ pc' = [pc EXCEPT ![p] = "reclaim"]
    /\ UNCHANGED <<ready, inflight, late, count, wired, named, sent,
                   mapVars, batch, valid, done, calls, fresh>>

(* The poller has nothing to reclaim, or has begun to collect. *)
Collecting(p) ==
    \/ pc[p] = "reclaim" /\ Overdue(source[p]) = {}
    \/ pc[p] = "collect"

Full(p) == Len(batch[p]) = BatchSize \/ ready[source[p]] = <<>>

(* Mutant of Received: the receive is not counted. *)
MutReceived(q, m) == count[q][m]

Received(q, m) == Capped(count[q][m])

(* collectReadyLocked, one message: a new handle, the count, and a flight  *)
(* or a redrive.                                                           *)
Collect(p) ==
    LET q == source[p]
        m == Head(ready[q])
        n == Received(q, m)
        spent == SpentAtCollect(q, n)
    IN
    /\ Collecting(p)
    /\ ~Full(p)
    /\ CanRedrive(q, spent)
    /\ ready' = Leaves(q, spent, Tail(ready[q]), m)
    /\ count' = [count EXCEPT ![q][m] = n]
    /\ valid' = [x \in Mappings |->
                    IF source[x] = q THEN valid[x] \ {m} ELSE valid[x]]
    /\ IF spent
       THEN UNCHANGED <<inflight, batch, fresh>>
       ELSE /\ inflight' = [inflight EXCEPT ![q] = @ \cup {m}]
            /\ batch' = [batch EXCEPT ![p] = Append(@, m)]
            /\ fresh' = [fresh EXCEPT ![p] = @ \cup {m}]
    /\ pc' = [pc EXCEPT ![p] = "collect"]
    /\ UNCHANGED <<mu, late, wired, named, sent, mapVars, done, calls>>

Unlock(p) ==
    /\ Collecting(p)
    /\ Full(p)
    /\ mu' = [mu EXCEPT ![source[p]] = Nobody]
    /\ pc' = [pc EXCEPT ![p] = IF batch[p] = <<>> THEN "select" ELSE "read"]
    /\ UNCHANGED <<ready, inflight, late, count, wired, named, sent,
                   mapVars, batch, valid, done, calls, fresh>>

(* PollMessages reads the handles from the shared messages after the       *)
(* unlock: the latest ones, whoever they were given to.                    *)
ReadHandles(p) ==
    /\ pc[p] = "read"
    /\ pc' = [pc EXCEPT ![p] = "invoke"]
    /\ valid' = [valid EXCEPT ![p] = ToSet(batch[p])]
    /\ UNCHANGED <<queueVars, mapVars, batch, done, calls, fresh>>

(* Mutant of InvokeFails: the batch is acknowledged. *)
MutInvokeFails(p) ==
    /\ pc[p] = "invoke"
    /\ pc' = [pc EXCEPT ![p] = "ack"]
    /\ UNCHANGED <<queueVars, mapVars, batch, valid, done, calls, fresh>>

(* InvokeDirect returns an error, or the function is gone. *)
InvokeFails(p) ==
    /\ pc[p] = "invoke"
    /\ pc' = [pc EXCEPT ![p] = "select"]
    /\ batch' = [batch EXCEPT ![p] = <<>>]
    /\ valid' = [valid EXCEPT ![p] = {}]
    /\ fresh' = [fresh EXCEPT ![p] = {}]
    /\ UNCHANGED <<queueVars, mapVars, done, calls>>

InvokeSucceeds(p) ==
    /\ pc[p] = "invoke"
    /\ pc' = [pc EXCEPT ![p] = "ack"]
    /\ done' = done \cup ToSet(batch[p])
    /\ UNCHANGED <<queueVars, mapVars, batch, valid, calls, fresh>>

(* AckMessage of the first message left: DeleteMessage finds it only under *)
(* its latest handle, and nothing is found in a deleted queue.             *)
AckMessage(p) ==
    LET q == source[p]
        m == Head(batch[p])
        rest == Tail(batch[p])
        found == q \in named /\ m \in valid[p]
    IN
    /\ pc[p] = "ack"
    /\ q \in named => mu[q] = Nobody
    /\ inflight' = [inflight EXCEPT ![q] = IF found THEN @ \ {m} ELSE @]
    /\ late' = [late EXCEPT ![q] = IF found THEN @ \ {m} ELSE @]
    /\ batch' = [batch EXCEPT ![p] = rest]
    /\ valid' = [valid EXCEPT ![p] = @ \ {m}]
    /\ fresh' = [fresh EXCEPT ![p] = @ \ {m}]
    /\ pc' = [pc EXCEPT ![p] = IF rest = <<>> THEN "select" ELSE "ack"]
    /\ UNCHANGED <<mu, ready, count, wired, named, sent, mapVars, done, calls>>

-----------------------------------------------------------------------------
ReclaimStep(p) ==
    /\ pc[p] = "reclaim"
    /\ \E m \in Messages : Reclaim(p, source[p], m)

PollerStep(p) ==
    \/ StartSQSPoller(p) \/ TickPoller(p)
    \/ Lock(p) \/ ReclaimStep(p) \/ Collect(p) \/ Unlock(p)
    \/ ReadHandles(p) \/ InvokeFails(p) \/ InvokeSucceeds(p) \/ AckMessage(p)

LoopStep(q) ==
    LoopLock(q) \/ LoopUnlock(q) \/ \E m \in Messages : Reclaim(q, q, m)

Next ==
    \/ \E q \in Queues, m \in Messages : Send(q, m) \/ Elapse(q, m)
    \/ \E q \in Queues : WireDLQ(q) \/ DeleteQueue(q) \/ LoopStep(q)
    \/ \E p \in Mappings, q \in Queues : CreateMapping(p, q)
    \/ \E p \in Mappings :
          PollerStep(p) \/ StopPoller(p) \/ DeleteMapping(p)

Spec == Init /\ [][Next]_vars

(* Time passes, tickers tick and invocations end; sync.Mutex hands itself  *)
(* to whoever waits longest; select chooses at random among ready cases.   *)
(* Nobody has to create, delete, send or import.                           *)
Fairness ==
    /\ \A q \in Queues : SF_vars(LoopStep(q))
    /\ WF_vars(\E q \in Queues, m \in Messages : Elapse(q, m))
    /\ \A p \in Mappings : SF_vars(PollerStep(p)) /\ SF_vars(StopPoller(p))

FairSpec == Spec /\ Fairness

-----------------------------------------------------------------------------
(* Properties                                                              *)

Working == {"reclaim", "collect"}
Holding == {"read", "invoke", "ack"}

TypeOK ==
    /\ mu \in [Queues -> Mappings \cup Queues \cup {Nobody}]
    /\ ready \in [Queues -> Seq(Messages)]
    /\ inflight \in [Queues -> SUBSET Messages]
    /\ late \in [Queues -> SUBSET Messages]
    /\ count \in [Queues -> [Messages -> 0 .. MaxReceiveCount + 1]]
    /\ wired \subseteq {q \in Queues : Policy[q] # NoQueue}
    /\ named \subseteq Queues
    /\ sent \subseteq Messages
    /\ pc \in [Mappings -> {"none", "create", "select", "poll", "stopped"}
                           \cup Working \cup Holding]
    /\ source \in [Mappings -> Queues \cup {NoQueue}]
    /\ listed \subseteq Mappings
    /\ stopChs \subseteq Mappings
    /\ closed \subseteq Mappings
    /\ batch \in [Mappings -> Seq(Messages)]
    /\ valid \in [Mappings -> SUBSET Messages]
    /\ done \subseteq Messages
    /\ calls \in 0 .. MaxCalls
    /\ fresh \in [Mappings -> SUBSET Messages]

Held(q) == ToSet(ready[q]) \cup inflight[q]
Present == UNION {Held(q) : q \in Queues}

(* Redrives move a message and late acknowledgements do not touch it in    *)
(* its new queue: it is in at most one queue, once (standard.go:335).      *)
AtMostOnePlace ==
    \A q \in Queues :
        /\ IsInjective(ready[q])
        /\ ToSet(ready[q]) \cap inflight[q] = {}
        /\ \A r \in Queues \ {q} : Held(q) \cap Held(r) = {}

(* Two pollers work on one message only after its visibility timeout ran   *)
(* out on one of them (event_source.go:309).                               *)
ExclusiveWork ==
    \A p, r \in Mappings : p # r => fresh[p] \cap fresh[r] = {}

(* A message leaves the queues only when a successful invocation saw it,   *)
(* whatever expired, was redriven or was acknowledged late meanwhile.      *)
Delivery == INSTANCE AtLeastOnce
                WITH accepted <- sent, processed <- done,
                     gone <- sent \ Present
ImplementsDelivery == Delivery!Spec

(* What a step may do to the messages of a queue with a policy. *)
AttemptsStep ==
    \A q \in wired, m \in Messages :
        /\ m \in Held(q) /\ (\E r \in Queues \ {q} : m \in Held(r)')
           => count[q][m] >= MaxReceiveCount
        /\ m \in inflight'[q] \ inflight[q]
           => count[q][m] < MaxReceiveCount

(* A queue with a policy dead-letters a message only after it gave it out  *)
(* MaxReceiveCount times, and never gives it out more often: the test is   *)
(* >= when a flight ends and > when the message is counted before it is    *)
(* given out (standard.go:284, 336).                                       *)
RedriveAfterAttempts == [][AttemptsStep]_vars

(* Every critical section ends, though a redrive waits for the target's    *)
(* mutex with the source's held.                                           *)
MutexesAreReleased == \A q \in Queues : mu[q] # Nobody ~> mu[q] = Nobody

(* DeleteEventSourceMapping stops a poller that was started, though ticks  *)
(* compete with the closed channel; one deleted between Create and         *)
(* SetStopCh is still in stopChs and runs on (event_source.go:191).        *)
DeletedMappingStops ==
    \A p \in Mappings :
        pc[p] \notin {"none", "create"} /\ p \notin listed \cup stopChs
        ~> pc[p] = "stopped"

Served(q) ==
    q \in named /\ \E p \in Mappings : source[p] = q /\ p \in listed

(* While a queue with a policy keeps a mapping, each of its messages is    *)
(* acknowledged or dead-lettered, however often invocations fail or        *)
(* outlast the timeout.                                                    *)
MessagesSettle ==
    \A q \in {r \in Queues : Policy[r] # NoQueue}, m \in Messages :
        m \in Held(q) /\ q \in wired /\ Served(q)
        ~> m \notin Held(q) \/ ~Served(q)
=============================================================================
