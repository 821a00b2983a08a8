# CloudMock in TLA+

CloudMock emulates cloud services in one Go process. Its own core logic is
concurrent: request handlers, background goroutines and timers share queues,
tables and state machines under mutexes that some operations release and take
again half-way. This directory models the parts where that is hard, checks
them with TLC, and proves the most important results with TLAPS for every
value of the constants.

Source paths are relative to the repository. "The queue" is the standard SQS
queue unless said otherwise.

## Inventory

| Component | State | Operations | What makes it correct |
|---|---|---|---|
| SQS standard queue `services/sqs/standard.go` | ring buffer, heap of delayed messages, map of flights by receipt handle, heap of visibility deadlines, waiters, two timers, DLQ policy | send, receive (long poll), delete, change visibility, purge, set DLQ, close; `backgroundLoop` | no message lost, doubled or revived; redrive at its limit; deadlines kept and watched; polls, delays and flights end |
| SQS FIFO queue `services/sqs/fifo.go` | groups with a lock flag, group order, flights, visibility heap, deduplication cache | the same | the same, and order and exclusion within a group, deduplication over the window |
| SQS service, store, handlers, snapshot | queues by URL, name and ARN | create, delete, attributes, DLQ wiring, `PollMessages`, `AckMessage` | redrive across queues without loss or deadlock; a deleted queue does no harm |
| Lifecycle machine `pkg/lifecycle` (42 service files use it) | state, timer, configuration | create, force, stop, automatic transition | a transient state is left; timers fit the state; Stop is final |
| DynamoDB `services/dynamodb` | tables, partitions with their own locks, indexes, stream | put, get, update, delete, batch, transactions, TTL sweep | settled writes are kept, conditions are atomic, indexes, stream and count agree with the items, calls return |
| Lambda event source mapping `services/lambda/event_source.go` | mappings, stop channels, pollers | create, update, delete; poll, invoke, acknowledge | nothing leaves the queue unprocessed; nobody works on another's message before its timeout; a deleted mapping stops polling |
| Regression engine `pkg/regression` | regressions, pending deploys, timers, two goroutines | scan, evaluate a deploy, resolve, stop | accepted deploys are evaluated; regressions end when their metric recovers |
| Incident service `pkg/incident`, SLO alerts `pkg/gateway/slo.go` | incidents, found and written back as copies | on a regression, on an SLO breach; acknowledge, resolve, dismiss | alerts are grouped and counted once; an incident is open while a regression of it is active, and closed after |
| Worker pool `pkg/worker`, event bus `pkg/eventbus`, wiring `pkg/integration` | named workers; subscriptions | schedule, cancel, shut down; publish, subscribe | nothing runs after a cancel; fan-out to the subscriptions of the moment |
| Collections `pkg/collections` | ring buffer, min-heap | push, pop, peek, remove | FIFO across grow and wrap-around; least first |

Handlers call the queues directly; DLQ redrive calls another queue's
`SendMessage` with the own mutex held; Lambda's pollers call SQS through
`PollMessages` and `AckMessage`; service events go through the bus to
subscribers in goroutines; the lifecycle machine calls its subscriber back
outside its lock; the regression engine, SLO alerts and administrators call the
incident service from goroutines of their own, and its store is all they share.
PROJECT.json lists every other part with the reason it is
not modelled, and the hazards with the line where each one bites.

## Modules

| Module | What it is |
|---|---|
| `MessageLifecycle` | abstract specification: the places of a message and the edges between them |
| `SqsStandardQueue` | the standard queue; refines `MessageLifecycle` under `PlaceOf` |
| `SqsStandardQueueProofs` | its type, timer, place and redrive theorems, and the proof that it implements `MessageLifecycle` |
| `SqsFifoQueue` | the FIFO queue |
| `SqsFifoQueueProofs` | its type, reachability, place, exclusion, order and deduplication theorems |
| `Lifecycle` | the resource state machine |
| `AtLeastOnce` | abstract specification: a message is kept until an invocation has seen it |
| `EventSourceMapping` | queues that redrive into each other, with their mutexes, composed with Lambda's mappings and pollers; refines `AtLeastOnce` |
| `EventSourceMappingProofs` | its type, place, exclusion, redrive, refinement and deadlock theorems |
| `LifecycleProofs` | its type, timer, resting-place and no-stranding theorems |
| `AlertPipeline` | from metrics to incidents: the regression engine, the incident service, both stores, SLO alerts, administrators |
| `AlertPipelineProofs` | its type, count, grouping, coverage and resolution theorems |
| `DynamoTable` | one DynamoDB table: partitions with their locks, index, stream, transactions, TTL reaper |
| `DynamoTableProofs` | its type, settled-write, index, stream, count, create, reaper and deadlock theorems |
| `Iteration` | induction over the natural numbers and the existence of recursive functions, for the modules whose code loops and those with sums over sequences |
| `RingBuffer` | the growing ring buffer that holds ready messages |
| `RingBufferProofs` | the proof that it is a first-in first-out sequence |
| `MCSqsStandardQueue`, `MCSqsFifoQueue`, `MCLifecycle`, `MCEventSourceMapping`, `MCDynamoTable`, `MCAlertPipeline` | finite instances |

### Correspondence

**Atomicity.** Each method of a queue holds `q.mu` for its whole body, so it is
one action. `ReceiveMessages` is the exception: `Receive` is its first critical
section, `Resume` and `Abort` are the ends of its `select`, `Resume` with the
second critical section. `backgroundLoop` takes a tick without the lock
(`DelayTick`, `VisTick`) and acts on it under the lock (`MatureDelayed`,
`ReclaimExpired`), and anything may happen in between. `Collect` is the sequence
mature, reclaim, collect, reset of one critical section.

**Time** is relative: a deadline or an armed timer is the number of ticks left,
and `Tick` ages all of them together. A timer at 0 has fired and its tick waits
in the channel; re-arming it discards the tick, as Go does since 1.23 (`go.mod`
names 1.26). Nothing forces a goroutine to act before more ticks pass, so every
lateness is covered. Deadlines that have passed are popped in any order.

**Data.** A message is a model value that is sent at most once. A receipt
handle is the message and the number of its delivery, which is as unique as the
code's counter. A heap is a set of entries; the ring buffer
is a sequence, which `RingBufferProofs` justifies.
`RemoveByValue` is the identity, because the callers pass a pointer to a new
entry and the heap compares pointers. The DLQ counts the copies it is sent.
`fate`, `log`, `removed` and `stopped` are history variables: no action that
models code reads them, but each message is sent once.

**FIFO.** The record `q` holds the fields that the helpers called under `q.mu`
work on: `q.messages[g]` is the ring buffer of group `g`, for the groups that
exist, `q.locked` the groups whose flag is set, `q.order` is `groupOrder`. A
method is the composition of its helpers. The loops are functions defined by
recursion on the number of iterations: `Reclaim` over the expired entries,
`Pass` and `Passes` for the round-robin double loop of `collectReadyLocked`,
`Only` for the filter of `cleanEmptyGroupsLocked`. The deduplication timer only prunes entries that `SendMessage`
would prune before it looks, so it cannot be observed and is left out.

**Lifecycle.** `Fire` is the runtime starting the callback of a timer,
`Callback` the callback once it has `m.mu`. `ForceState` and
`ForceStateReturns` are its two critical sections. `Settle` follows instant
transitions. `NoCycleAssumption` says that the transitions have no cycle, which
holds of every table of transitions in `services/` and without which
`scheduleNext` would not come back once delays are off.

**Event source mappings.** `SqsStandardQueue` has one queue in full and its
DLQ as a counter. `EventSourceMapping` has several queues, each with what
matters between them: ready buffer, flights, receive counts, DLQ wiring, and the
mutex, because a redrive calls the target's `SendMessage` with the source's
mutex held. `Lock`, `Reclaim`, `Collect` and `Unlock` are the steps of one
`ReceiveMessages`; a redrive is enabled only while the target's mutex is free,
so a deadlock is a state the model can be in. `late` are the flights whose
deadline has passed; when that happens is free (`Elapse`), so an invocation may
take any time. `PollMessages` reads the receipt handles after the unlock from
messages other receives may have updated: `ReadHandles` makes the handles a
poller has the latest ones, and `Collect` invalidates those of everybody else.
`AckMessage` finds a message only under its latest handle and in a queue that
still has a name; its lookup (`service.go:121`) and its deletion are one step, so
an acknowledgement that looked its queue up just before `DeleteQueue` finds
nothing here and deletes one processed message there. A send may go to a queue
deleted since the lookup. `LoopLock` wants the queue to be named: that a loop
which had its tick before `DeleteQueue` reclaims once more is left out, as the
pollers that keep the queue reclaim there too. Nothing is assumed of the
policies: a queue may name itself, or one that leads back to it. A mapping is
listed by `CreateMapping` and gets its stop channel in `StartSQSPoller`, a step
later; a delete in between finds no channel to close and the poller runs for
ever, so `DeletedMappingStops` is about mappings that had their channel. `fresh`, what a poller has received
and whose deadline has not passed, is history.

**DynamoDB.** A step is what happens between two points where another
goroutine can get in: `PutItem` is lookup under the table lock, condition under
the partition's lock, item, count, index under the table lock again, stream
record; `DeleteItem` is lookup, removal, count, drop and index, record.
`UpdateItem`, transactions and the reaper keep the table lock throughout and
take no partition lock, as in the code; each of their writes is an item and a
count (`CountInTable`). Transactions put, update, delete and check conditions.
`parts` holds every partition object ever made and `live` the table's map into
it, so that a goroutine may hold an object the map has lost.

A partition's tree has a lock of its own, but its `count` has none: `p.count++`
follows `tree.Set` (`partition.go:167`), and `p.count--` follows `tree.Delete`,
under whichever lock the caller has. Whenever one goroutine changes or reads the
count of a partition while another stands between tree and count (`Races`), the
partition is `raced` and its `len()` reads as anything from then on, so that
`DeleteItem` may drop it with items in it. This covers more than the code does:
of two increments whose steps merely overlap not all are lost.

`last`, `sure`, `hazy` and `calm` are history. A write is calm if no removal in
its partition overlapped it, and its key is then in `sure`. A key is hazy, and
otherwise `Undisturbed`, once two calls on it of different kinds overlapped
(`PutItem`s are of one kind), once a write of it met a removal of any key of its
partition, or once the count of its partition was raced by calls on any of its
keys. The properties are about the rest: `SettledWritesStick` about the sure
keys of partition keys that were never raced, `IndexAgrees`,
`StreamTellsHistory`, `CreatesOnce` and `ReapsOnlyExpired` about undisturbed
keys, `CountAgrees` while all are. What they leave out the code gets wrong: an
acknowledged put that meets a removal is lost (`store.go:246`, `store.go:403`),
and so is a settled item of a partition whose count was raced. The design of the
native backend denies both: writes take the table's lock (its line 125), and a
transaction applies all its writes atomically (line 137). `DynamoTable_lost`,
below, shows the second.

The tables have a sort key. In a hash-only table a partition is one item, with
the same count and no tree; a race there concerns one key. The JSON that
`PutItem` keeps beside an item for `GetItemRaw` (`frozenJSON`, a plain map) is
one with the item: that it may be stale after overlapping writes of a key, and
that two goroutines writing the map at once may end the process, is not
modelled.

**Alerts.** A store operation holds the store's mutex and is atomic; a handler
is a sequence of them with a copy of the incident in between, so a step is one
store operation: `Save`, `FindIncident`, `Merge` or `Create` for an alert,
`CheckResolution`, `FindAny`, `CheckActive`, `CloseIncident` for a resolution,
`AdminGet` and `AdminUpdate` for an administrator. `job[w]` is what goroutine
`w` is doing, with the copy it found; `Merge` and `CloseIncident` write it
back whole, as `Update` does. Regressions and incidents are
sequences in order of `Save`. Metrics are the environment's choice: a service
is degraded or not, and what the algorithms may find follows from that. An SLO
breach may be of any service, as one slow request is enough (`slo.go:139`). The
clock is coarse: times that nothing needs to tell apart are equal, and where
the code takes the latest of equal times either is possible. `horizon` is the
start of the group window, which moves with the clock by any amount. `handled`,
`crowded` and `byHand` are history: what was alerted, and whether handlers of a
service ever overlapped or an administrator wrote one of its incidents.

## Runs

| Run | Instance | Shows |
|---|---|---|
| `sqs_standard_safety` | 2 messages, 1 consumer, batches 1-2, delays and waits 0-1, timeouts 0-1, extension 2, limits 1-2, 257,121 states | the safety properties, `RedriveAtLimit`, refinement of `MessageLifecycle` |
| `sqs_standard_live` | 2 messages, 1 consumer, no extension, 40,945 states | delays, flights and polls end |
| `sqs_fifo_safety` | 3 messages in 2 groups, one id shared by both, batches of 1, 697,399 states | reachability, exclusion, order, deduplication, conservation |
| `lifecycle_live` | 6 states with an instant one in a chain, 2 callers, 3 forces, 1,738 states | the timer fits the state, no rest in an instant state, transient states end |
| `mapping_safety` | 2 messages, a queue and its DLQ, 2 mappings on either, batches of 2, limit 1, 5 requests, 994,293 states | places, exclusion, redrive counts, refinement of `AtLeastOnce` |
| `mapping_live` | the same with 1 message and 4 requests, 21,680 states | critical sections end, deleted mappings stop, served messages settle |
| `dynamo_safety` | 2 clients and the reaper, 2 keys of one partition, an expired and a fresh value, an index, 3 calls, 235,132 states | settled writes, index, stream, count, conditional creates, the reaper, calls return |
| `alert_safety` | 1 service, 1 deploy with one evaluation, the scan, 1 SLO breach, 1 request of an administrator, 2 regressions, 2,535,578 states | alerts counted once, grouping, active regressions covered, resolved incidents stay so |
| `alert_live` | the same service with two evaluations and an outlier tenant, Stop allowed, 206,364 states | after recovery a deploy's incidents close |
| `sqs_visibility_extension`, `sqs_fifo_lost`, `alert_one_incident` | small | the first three disagreements below |

The bounds. Two messages are enough for a batch, for one message overtaking
another, and for a stale heap entry of one to meet the redelivery of either;
two deliveries (`MaxReceives`) plus the poll that may already sleep let a
message expire, be redelivered and meet the policy limits 1 and 2 from both
sides. One consumer has every interleaving with `backgroundLoop`, with time and
with the answers to earlier deliveries, which any goroutine may give (an answer
needs only the handle); `sqs_stranded_poll` needs a second one. A timeout of 0
makes a delivery expire at once; deadlines of 1 and 2 let one pass before the
other. `MaxReceives` limits only when a consumer calls again, and `MaxForces`
only how often a state is forced. Messages are symmetric in the safety run of
the standard queue; no symmetry is used with liveness.

`Batches = {1}` in `sqs_fifo_safety` is a real restriction: with batches of 2
the two FIFO violations below hide everything else. The instance of
`sqs_standard_live` has no visibility extension: there `NoEarlyReclaim` holds,
with extensions it fails.

In the mapping runs `MaxCalls` bounds the requests (sends, creations,
deletions, DLQ wiring): five are enough to send two messages, create two
mappings and delete a queue or a mapping, or to wire the DLQ and watch both
messages redriven while two pollers hold stale handles. A limit of 1 reaches
both redrive tests with one redelivery, and the receive count is kept exact up
to one past the limit, after which the code makes no difference. The DLQ has no
policy, so the chain has length two; a longer one adds no new pair of mutexes.
That it ends is the instance, not an assumption: with a queue that names itself,
which `CreateQueue` and `ImportState` accept, `MutexesAreReleased` fails
(`EventSourceMapping_self`, and its mutant); the safety properties hold.

In `dynamo_safety` one transaction puts and deletes, the other checks one key
and updates the other. Three calls are a put, the removal that empties its
partition, and another put that meets either; with the reaper as a fourth
writer, and initial tables (`Loads`) that stand for earlier calls, every pair
of kinds of call overlaps on one key and on two keys of one partition.

In the alert runs two regressions (`MaxRegressions`) are one of a deploy and
one of a scan, or two of either; with the breach and the administrator up to four
handlers hold copies of one incident at once. One tick of the clock
(`MaxTime`) separates what is in the group window from what is not, an old
regression from a new one. `PendingSize` is 1: a full channel only delays
`OnDeploy`. One service is enough for all but the cross-service disagreement.

Deadlock checking is on in the SQS queue and lifecycle runs. It is off in the
others: requests are bounded and nobody has to make one, so the system
may stop; a deadlock of mutexes is a violation of `MutexesAreReleased` or
`CallsReturn`.

### Fairness

The specifications with liveness assume that time passes, that an armed timer
fires, that a goroutine that can run eventually does (`backgroundLoop`, a woken
poll, a callback), and nothing about clients: no consumer need ever receive,
delete or poll again. All of it is weak fairness. `backgroundLoop`'s `select`
picks at random among its ready cases, so weak fairness of each case is what Go
provides in practice.

`EventSourceMapping` assumes strong fairness of the pollers' and the loops'
steps, because `sync.Mutex` hands itself to whoever waits longest, and of a
poller's `select` seeing its closed channel, because `select` picks at random;
time passes (weak fairness of some `Elapse`). Invocations may fail for ever:
`MessagesSettle` holds all the same, by redrive. `DynamoTable` assumes weak
fairness of a started call and nothing of the reaper or of clients.
`AlertPipeline` assumes weak fairness of started handlers, of the scan's ticker
and steps, of timers, of an administrator's second step, of the deploy consumer
and of Stop's return, and nothing of traffic, clients, or Stop being called.

### Disagreements between the code and its own words

1. `sqs_visibility_extension`: an extended message is reclaimed at its old
   deadline, because the old heap entry is never removed (`standard.go:207`).
2. `sqs_fifo_lost`: a released FIFO message is dropped when its group is gone
   (`fifo.go:233`).
3. `alert_one_incident`: two evaluations of one deploy both search before either
   saves and open an incident each (`pkg/incident/service.go:132`); the phase
   4de design says "One bad deploy = one incident".

The other configurations here are not among the regular runs. Each checks one
sentence of the repository and ends with a counterexample, e.g.
`tlc -config SqsFifoQueue_lock.cfg MCSqsFifoQueue`:

| Configuration | Property | What the code does |
|---|---|---|
| `SqsStandardQueue_stranded` | `NoStrandedPoll` | a receive that makes messages available and takes only some leaves other polls asleep (`standard.go:147`) |
| `SqsFifoQueue_lock` | `GroupLocked` | with batches of 2, answering one message unlocks the group of the other (`fifo.go:213`; `fifo.go:305` says it stays locked) |
| `EventSourceMapping_self` | `MutexesAreReleased` | a queue whose policy names the queue itself waits for its own mutex for ever once it redrives (`standard.go:285`, accepted at `store.go:127`; `docs/services/sqs.md:81` says configured redrive works) |
| `DynamoTable_lost` | `WritesStick` | an `UpdateItem` creates an item while `DeleteItem` removes the only other one: both write the count, it reads 0, and the partition is dropped with the item (`store.go:403`, `partition.go:168`; lines 125 and 137 of the native backend's design). A `PutItem` that looked its partition up before the drop is lost without that race (`store.go:246`) |
| `Lifecycle_stop` | `StopIsFinal` | a callback that has fired changes the state after `Stop` (`lifecycle.go:180`; `lifecycle.go:164` says Stop cancels it) |
| `AlertPipeline_scan` | `ClosedWhenAllResolved` | the resolution of a scan's regression closes a deploy's incident while its regression is active (`incident/service.go:101`; phase 4de design, line 114) |
| `AlertPipeline_cross` | `IncidentsClose` | a scan's incident stays open while another service has an active regression (`incident/service.go:109`; phase 4de design, line 12) |
| `AlertPipeline_key` | `OneActivePerKey` | a later evaluation with a higher confidence is saved beside the earlier one (`regression/engine.go:261`; phase 4a design, line 266) |
| `AlertPipeline_stop` | `StopWaits` | Stop waits for one of its two goroutines (`regression/engine.go:71`; line 68 says for goroutines to finish) |
| `AlertPipeline_outlier` | `OutlierResolvedWhenGone` | an outlier tenant is resolved in the tick that finds it (`regression/engine.go:302`; phase 4a design, line 272) |
| `AlertPipeline_zero` | `RegressionsResolve` | a regression from a baseline of 0 never ends (`regression/engine.go:310`; the same line) |

## Proofs

The theorems about the standard queue are from `ParametersAssumption` alone:
the set of messages is finite and the parameters are natural numbers, batch
sizes and redrive limits positive. Consumers may be any set, and `MaxReceives`
any bound.

- `TypeCorrect`: `TypeOK` is inductive.
- `DeadlinesAreWatched`: `TimersArmed` is inductive relative to `TypeOK`. The
  argument is that every action that adds to a heap resets that heap's timer,
  removal only makes a timer early, time keeps the order of timer and deadline,
  and a consumed tick is remembered by the loop until it resets the timer.
- `NoMessageLostOrDoubled`, `FlightsAreScheduled`: neither `ExactlyOnePlace`
  nor `InflightHasDeadline` is inductive alone. Were a message held by an old
  handle, a receive could issue a handle that is in flight already; were it in
  two containers, one handle could be reclaimed twice. `PlaceInv`, the two
  with `TypeOK`, is inductive. `CollectMoves` says where each message is after
  a receive in terms of where it was, and the rest is a case split.
- `PolicyActsAtLimit`: `RedriveAtLimit` from `TypeOK`, for both places in the
  code that apply the policy.
- `QueueImplementsLifecycle`: under `PlaceInv` the mapping `PlaceOf` is exact
  (`PlaceOfProps`), so each action maps to an `Accept`, `Delete`, `Purge`,
  `Progress` or stuttering step. That a message that was never received is not
  redriven needs the limit to be positive.

The theorems about `SqsFifoQueue` are from `FifoParametersAssumption`: finitely
many messages, any groups, deduplication ids, consumers, window and bounds,
parameters that are natural numbers.

- `Invariance`: `FifoInv` is inductive. Its parts are predicates on the record
  `q` (`Formed`, `Known`, `InTurn`, `Scheduled`, `Placed`, `Held`), so that the
  loops and helpers can be shown to keep them one after the other: an iteration
  of the reclaim loop (`ReclaimOneKeeps`), a visit to a group (`VisitKeeps`), a
  pass, all passes, the clean-up, the whole receive (`CollectKeeps`). The loops
  are recursive functions; `Iterates` gives such a function from its step and
  `UpTo` carries an invariant along it.
- `TypeCorrect`, `NothingStrands`: from `Formed` (`groupOrder` lists the groups
  that exist, each once) and `Scheduled` with `Armed` (the heap covers the
  flights, the timer the heap).
- `FirstDeliveriesInOrder`: `InTurn` says that a message that was never
  delivered, nor removed, waits in its group, and that those of its group sent
  after it, if it was sent without a delay, have not been delivered either and
  wait behind it, at every place they occur. A head is therefore first among
  the undelivered, returned messages go to the end, where they overtake nobody,
  and a delayed head that is rotated has no claim.
- `DedupWindowHolds`: an id's time left in the cache and the age of its sends
  add up to at least the window (`DedupCovers`), so an id that is no longer in
  the cache has only sends that are old enough.
- `OnePlace`, `GroupsLocked` assume `Batches \subseteq {1}`. That is not for the
  proof's sake: with batches of two the code breaks both (`sqs_fifo_lost`,
  `SqsFifoQueue_lock`). The other theorems hold for batches of any size. With
  batches of one a group has at most one message in flight while it is locked
  (`Held`), so the group a flight returns to still exists, as the clean-up
  keeps locked groups, and `Release` drops nothing.

The theorems about `EventSourceMapping` are from
`PipelineParametersAssumption`: any queues with any policies, those that form
circles included, any messages, mappings and bounds.

- `TypeCorrect`: `TypeInv`, `TypeOK` with the fact that a poller that has
  started has a queue and one that holds a batch holds a message, is inductive.
- `OnePlace`, `Exclusive`: neither is inductive alone. `PlaceInv` adds
  `WorkInv` (what is overdue is in flight, what is held anywhere was sent, what
  is being acknowledged was processed) and `FreshInv`: a message a poller still
  has time for is in nobody's ready buffer and in flight nowhere but in the
  poller's queue, so no receive can give it to another. `Moves` is what a
  reclaim and a collection have in common: a queue is done with a message, or
  keeps it.
- `AttemptsHold`: a step that puts a message of a queue into another one is a
  redrive, by `AtMostOnePlace`; both redrive tests give the count.
- `DeliveryHolds`: under `PlaceInv` a send is `Accept`, a successful invocation
  is `Process`, an acknowledgement that finds its message is `Acknowledge`, and
  everything else (failed invocations, redrives, deletions) stutters.
- `OnlyCirclesStop`: a queue's mutex is held only in its critical section
  (`Owned`), by one at a time (`Exclusion`), and while any is held some holder
  can take its next step (`GoesOn`), or there is a `Circle`: queues each of which
  must redrive a message to one of them before it gives its mutex back
  (`MustRedrive`). A holder that cannot step is at a redrive whose target is held
  (`HolderGoesOn`), so if no holder steps, the held queues are a circle. The
  mutexes come first here, as the place of a message needs them: a redrive
  leaves its queue because it finds the target's mutex free.
- `CirclesAreFinal`: no step undoes a circle, so one that closes is a deadlock.
  Each queue in it keeps its holder, its overdue or next message and its count
  (`WaitFrame`), whatever is sent, deleted, collected and acknowledged elsewhere.
- `NoDeadlock`: if the chains of policies end (`Acyclic`, which nothing in the
  store enforces), there is no circle, because of its queues one has the least
  rank. This is the safety half of `MutexesAreReleased`, for chains of any
  length.

The theorems about `DynamoTable` are from `DynamoParametersAssumption`: finitely
many keys, a reaper that is no client, and any clients, values, index, requests
and initial tables.

- `TypeCorrect`: `TypeInv`, `TypeOK` with the facts that the map leads to a
  partition object of the right key and that a call on one item holds an object
  of that item's partition key, is inductive.
- `SettledHold`: `SettledWritesStick` is not inductive. `SettledInv` adds
  `Warned` (a call that overlaps a removal from its partition key is not calm),
  `CalmIsLive` (a calm call still holds the partition the map leads to) and
  `OrphansAreAlone` (while a removal works on a partition the map has lost, no
  settled item is in the one that replaced it). The last, as the property itself,
  speaks of partition keys that were never `Raced`; no step takes a race back
  (`Rewrites`), and without one a partition that is dropped is empty
  (`DropsEmpty`).
- `IndexHolds`, `StreamHolds`, `CountHolds`, `CreatesHold`, `ReaperHolds`: from
  `HistoryInv`, which adds to `SettledInv` what the calls on an undisturbed key
  know of each other and of what was last written.
  `Overlaps` says that only `PutItem`s share such a key, `HazyKnows` that its last
  write was calm and nobody raced for its partition, and `LockKept` that each
  keeps its partition's lock from its check to its return, so at most one of them
  is past its lookup in the live partition (`IsAlone`). `LandedFits` is about the
  one that has written and not logged yet: records and index still tell of the
  item before its write, which it holds as `old`, and its later steps bring them
  up to date. `ReadFits` is about the one that has read and not written: what
  its condition saw is what is still there. `CountFits` and `ReaperFits` are the
  count and the reaper's list against `last`. The induction is one lemma for a
  call that starts, one for the steps that write no item, one for each step that
  lands a write or logs it. `IndexAgrees` is proved for keys that share an index
  key too, which no run has: of those it says that no wrong entry of the key is
  in the index.
- `NoDeadlock`: a partition's lock is held by a `PutItem` past its check or a
  `DeleteItem` that has removed its item and not counted it, in that partition
  (`PartsOwned`), the table's by the call that updates or transacts
  (`TableOwned`), and while calls are under way one can go on
  (`NoCircularWait`). `PutItem` takes the table's lock while it holds its
  partition's; the one who holds the table's waits for nobody, and with that
  lock free whoever holds a partition's does not wait either. This is the safety
  half of `CallsReturn`.

The theorems about `AlertPipeline` are from `AlertParametersAssumption`: any
services, deploys, evaluations and bounds, finitely many algorithms and
confidence values.

- `Invariance`: `AlertInv` is inductive. `StepIs` puts every step into one of
  six kinds: a goroutine moves without writing an incident (`Moves`), merges,
  creates, closes, an administrator writes, or nobody's job changes
  (`Outside`). Each part of the invariant is then shown for the kinds.
- `TypeCorrect`: `TypeInv` adds to the types what a handler may rely on: its
  copy is of the service and deploy of the incident it names (`JobOK`), what it
  resolves is not active, and the timer of an evaluation fires once, because a
  deploy waits in the channel once.
- `ResolvedIsFinal`: while handlers of a service did not overlap, one works for
  it (`Alone`) and its copy is what the store holds (`Fresh`), so a merge writes
  back an open incident, as it found one.
- `CountsHold`: the invariant is not about the stored counts, which a stale copy
  sets back, but says that there is a `Tally` of the alerts merged into each
  incident, which sums to what was handled and which no stored count or copy
  exceeds. Sums over a sequence are recursive functions; `SumsLE`, `SumsSame` and
  the rest are induction along them.
- `FreshIncidentsAreSingle`: what a search found still holds when its handler
  writes (`Searched`): no incident to join, or none but the one found. Other
  handlers work for other services, and time only makes incidents leave the
  window. That an empty `FindActiveByKey` means that no incident matches rests
  on `Least`, as it returns the latest of the matches.
- `ActiveStaysCovered`: an incident names the deploy of a regression of its
  service (`Caused`), and a handler about to close still has no active regression
  to close for (`Closing`). A close could then only uncover a regression of
  another deploy than the one resolved, which needs an incident without deploy
  on one side and regressions of both kinds: the service would be mixed.

The theorems about `Lifecycle` are from `LifecycleAssumption` and
`NoCycleAssumption`: any states, transitions without a cycle, and callers.

- `TypeCorrect`, `TimerFits`, `NobodyStranded`, `RestsOnlyWhereSlow`: their
  conjunction `Inv` is inductive, because every step either leaves the machine
  alone or ends in `ScheduleNext` (`Scheduled`), `ForceState`'s window, or `Stop`.
- The work is in `Settle`, a recursive function. `Iteration` has what it and
  the loops of `SqsFifoQueue` need. `UpTo` is induction for sets of natural
  numbers: `Least`, a least element, comes from the well-foundedness of strict
  inclusion of finite sets, as the induction theorems of the library cannot be
  instantiated. `Iterates` says that a recursion whose steps stay in given sets
  defines a function. With them, the walk through instant transitions exists (`WalkExists`, `SettleWalks`), stays in the states
  (`SettleType`), and has left every instant state after as many steps as there
  are states, for its rank falls (`SettleRests`).

The theorems about `RingBuffer` assume nothing of the items or the capacity. A
buffer that is `InOrder` (its head, tail and length fit, and exactly the slots
between head and tail hold items) stands for the sequence `Contents`. A new one
is empty (`NewIsEmpty`), `Push` appends and `Pop` removes the head
(`PushAppends`, `PopRemoves`), and each keeps the buffer in order, so nothing
popped is held back from the garbage collector. `grow` runs only when head and
tail meet, so of its two branches the second one copies; `GrowKeeps` shows that
the wrapped part lands behind the other. The rest is arithmetic of indexes that
wrap at most once (`WrapSum`, `Slots`, `Distinct`). These operators have no run:
they are a data structure with no behaviour of its own.

Only model-checked: the liveness properties, which are out of the prover's
reach (`WaitsEnd`, `PollsEnd`, `TransientStatesEnd`, `CallsReturn`,
`MutexesAreReleased`, `DeletedMappingStops`, `MessagesSettle`,
`DeployIncidentsClose`), and `NoEarlyReclaim`, which holds only without
extensions. Every invariant and every action property of the passing runs has a
theorem. Of `MutexesAreReleased` and `CallsReturn` the two `NoDeadlock` theorems
prove the part that is safety. `GoesOn` and `CanGoOn` are written as conditions
on the locks because `ENABLED` is out of the prover's reach; on the instances of
`mapping_safety`, with either policy, and of `dynamo_safety` TLC found the next
step enabled exactly where they hold.

## Plan

1. `ServiceBus` (`services/azure/servicebus`): peek-lock, renewals and
   dead-lettering against `MessageLifecycle`; lock tokens are the message's
   sequence number, the same at every delivery.
2. `WorkerPool` (`pkg/worker`) and the event bus.

## Not modelled

Message bodies, attributes and digests, parsing and response formats, approximate
counts, tags, HTTP, persistence (an SQS snapshot holds no messages), subscribers
of the lifecycle machine, and the components PROJECT.json marks so. Of the
repository's lines most are a hundred emulated services, each a store
of maps under one lock with handlers that parse and format: there is nothing in
them that interleaves, and their states with a life of their own go through the
lifecycle machine. Of DynamoDB, queries and scans, stream iterators, several
tables in one transaction and the expression language; two items with one index
key, of which the index keeps the last (the website's
`services/dynamodb.md:111` says queries on indexes fall back to a scan, the
code looks the index up). Of SQS, a deleted queue created again while others
still hold the old one, and `SetQueueAttributes`, which stores a new redrive
policy without wiring it (`handlers.go:219`). Of the incident service,
severities, titles, tenants, comments, reports, webhooks and notifications, and
the windows of the SLO engine. The design's `CheckSLORecovery` does not exist in
the code, so incidents of SLO breaches alone are closed only by hand; dismissing
the last regression of an incident leaves it open (`pkg/admin/api.go:2809`).
