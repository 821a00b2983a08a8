---------------------------- MODULE DynamoTable ----------------------------
(***************************************************************************)
(* One DynamoDB table: services/dynamodb/store.go, partition.go, table.go, *)
(* streams.go and ttl.go.                                                  *)
(*                                                                         *)
(* The items of a partition key live in a Partition object with a lock of  *)
(* its own; the table's lock guards the map of partitions and the index.   *)
(* PutItem and DeleteItem look their partition up under the table lock,    *)
(* release it, and work on the object under the object's lock.             *)
(* UpdateItem, TransactWriteItems and the TTL reaper keep the table lock   *)
(* and take no partition lock, so two goroutines may write one partition   *)
(* at once.  Its tree has a lock of its own and its count has none: a      *)
(* write of an item and the write of the count are two steps, and a count  *)
(* that two goroutines were writing at once is raced: it reads as          *)
(* anything from then on.  An action is what happens between two points    *)
(* where another goroutine can get in the way.                             *)
(*                                                                         *)
(* last, sure, hazy and the field calm of a call are history: which write  *)
(* of a key came last, and what overlapped it.                             *)
(***************************************************************************)
EXTENDS Integers, Sequences, FiniteSets, SequencesExt

CONSTANTS
    Clients,        \* goroutines that serve requests
    Reaper,         \* the goroutine of startTTLReaper
    Keys,           \* primary keys
    PKs,            \* partition key values
    PartOf,         \* PartOf[k]: the partition key of k
    Values,         \* what an item may hold beside its key
    Expired,        \* the values whose TTL attribute has passed
    IndexKeys,      \* keys of the secondary index
    IndexKey,       \* IndexKey[k][v]: that of item <<k, v>>, or NoIndex
    Requests,       \* the writes clients ask for, one at a time
    Transactions,   \* what clients send to TransactWriteItems
    Loads,          \* what earlier requests may have left: see below
    MaxCalls,       \* bound of the model: requests the clients make
    NoItem, NoIndex, Nobody

(* A put or an update of key to an item, or its deletion (to = NoItem). *)
Write == {w \in [key : Keys, to : Values \cup {NoItem},
                 cond : {"none", "absent", "present"}, update : BOOLEAN] :
             w.update => w.to # NoItem}
(* The keys of the ConditionChecks, which an item must have to pass, and   *)
(* the writes.                                                             *)
Transaction == [checks : SUBSET Keys, writes : Seq(Write)]
Item == [key : Keys, val : Values]
IndexKeyOf(item) == IndexKey[item.key][item.val]

(* A load is the items of one partition in the order they were put, one    *)
(* after the other, with no key and no index key twice.                    *)
IsLoad(t) ==
    /\ t \in Seq(Item)
    /\ \A i, j \in DOMAIN t :
          /\ PartOf[t[i].key] = PartOf[t[j].key]
          /\ i # j => t[i].key # t[j].key
          /\ i # j => IndexKeyOf(t[i]) # IndexKeyOf(t[j])
                      \/ IndexKeyOf(t[i]) = NoIndex

ASSUME DynamoParametersAssumption ==
    /\ IsFiniteSet(Keys)
    /\ PartOf \in [Keys -> PKs]
    /\ Expired \subseteq Values
    /\ NoItem \notin Values
    /\ IndexKey \in [Keys -> [Values -> IndexKeys \cup {NoIndex}]]
    /\ Requests \subseteq Write
    /\ Transactions \subseteq Transaction
    /\ \A t \in Transactions : t.writes # <<>>
    /\ \A t \in Loads : IsLoad(t)
    /\ MaxCalls \in Nat
    /\ Nobody \notin Clients \cup {Reaper}
    /\ Reaper \notin Clients

VARIABLES
    parts,          \* every Partition made so far: its items, lock, count
    live,           \* Table.partitions: index into parts, 0 if absent
    tableMu,        \* the goroutine that keeps Table.mu, or Nobody
    index,          \* the entry of a gsiStore or lsiStore for each index key
    count,          \* Table.count
    records,        \* Stream.records
    call,           \* what each goroutine is doing
    calls,          \* requests made so far (bound)
    last,           \* what the last write left under each key (history)
    sure,           \* keys whose last write met no removal (history)
    hazy            \* keys that are not undisturbed: see below (history)

vars == <<parts, live, tableMu, index, count, records, call, calls,
          last, sure, hazy>>

Procs == Clients \cup {Reaper}
(* raced: Partition.count was read or written by one goroutine while       *)
(* another was about to write it, so len() may be wrong.                   *)
EmptyPartition(pk) ==
    [pk |-> pk, items |-> [k \in Keys |-> NoItem], mu |-> Nobody,
     raced |-> FALSE]

Idle == [pc |-> "idle", todo |-> <<>>, part |-> 0, old |-> NoItem,
         calm |-> FALSE]

KeysOf(r) == {w.key : w \in ToSet(r.todo)}
PKsOf(r) == {PartOf[k] : k \in KeysOf(r)}
RemovesFrom(r) == {PartOf[w.key] : w \in {x \in ToSet(r.todo) : x.to = NoItem}}
IsPut(r) == r.pc \in {"lock", "write", "count", "index", "stream"}

-----------------------------------------------------------------------------
(* Table.getItem, and GetItem when nothing runs between its two locks. *)
GetItem(k) ==
    IF live[PartOf[k]] = 0 THEN NoItem
    ELSE parts[live[PartOf[k]]].items[k]

(* evaluateCondition on an item or its absence. *)
Holds(cond, item) ==
    /\ cond = "absent" => item = NoItem
    /\ cond = "present" => item # NoItem

(* Another goroutine than c is between the tree and the count of p.  *)
Races(c, p) ==
    \E d \in Procs \ {c} :
        call[d].pc \in {"count", "uncount", "tally"} /\ call[d].part = p

(* Mutant of LenIsZero: the partition is dropped without looking. *)
MutLenIsZero(c, p) == {TRUE}

(* Partition.len() = 0, as c may read it. *)
LenIsZero(c, p) ==
    IF parts[p].raced \/ Races(c, p) THEN BOOLEAN
    ELSE {\A k \in Keys : parts[p].items[k] = NoItem}

(* An index holds one item for each index key: indexItem replaces the      *)
(* entry, and deindexItem removes it whatever item it belongs to.          *)
IndexItem(ix, k, v) ==
    [i \in IndexKeys |->
        IF i = IndexKey[k][v] THEN [key |-> k, val |-> v] ELSE ix[i]]

(* Mutant of DeindexItem: the entry stays. *)
MutDeindexItem(ix, k, old) == ix

DeindexItem(ix, k, old) ==
    IF old = NoItem THEN ix
    ELSE [i \in IndexKeys |-> IF i = IndexKey[k][old] THEN NoItem ELSE ix[i]]

(* appendRecord, for a write that replaced old by new. *)
Record(k, old, new) ==
    [event |-> IF new = NoItem THEN "REMOVE"
               ELSE IF old = NoItem THEN "INSERT" ELSE "MODIFY",
     key |-> k, old |-> old, new |-> new]

(* Mutant of GetOrCreate: an absent partition is named and not made. *)
MutGetOrCreate(pk) ==
    IF live[pk] # 0 THEN [id |-> live[pk], all |-> parts]
    ELSE [id |-> Len(parts) + 1, all |-> parts]

(* getOrCreatePartition: the partition of pk and the objects there are. *)
GetOrCreate(pk) ==
    IF live[pk] # 0 THEN [id |-> live[pk], all |-> parts]
    ELSE [id |-> Len(parts) + 1, all |-> Append(parts, EmptyPartition(pk))]

(* Putting v in place of old changes the number of items. *)
Recounts(old, v) == (old = NoItem) # (v = NoItem)

(* Partition.put or Partition.delete by c of key k, up to the count. *)
WriteItem(all, c, p, k, v) ==
    [all EXCEPT ![p].items[k] = v,
                ![p].raced =
                    @ \/ (Recounts(all[p].items[k], v) /\ Races(c, p))]

-----------------------------------------------------------------------------
(* Bookkeeping of the histories.                                           *)

(* A key is hazy once                                                      *)
(*   - two calls on it of different kinds overlapped (PutItems are of one  *)
(*     kind),                                                              *)
(*   - a write of it met a removal of any key from its partition, or       *)
(*   - the count of its partition was raced, by calls on any keys of it.   *)
(* The others are undisturbed.                                             *)
Undisturbed == Keys \ hazy

(* The keys of partition p, once it is raced. *)
RacedKeys(all, p) == {k \in Keys : PartOf[k] = all[p].pk /\ all[p].raced}

(* c starts the call r. *)
Start(c, r) ==
    /\ call' = [x \in Procs |->
          IF x = c
          THEN [r EXCEPT !.calm = \A y \in Procs \ {c} :
                                     RemovesFrom(call[y]) \cap PKsOf(r) = {}]
          ELSE [call[x] EXCEPT !.calm =
                   @ /\ RemovesFrom(r) \cap PKsOf(call[x]) = {}]]
    /\ hazy' = hazy \cup
          {k \in KeysOf(r) : \E y \in Procs \ {c} :
              k \in KeysOf(call[y]) /\ ~(IsPut(r) /\ IsPut(call[y]))}

(* c writes v under k in partition p. *)
Land(c, p, k, v) ==
    /\ last' = [last EXCEPT ![k] = v]
    /\ sure' = IF call[c].calm THEN sure \cup {k} ELSE sure \ {k}
    /\ hazy' = hazy \cup (IF call[c].calm THEN {} ELSE {k})
                    \cup RacedKeys(parts', p)

Request(c) ==
    /\ c \in Clients
    /\ call[c].pc = "idle"
    /\ tableMu = Nobody
    /\ calls < MaxCalls
    /\ calls' = calls + 1

-----------------------------------------------------------------------------
(* The value a load leaves under k. *)
Loaded(t, k) ==
    IF \E i \in DOMAIN t : t[i].key = k
    THEN t[CHOOSE i \in DOMAIN t : t[i].key = k].val ELSE NoItem

Init ==
    \E t \in Loads :
        /\ parts = IF t = <<>> THEN <<>>
                   ELSE <<[EmptyPartition(PartOf[t[1].key]) EXCEPT
                             !.items = [k \in Keys |-> Loaded(t, k)]]>>
        /\ live = [pk \in PKs |-> IF t # <<>> /\ pk = PartOf[t[1].key]
                                  THEN 1 ELSE 0]
        /\ tableMu = Nobody
        /\ index = [i \in IndexKeys |->
                      IF \E j \in DOMAIN t : IndexKeyOf(t[j]) = i
                      THEN t[CHOOSE j \in DOMAIN t : IndexKeyOf(t[j]) = i]
                      ELSE NoItem]
        /\ count = Len(t)
        /\ records = [i \in DOMAIN t |-> Record(t[i].key, NoItem, t[i].val)]
        /\ call = [c \in Procs |-> Idle]
        /\ calls = 0
        /\ last = [k \in Keys |-> Loaded(t, k)]
        /\ sure = Keys
        /\ hazy = {}

(* Mutant of PutItem: the table lock is kept, as by the other writes. *)
MutPutItem(c, w) ==
    LET found == GetOrCreate(PartOf[w.key]) IN
    /\ Request(c)
    /\ w.to # NoItem /\ ~w.update
    /\ parts' = found.all
    /\ live' = [live EXCEPT ![PartOf[w.key]] = found.id]
    /\ tableMu' = c
    /\ Start(c, [Idle EXCEPT !.pc = "lock", !.todo = <<w>>,
                             !.part = found.id])
    /\ UNCHANGED <<index, count, records, last, sure>>

(* PutItem: the partition is looked up or made under the table lock. *)
PutItem(c, w) ==
    LET found == GetOrCreate(PartOf[w.key]) IN
    /\ Request(c)
    /\ w.to # NoItem /\ ~w.update
    /\ parts' = found.all
    /\ live' = [live EXCEPT ![PartOf[w.key]] = found.id]
    /\ Start(c, [Idle EXCEPT !.pc = "lock", !.todo = <<w>>,
                             !.part = found.id])
    /\ UNCHANGED <<tableMu, index, count, records, last, sure>>

(* Mutant of PutCheck: the condition is evaluated, the lock not taken. *)
MutPutCheck(c) ==
    LET w == call[c].todo[1]  p == call[c].part IN
    /\ call[c].pc = "lock"
    /\ parts[p].mu = Nobody
    /\ call' = [call EXCEPT ![c] = IF Holds(w.cond, parts[p].items[w.key])
                                   THEN [@ EXCEPT !.pc = "write"] ELSE Idle]
    /\ UNCHANGED <<parts, live, tableMu, index, count, records, calls,
                   last, sure, hazy>>

(* The partition's lock is taken and the condition evaluated.  The lock is *)
(* kept until PutItem returns, which it does at once when it fails.        *)
PutCheck(c) ==
    LET w == call[c].todo[1]  p == call[c].part IN
    /\ call[c].pc = "lock"
    /\ parts[p].mu = Nobody
    /\ IF Holds(w.cond, parts[p].items[w.key])
       THEN /\ parts' = [parts EXCEPT ![p].mu = c]
            /\ call' = [call EXCEPT ![c].pc = "write"]
       ELSE /\ call' = [call EXCEPT ![c] = Idle]
            /\ UNCHANGED parts
    /\ UNCHANGED <<live, tableMu, index, count, records, calls,
                   last, sure, hazy>>

(* Mutant of PutWrite: a replaced item is counted again. *)
MutPutWrite(c) ==
    LET w == call[c].todo[1]  p == call[c].part IN
    /\ call[c].pc = "write"
    /\ parts' = WriteItem(parts, c, p, w.key, w.to)
    /\ count' = count + 1
    /\ call' = [call EXCEPT
                   ![c].pc = IF parts[p].items[w.key] = NoItem
                             THEN "count" ELSE "index",
                   ![c].old = parts[p].items[w.key]]
    /\ Land(c, p, w.key, w.to)
    /\ UNCHANGED <<live, tableMu, index, records, calls>>

(* The item is written, and counted in the table if it is new: Table.count *)
(* is atomic and only DescribeTable reads it, so its Add is in this step.  *)
PutWrite(c) ==
    LET w == call[c].todo[1]  p == call[c].part
        old == parts[p].items[w.key]
    IN
    /\ call[c].pc = "write"
    /\ parts' = WriteItem(parts, c, p, w.key, w.to)
    /\ count' = count + (IF old = NoItem THEN 1 ELSE 0)
    /\ call' = [call EXCEPT
                   ![c].pc = IF old = NoItem THEN "count" ELSE "index",
                   ![c].old = old]
    /\ Land(c, p, w.key, w.to)
    /\ UNCHANGED <<live, tableMu, index, records, calls>>

(* Partition.count is written. *)
PutCount(c) ==
    /\ call[c].pc = "count"
    /\ call' = [call EXCEPT ![c].pc = "index"]
    /\ UNCHANGED <<parts, live, tableMu, index, count, records, calls,
                   last, sure, hazy>>

PutIndex(c) ==
    LET w == call[c].todo[1] IN
    /\ call[c].pc = "index"
    /\ tableMu = Nobody
    /\ index' = IndexItem(DeindexItem(index, w.key, call[c].old), w.key, w.to)
    /\ call' = [call EXCEPT ![c].pc = "stream"]
    /\ UNCHANGED <<parts, live, tableMu, count, records, calls,
                   last, sure, hazy>>

PutStream(c) ==
    LET w == call[c].todo[1] IN
    /\ call[c].pc = "stream"
    /\ records' = Append(records, Record(w.key, call[c].old, w.to))
    /\ parts' = [parts EXCEPT ![call[c].part].mu = Nobody]
    /\ call' = [call EXCEPT ![c] = Idle]
    /\ UNCHANGED <<live, tableMu, index, count, calls, last, sure, hazy>>

-----------------------------------------------------------------------------
(* DeleteItem returns at once when the partition is absent. *)
DeleteItem(c, w) ==
    LET p == live[PartOf[w.key]] IN
    /\ Request(c)
    /\ w.to = NoItem
    /\ p # 0
    /\ Start(c, [Idle EXCEPT !.pc = "remove", !.todo = <<w>>, !.part = p])
    /\ UNCHANGED <<parts, live, tableMu, index, count, records, last, sure>>

(* Condition and removal, under the partition's lock. *)
DeleteWrite(c) ==
    LET w == call[c].todo[1]  p == call[c].part
        old == parts[p].items[w.key]
    IN
    /\ call[c].pc = "remove"
    /\ parts[p].mu = Nobody
    /\ IF Holds(w.cond, old) /\ old # NoItem
       THEN /\ parts' = [WriteItem(parts, c, p, w.key, NoItem)
                           EXCEPT ![p].mu = c]
            /\ count' = count - 1
            /\ call' = [call EXCEPT ![c].pc = "uncount", ![c].old = old]
            /\ Land(c, p, w.key, NoItem)
       ELSE /\ call' = [call EXCEPT ![c] = Idle]
            /\ UNCHANGED <<parts, count, last, sure, hazy>>
    /\ UNCHANGED <<live, tableMu, index, records, calls>>

(* Partition.count is written and the partition's lock released. *)
DeleteCount(c) ==
    /\ call[c].pc = "uncount"
    /\ parts' = [parts EXCEPT ![call[c].part].mu = Nobody]
    /\ call' = [call EXCEPT ![c].pc = "drop"]
    /\ UNCHANGED <<live, tableMu, index, count, records, calls,
                   last, sure, hazy>>

(* delete(table.partitions, pk) when p reads as empty: whatever partition  *)
(* the map holds now is dropped.                                           *)
DropIfEmpty(c, p, pk) ==
    /\ \E empty \in LenIsZero(c, p) :
          live' = IF empty THEN [live EXCEPT ![pk] = 0] ELSE live
    /\ parts' = [parts EXCEPT ![p].raced = @ \/ Races(c, p)]
    /\ hazy' = hazy \cup RacedKeys(parts', p)

(* Under the table lock: the partition the item was in may be empty now,   *)
(* and the index entry goes.                                               *)
DeleteDrop(c) ==
    LET w == call[c].todo[1] IN
    /\ call[c].pc = "drop"
    /\ tableMu = Nobody
    /\ DropIfEmpty(c, call[c].part, PartOf[w.key])
    /\ index' = DeindexItem(index, w.key, call[c].old)
    /\ call' = [call EXCEPT ![c].pc = "log"]
    /\ UNCHANGED <<tableMu, count, records, calls, last, sure>>

DeleteStream(c) ==
    LET w == call[c].todo[1] IN
    /\ call[c].pc = "log"
    /\ records' = Append(records, Record(w.key, call[c].old, NoItem))
    /\ call' = [call EXCEPT ![c] = Idle]
    /\ UNCHANGED <<parts, live, tableMu, index, count, calls,
                   last, sure, hazy>>

-----------------------------------------------------------------------------
(* Calls that keep the table lock.  Only its holder touches the index, and *)
(* what others log meanwhile they have written before: a write's index and *)
(* stream are in the step that writes the item.                            *)

(* UpdateItem, from the lock to reading the item. *)
UpdateItem(c, w) ==
    /\ Request(c)
    /\ w.update /\ w.cond = "none"
    /\ tableMu' = c
    /\ Start(c, [Idle EXCEPT !.pc = "update", !.todo = <<w>>,
                             !.old = GetItem(w.key)])
    /\ UNCHANGED <<parts, live, index, count, records, last, sure>>

(* TransactWriteItems: all conditions are evaluated before the first       *)
(* write; a transaction that fails one changes nothing.                    *)
TransactWriteItems(c, t) ==
    /\ Request(c)
    /\ \A k \in t.checks : GetItem(k) # NoItem
    /\ \A w \in ToSet(t.writes) : Holds(w.cond, GetItem(w.key))
    /\ tableMu' = c
    /\ Start(c, [Idle EXCEPT !.pc = "tx", !.todo = t.writes])
    /\ UNCHANGED <<parts, live, index, count, records, last, sure>>

(* reapExpiredItems: the scan collects the keys of the expired items. *)
ScanExpired(c, t) ==
    /\ c = Reaper
    /\ call[c].pc = "idle"
    /\ tableMu = Nobody
    /\ t # <<>>
    /\ tableMu' = c
    /\ Start(c, [Idle EXCEPT !.pc = "tx",
                   !.todo = [i \in DOMAIN t |->
                       [key |-> t[i], to |-> NoItem, cond |-> "none",
                        update |-> FALSE]]])
    /\ UNCHANGED <<parts, live, index, count, records, calls, last, sure>>

(* The next write is done; the table lock goes with the last one. *)
Done(c) ==
    LET rest == Tail(call[c].todo) IN
    /\ call' = [call EXCEPT ![c] =
                   IF rest = <<>> THEN Idle
                   ELSE [@ EXCEPT !.pc = "tx", !.todo = rest,
                                  !.part = 0, !.old = NoItem]]
    /\ tableMu' = IF rest = <<>> THEN Nobody ELSE c

(* The item is in partition p; its count has to be written if it changes. *)
Written(c, p, recounts) ==
    IF recounts
    THEN /\ call' = [call EXCEPT ![c].pc = "tally", ![c].part = p]
         /\ UNCHANGED tableMu
    ELSE Done(c)

(* Partition.count is written, and read by deleteItem. *)
CountInTable(c) ==
    LET w == Head(call[c].todo)  p == call[c].part IN
    /\ call[c].pc = "tally"
    /\ IF w.to = NoItem THEN DropIfEmpty(c, p, PartOf[w.key])
       ELSE UNCHANGED <<parts, live, hazy>>
    /\ Done(c)
    /\ UNCHANGED <<index, count, records, calls, last, sure>>

(* updateInTable reads the item a transaction is to update. *)
ReadInTable(c) ==
    LET w == Head(call[c].todo) IN
    /\ call[c].pc = "tx"
    /\ w.update
    /\ call' = [call EXCEPT ![c].pc = "update", ![c].old = GetItem(w.key)]
    /\ UNCHANGED <<parts, live, tableMu, index, count, records, calls,
                   last, sure, hazy>>

(* updateInTable after the expression is evaluated: old index entries go,  *)
(* the item is put, indexed, and logged with the image that was read.      *)
UpdateWrite(c) ==
    LET w == Head(call[c].todo)
        found == GetOrCreate(PartOf[w.key])
        replaced == found.all[found.id].items[w.key]
    IN
    /\ call[c].pc = "update"
    /\ parts' = WriteItem(found.all, c, found.id, w.key, w.to)
    /\ live' = [live EXCEPT ![PartOf[w.key]] = found.id]
    /\ count' = count + (IF replaced = NoItem THEN 1 ELSE 0)
    /\ index' = IndexItem(DeindexItem(index, w.key, call[c].old), w.key, w.to)
    /\ records' = Append(records, Record(w.key, call[c].old, w.to))
    /\ Written(c, found.id, replaced = NoItem)
    /\ Land(c, found.id, w.key, w.to)
    /\ UNCHANGED calls

(* putInTable. *)
PutInTable(c) ==
    LET w == Head(call[c].todo)
        found == GetOrCreate(PartOf[w.key])
        old == found.all[found.id].items[w.key]
    IN
    /\ call[c].pc = "tx"
    /\ w.to # NoItem /\ ~w.update
    /\ parts' = WriteItem(found.all, c, found.id, w.key, w.to)
    /\ live' = [live EXCEPT ![PartOf[w.key]] = found.id]
    /\ count' = count + (IF old = NoItem THEN 1 ELSE 0)
    /\ index' = IndexItem(DeindexItem(index, w.key, old), w.key, w.to)
    /\ records' = Append(records, Record(w.key, old, w.to))
    /\ Written(c, found.id, old = NoItem)
    /\ Land(c, found.id, w.key, w.to)
    /\ UNCHANGED calls

(* deleteFromTable: nothing happens when the key is absent. *)
DeleteFromTable(c) ==
    LET w == Head(call[c].todo)
        p == live[PartOf[w.key]]
        old == GetItem(w.key)
    IN
    /\ call[c].pc = "tx"
    /\ w.to = NoItem
    /\ IF old # NoItem
       THEN /\ parts' = WriteItem(parts, c, p, w.key, NoItem)
            /\ count' = count - 1
            /\ index' = DeindexItem(index, w.key, old)
            /\ records' = Append(records, Record(w.key, old, NoItem))
            /\ Land(c, p, w.key, NoItem)
       ELSE UNCHANGED <<parts, index, count, records, last, sure, hazy>>
    /\ Written(c, p, old # NoItem)
    /\ UNCHANGED <<live, calls>>

-----------------------------------------------------------------------------
(* Mutant of ExpiredKeys: whatever is there is found expired. *)
MutExpiredKeys == SetToSeqs({k \in Keys : GetItem(k) # NoItem})

(* The keys the reaper finds, in any order of its scan. *)
ExpiredKeys == SetToSeqs({k \in Keys : GetItem(k) \in Expired})

Step(c) ==
    \/ PutCheck(c) \/ PutWrite(c) \/ PutCount(c)
    \/ PutIndex(c) \/ PutStream(c)
    \/ DeleteWrite(c) \/ DeleteCount(c) \/ DeleteDrop(c) \/ DeleteStream(c)
    \/ ReadInTable(c) \/ UpdateWrite(c) \/ PutInTable(c) \/ DeleteFromTable(c)
    \/ CountInTable(c)

Next ==
    \/ \E c \in Clients, w \in Requests :
          PutItem(c, w) \/ DeleteItem(c, w) \/ UpdateItem(c, w)
    \/ \E c \in Clients, t \in Transactions : TransactWriteItems(c, t)
    \/ \E t \in ExpiredKeys : ScanExpired(Reaper, t)
    \/ \E c \in Procs : Step(c)

(* A goroutine that holds what it needs goes on; nobody has to call, and   *)
(* the reaper need not run.                                                *)
Fairness == \A c \in Procs : WF_vars(Step(c))

Spec == Init /\ [][Next]_vars
FairSpec == Spec /\ Fairness

-----------------------------------------------------------------------------
(* Properties                                                              *)

TypeOK ==
    /\ parts \in Seq([pk : PKs, items : [Keys -> Values \cup {NoItem}],
                      mu : Procs \cup {Nobody}, raced : BOOLEAN])
    /\ live \in [PKs -> 0 .. Len(parts)]
    /\ tableMu \in Procs \cup {Nobody}
    /\ index \in [IndexKeys -> Item \cup {NoItem}]
    /\ count \in Int
    /\ records \in Seq([event : {"INSERT", "MODIFY", "REMOVE"}, key : Keys,
                        old : Values \cup {NoItem}, new : Values \cup {NoItem}])
    /\ call \in [Procs ->
          [pc : {"idle", "lock", "write", "count", "index", "stream",
                 "remove", "uncount", "drop", "log", "update", "tx", "tally"},
           todo : Seq(Write), part : 0 .. Len(parts),
           old : Values \cup {NoItem}, calm : BOOLEAN]]
    /\ calls \in 0 .. MaxCalls
    /\ last \in [Keys -> Values \cup {NoItem}]
    /\ sure \subseteq Keys
    /\ hazy \subseteq Keys

Raced(pk) == \E p \in DOMAIN parts : parts[p].pk = pk /\ parts[p].raced

(* A write (PutItem, UpdateItem, a transaction, or a removal) that met no  *)
(* removal from its partition between its lookup and its landing is what   *)
(* GetItem returns until the key is written again, whatever partitions are *)
(* dropped and made meanwhile (store.go:399).  Two kinds of write may be   *)
(* acknowledged and lost: one that met a removal, and every write of a     *)
(* partition whose count two goroutines wrote at once (Raced), which is    *)
(* dropped when its len() reads as zero.                                   *)
SettledWritesStick ==
    \A k \in sure : ~Raced(PartOf[k]) => GetItem(k) = last[k]

Quiet(k) == \A c \in Procs : k \notin KeysOf(call[c])

(* What the design of the native backend says (its lines 125 and 137: a    *)
(* write takes the table's lock, a transaction applies all its writes      *)
(* atomically), and the code does not: when no call is under way, GetItem  *)
(* returns what the last write of each key left.                           *)
WritesStick ==
    (\A c \in Procs : call[c].pc = "idle") =>
        \A k \in Keys : GetItem(k) = last[k]

(* Item v of key k shows in the index ix: an entry of k is that item under *)
(* its own index key, and the item has its entry unless another key can    *)
(* have the same index key.                                                *)
Shows(ix, k, v) ==
    \A i \in IndexKeys :
        LET own == v # NoItem /\ IndexKey[k][v] = i
            alone == \A j \in Keys \ {k}, u \in Values : IndexKey[j][u] # i
        IN  /\ ix[i] # NoItem /\ ix[i].key = k => own /\ ix[i].val = v
            /\ own /\ alone => ix[i] = [key |-> k, val |-> v]

(* When the calls on an undisturbed key have returned, the index holds the *)
(* item under its own index key and nowhere else (store.go:268); an item   *)
(* whose index key others can have may be hidden by one of them.  A key is *)
(* undisturbed that met no removal in its partition and no call of another *)
(* kind, in a partition whose count was never raced: see Undisturbed.      *)
IndexAgrees ==
    \A k \in Undisturbed : Quiet(k) => Shows(index, k, GetItem(k))

(* The first n records of rs leave v under k: the last of them about k     *)
(* does, or there is none.                                                 *)
Leaves(rs, n, k, v) ==
    \/ v = NoItem /\ \A i \in 1 .. n : rs[i].key # k
    \/ \E i \in 1 .. n :
          /\ rs[i].key = k /\ rs[i].new = v
          /\ \A j \in i + 1 .. n : rs[j].key # k

(* The records of an undisturbed key tell its history in order: each one's *)
(* old image is the new image of the one before, and the last is the item  *)
(* itself, although PutItem writes, indexes and logs in steps of their own *)
(* (store.go:259-283).                                                     *)
StreamTellsHistory ==
    \A k \in Undisturbed :
        /\ \A i \in DOMAIN records :
              records[i].key = k => Leaves(records, i - 1, k, records[i].old)
        /\ Quiet(k) => Leaves(records, Len(records), k, GetItem(k))

(* While every key is undisturbed and no call is under way, the ItemCount  *)
(* of DescribeTable is the number of items GetItem finds.                  *)
CountAgrees ==
    Undisturbed = Keys /\ (\A k \in Keys : Quiet(k)) =>
        count = Cardinality({k \in Keys : GetItem(k) # NoItem})

(* Two requests that create a key if it is absent do not both succeed: a   *)
(* conditional PutItem of an undisturbed key writes only over absence      *)
(* (store.go:252).                                                         *)
CreatesOnce ==
    [][\A c \in Clients :
          call[c].pc = "write" /\ call'[c].pc # "write"
          /\ call[c].todo[1].cond = "absent"
          /\ call[c].todo[1].key \in Undisturbed'
          => last[call[c].todo[1].key] = NoItem]_vars

(* The TTL reaper deletes by key what its scan found expired (ttl.go:81);  *)
(* of the undisturbed keys, which no PutItem overlapped in the reaper's    *)
(* run, it deletes no fresh item.                                          *)
ReapsOnlyExpired ==
    [][\A k \in Undisturbed' :
          call[Reaper].pc = "tx" /\ last[k] # NoItem /\ last'[k] = NoItem
          /\ tableMu = Reaper /\ call'[Reaper] # call[Reaper]
          => last[k] \in Expired]_vars

(* Every call returns: PutItem takes the table lock while it holds a       *)
(* partition's, and nobody takes them the other way round.                 *)
CallsReturn == \A c \in Procs : call[c].pc # "idle" ~> call[c].pc = "idle"
=============================================================================
