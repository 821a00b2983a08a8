------------------------- MODULE DynamoTableProofs -------------------------
(***************************************************************************)
(* Proofs about DynamoTable, for any clients, keys, values, index keys and *)
(* requests.                                                               *)
(***************************************************************************)
EXTENDS DynamoTable, FiniteSetTheorems, TLAPS

Puts == {"lock", "write", "count", "index", "stream"}
Removals == {"remove", "uncount", "drop", "log"}
Tabled == {"update", "tx", "tally"}

(* A call on one item names a partition of that item, and writes what it   *)
(* is for; a call that keeps the table's lock has writes left; an idle     *)
(* goroutine has none.                                                     *)
CallOK(r) ==
    /\ r.pc = "idle" => r.todo = <<>>
    /\ r.pc \in Puts \cup Removals =>
          /\ Len(r.todo) = 1
          /\ r.part \in 1 .. Len(parts)
          /\ parts[r.part].pk = PartOf[r.todo[1].key]
    /\ r.pc \in Puts \cup {"update"} => r.todo[1].to # NoItem
    /\ r.pc \in Removals => r.todo[1].to = NoItem
    /\ r.pc \in Tabled => r.todo # <<>>
    /\ r.pc = "tally" =>
          /\ r.part \in 1 .. Len(parts)
          /\ parts[r.part].pk = PartOf[r.todo[1].key]

(* The map of the table leads to partitions of the right key.              *)
LiveOK == \A pk \in PKs : live[pk] # 0 => parts[live[pk]].pk = pk

TypeInv == TypeOK /\ LiveOK /\ \A c \in Procs : CallOK(call[c])

-----------------------------------------------------------------------------
(* Sequences.                                                              *)

LEMMA AppendType ==
    ASSUME NEW S, NEW s \in Seq(S), NEW e \in S
    PROVE  Append(s, e) \in Seq(S)
OBVIOUS

LEMMA RestOf ==
    ASSUME NEW S, NEW s \in Seq(S), s # <<>>
    PROVE  /\ Head(s) \in S /\ Head(s) \in ToSet(s)
           /\ Tail(s) \in Seq(S) /\ ToSet(Tail(s)) \subseteq ToSet(s)
<1>1. /\ Tail(s) \in Seq(S) /\ Len(Tail(s)) = Len(s) - 1 /\ Len(s) \in Nat \ {0}
      /\ DOMAIN Tail(s) = 1 .. Len(s) - 1 /\ DOMAIN s = 1 .. Len(s)
      /\ \A i \in 1 .. Len(s) - 1 : Tail(s)[i] = s[i + 1] /\ i + 1 \in 1 .. Len(s)
      /\ Head(s) = s[1] /\ Head(s) \in S
  OBVIOUS
<1> QED
  BY <1>1 DEF ToSet

LEMMA OneOf ==
    ASSUME NEW S, NEW s \in Seq(S), Len(s) = 1
    PROVE  ToSet(s) = {s[1]} /\ s[1] \in S /\ s # <<>> /\ Head(s) = s[1]
<1>1. DOMAIN s = 1 .. 1 /\ s[1] \in S /\ Head(s) = s[1]
  OBVIOUS
<1>2. s # <<>>
  OBVIOUS
<1>3. 1 .. 1 = {1}
  OBVIOUS
<1> QED
  BY <1>1, <1>2, <1>3 DEF ToSet

LEMMA ToSetType ==
    ASSUME NEW S, NEW s \in Seq(S)
    PROVE  ToSet(s) \subseteq S
BY DEF ToSet

LEMMA Single ==
    ASSUME NEW S, NEW e \in S
    PROVE  <<e>> \in Seq(S) /\ Len(<<e>>) = 1 /\ <<e>>[1] = e
OBVIOUS

-----------------------------------------------------------------------------
(* Partitions.                                                             *)
PartitionType == [pk : PKs, items : [Keys -> Values \cup {NoItem}],
                  mu : Procs \cup {Nobody}, raced : BOOLEAN]

(* What a look-up that may make a partition returns.                       *)
LEMMA Found ==
    ASSUME TypeOK, LiveOK, NEW pk \in PKs, NEW f, f = GetOrCreate(pk)
    PROVE  /\ f.all \in Seq(PartitionType)
           /\ f.id \in 1 .. Len(f.all) /\ f.all[f.id].pk = pk
           /\ Len(parts) \in Nat /\ Len(f.all) >= Len(parts)
           /\ \A p \in 1 .. Len(parts) : f.all[p] = parts[p]
           /\ live[pk] # 0 => f.all = parts /\ f.id = live[pk]
           /\ live[pk] = 0 => /\ f.id = Len(parts) + 1
                              /\ Len(f.all) = Len(parts) + 1
                              /\ f.all[f.id] = EmptyPartition(pk)
<1>1. parts \in Seq(PartitionType) /\ Len(parts) \in Nat /\ live[pk] \in 0 .. Len(parts)
  BY DEF TypeOK, PartitionType
<1>2. EmptyPartition(pk) \in PartitionType /\ EmptyPartition(pk).pk = pk
  BY DEF EmptyPartition, PartitionType
<1>3. CASE live[pk] # 0
  <2>1. f = [id |-> live[pk], all |-> parts]
    BY <1>3 DEF GetOrCreate
  <2> QED
    BY <1>1, <1>3, <2>1 DEF LiveOK
<1>4. CASE live[pk] = 0
  <2>1. f = [id |-> Len(parts) + 1, all |-> Append(parts, EmptyPartition(pk))]
    BY <1>4 DEF GetOrCreate
  <2>2. f.id = Len(parts) + 1 /\ f.all = Append(parts, EmptyPartition(pk))
    BY <2>1
  <2>3. /\ f.all \in Seq(PartitionType) /\ Len(f.all) = Len(parts) + 1
        /\ f.all[Len(parts) + 1] = EmptyPartition(pk)
        /\ \A p \in 1 .. Len(parts) : f.all[p] = parts[p]
    BY <1>1, <1>2, <2>2
  <2> QED
    BY <1>1, <1>2, <1>4, <2>2, <2>3
<1> QED
  BY <1>3, <1>4

(* What a write to one returns.                                            *)
Rewritten(r, all, p, k, v) ==
    /\ r \in Seq(PartitionType) /\ Len(r) = Len(all)
    /\ \A q \in 1 .. Len(all) :
          /\ r[q].pk = all[q].pk
          /\ all[q].raced => r[q].raced
          /\ q # p => r[q] = all[q]
    /\ r[p].items[k] = v
    /\ \A j \in Keys \ {k} : r[p].items[j] = all[p].items[j]

LEMMA Rewrites ==
    ASSUME NEW all \in Seq(PartitionType), NEW c, NEW p \in 1 .. Len(all),
           NEW k \in Keys, NEW v \in Values \cup {NoItem}
    PROVE  Rewritten(WriteItem(all, c, p, k, v), all, p, k, v)
<1> DEFINE new == [all[p] EXCEPT !.items = [@ EXCEPT ![k] = v],
                                 !.raced = @ \/ (Recounts(all[p].items[k], v)
                                                  /\ Races(c, p))]
<1>1. PICK r : r = WriteItem(all, c, p, k, v) /\ r = [all EXCEPT ![p] = new]
  BY DEF WriteItem
<1>2. all[p] \in PartitionType
  OBVIOUS
<1>3. (Recounts(all[p].items[k], v) /\ Races(c, p)) \in BOOLEAN
  BY DEF Races, Recounts
<1>4. /\ new \in PartitionType /\ new.pk = all[p].pk
      /\ new.items[k] = v
      /\ \A j \in Keys \ {k} : new.items[j] = all[p].items[j]
      /\ all[p].raced => new.raced
  BY <1>2, <1>3 DEF PartitionType
<1> HIDE DEF new
<1>5. /\ r \in Seq(PartitionType) /\ Len(r) = Len(all) /\ r[p] = new
      /\ \A q \in 1 .. Len(all) : q # p => r[q] = all[q]
  BY <1>1, <1>4
<1> QED
  BY <1>1, <1>4, <1>5 DEF Rewritten

-----------------------------------------------------------------------------
(* Calls.                                                                  *)
CallType(n) ==
    [pc : {"idle", "lock", "write", "count", "index", "stream",
           "remove", "uncount", "drop", "log", "update", "tx", "tally"},
     todo : Seq(Write), part : 0 .. n, old : Values \cup {NoItem},
     calm : BOOLEAN]

RecordType ==
    [event : {"INSERT", "MODIFY", "REMOVE"}, key : Keys,
     old : Values \cup {NoItem}, new : Values \cup {NoItem}]

LEMMA TypesOf ==
    ASSUME TypeOK
    PROVE  /\ parts \in Seq(PartitionType) /\ Len(parts) \in Nat
           /\ call \in [Procs -> CallType(Len(parts))]
           /\ records \in Seq(RecordType)
BY DEF TypeOK, PartitionType, CallType, RecordType

(* Partitions are never forgotten and keep their keys. *)
PartsGrow ==
    /\ Len(parts') >= Len(parts)
    /\ \A p \in 1 .. Len(parts) : parts'[p].pk = parts[p].pk

(* x goes on with the call it has. *)
SameCall(x) ==
    /\ call'[x].pc = call[x].pc
    /\ call'[x].todo = call[x].todo
    /\ call'[x].part = call[x].part

LEMMA CallKept ==
    ASSUME TypeOK, parts' \in Seq(PartitionType), PartsGrow, NEW x \in Procs,
           CallOK(call[x]), SameCall(x)
    PROVE  CallOK(call[x])'
<1>1. Len(parts) \in Nat /\ Len(parts') \in Nat
  BY TypesOf
<1> QED
  BY <1>1 DEF CallOK, SameCall, PartsGrow

LEMMA StartType ==
    ASSUME TypeOK, NEW n \in Nat, n >= Len(parts),
           NEW c \in Procs, NEW r \in CallType(n), Start(c, r)
    PROVE  /\ call' \in [Procs -> CallType(n)]
           /\ call'[c].pc = r.pc /\ call'[c].todo = r.todo
           /\ call'[c].part = r.part
           /\ \A x \in Procs \ {c} : SameCall(x)
           /\ hazy' \subseteq Keys
<1>1. call \in [Procs -> CallType(Len(parts))] /\ Len(parts) \in Nat
  BY TypesOf
<1>2. \A x \in Procs : call[x] \in CallType(n)
  BY <1>1 DEF CallType
<1> DEFINE mine == [r EXCEPT !.calm = \A y \in Procs \ {c} :
                                 RemovesFrom(call[y]) \cap PKsOf(r) = {}]
           yours(x) == [call[x] EXCEPT !.calm =
                           @ /\ RemovesFrom(r) \cap PKsOf(call[x]) = {}]
<1>3. call' = [x \in Procs |-> IF x = c THEN mine ELSE yours(x)]
  BY DEF Start
<1>4. /\ mine \in CallType(n)
      /\ mine.pc = r.pc /\ mine.todo = r.todo /\ mine.part = r.part
  BY DEF CallType
<1>5. ASSUME NEW x \in Procs
      PROVE  /\ yours(x) \in CallType(n)
             /\ yours(x).pc = call[x].pc /\ yours(x).todo = call[x].todo
             /\ yours(x).part = call[x].part
  BY <1>2 DEF CallType
<1> HIDE DEF mine, yours
<1>6. hazy' \subseteq Keys
  <2>1. ToSet(r.todo) \subseteq Write
    BY ToSetType DEF CallType
  <2>2. KeysOf(r) \subseteq Keys
    BY <2>1 DEF KeysOf, Write
  <2> QED
    BY <2>2 DEF Start, TypeOK
<1> QED
  BY <1>3, <1>4, <1>5, <1>6 DEF SameCall

(* What a call that is under way works on.                                 *)
LEMMA CallProps ==
    ASSUME TypeInv, NEW c \in Procs
    PROVE  /\ call[c] \in CallType(Len(parts))
           /\ call[c].pc \in Puts \cup Removals \cup Tabled =>
                 /\ call[c].todo[1] \in Write
                 /\ call[c].todo[1].key \in Keys
                 /\ PartOf[call[c].todo[1].key] \in PKs
                 /\ Head(call[c].todo) = call[c].todo[1]
                 /\ call[c].todo[1] \in ToSet(call[c].todo)
           /\ call[c].pc \in Puts \cup Removals =>
                 ToSet(call[c].todo) = {call[c].todo[1]}
           /\ call[c].pc \in Puts \cup {"update"} => call[c].todo[1].to \in Values
           /\ call[c].pc \in Removals => call[c].todo[1].to = NoItem
           /\ call[c].pc \in Puts \cup Removals \cup {"tally"} =>
                 /\ call[c].part \in 1 .. Len(parts)
                 /\ parts[call[c].part].pk = PartOf[call[c].todo[1].key]
<1>1. call[c] \in CallType(Len(parts)) /\ CallOK(call[c])
  BY TypesOf DEF TypeInv
<1>2. call[c].todo \in Seq(Write)
  BY <1>1 DEF CallType
<1>3. ASSUME Len(call[c].todo) = 1
      PROVE  call[c].todo # <<>> /\ ToSet(call[c].todo) = {call[c].todo[1]}
  BY <1>2, <1>3, OneOf
<1>4. ASSUME call[c].todo # <<>>
      PROVE  /\ call[c].todo[1] \in Write /\ Head(call[c].todo) = call[c].todo[1]
             /\ call[c].todo[1] \in ToSet(call[c].todo)
  <2>1. Head(call[c].todo) = call[c].todo[1]
    BY <1>2, <1>4
  <2> QED
    BY <1>2, <1>4, <2>1, RestOf
<1>5. \A w \in Write : w.key \in Keys /\ PartOf[w.key] \in PKs
                      /\ w.to \in Values \cup {NoItem}
  BY DynamoParametersAssumption DEF Write
<1>6. call[c].pc \in Puts \cup Removals \cup Tabled => call[c].todo # <<>>
  BY <1>1, <1>3 DEF CallOK
<1>7. call[c].pc = "update" => call[c].pc \in Tabled
  BY DEF Tabled
<1> QED
  BY <1>1, <1>3, <1>4, <1>5, <1>6, <1>7 DEF CallOK

LEMMA LandType ==
    ASSUME TypeOK, NEW c, NEW p, NEW k \in Keys, NEW v \in Values \cup {NoItem},
           Land(c, p, k, v)
    PROVE  /\ last' \in [Keys -> Values \cup {NoItem}]
           /\ sure' \subseteq Keys /\ hazy' \subseteq Keys
BY DEF Land, RacedKeys, TypeOK

LEMMA IndexType ==
    ASSUME NEW ix \in [IndexKeys -> Item \cup {NoItem}], NEW k \in Keys
    PROVE  /\ \A v \in Values :
                 IndexItem(ix, k, v) \in [IndexKeys -> Item \cup {NoItem}]
           /\ \A v \in Values \cup {NoItem} :
                 DeindexItem(ix, k, v) \in [IndexKeys -> Item \cup {NoItem}]
BY DEF IndexItem, DeindexItem, Item

LEMMA IdleType ==
    ASSUME NEW n \in Nat
    PROVE  Idle \in CallType(n) /\ Idle.pc = "idle" /\ Idle.todo = <<>>
<1>1. <<>> \in Seq(Write)
  OBVIOUS
<1> QED
  BY <1>1 DEF Idle, CallType

LEMMA RecordIs ==
    ASSUME NEW k \in Keys, NEW old \in Values \cup {NoItem},
           NEW new \in Values \cup {NoItem}
    PROVE  Record(k, old, new) \in RecordType
BY DEF Record, RecordType

LEMMA GetItemType ==
    ASSUME TypeOK, NEW k \in Keys
    PROVE  GetItem(k) \in Values \cup {NoItem}
<1>1. PartOf[k] \in PKs
  BY DynamoParametersAssumption
<1>2. live[PartOf[k]] \in 0 .. Len(parts) /\ Len(parts) \in Nat
  BY <1>1, TypesOf DEF TypeOK
<1>3. live[PartOf[k]] # 0 => parts[live[PartOf[k]]] \in PartitionType
  BY <1>2, TypesOf
<1> QED
  BY <1>3 DEF GetItem, PartitionType

-----------------------------------------------------------------------------
(* Every step keeps the types.                                             *)

(* Where the map leads after it was made to lead to p. *)
LEMMA LiveSet ==
    ASSUME TypeInv, PartsGrow, parts' \in Seq(PartitionType),
           NEW pk \in PKs, NEW p \in 0 .. Len(parts'),
           p # 0 => parts'[p].pk = pk,
           live' = [live EXCEPT ![pk] = p]
    PROVE  live' \in [PKs -> 0 .. Len(parts')] /\ LiveOK'
<1>1. /\ live \in [PKs -> 0 .. Len(parts)]
      /\ Len(parts) \in Nat /\ Len(parts') \in Nat
  BY TypesOf DEF TypeInv, TypeOK
<1>2. live' \in [PKs -> 0 .. Len(parts')]
  BY <1>1 DEF PartsGrow
<1>3. LiveOK'
  BY <1>1 DEF PartsGrow, LiveOK, TypeInv
<1> QED
  BY <1>2, <1>3

LEMMA LiveKept ==
    ASSUME TypeInv, PartsGrow, parts' \in Seq(PartitionType), live' = live
    PROVE  live' \in [PKs -> 0 .. Len(parts')] /\ LiveOK'
<1>1. /\ live \in [PKs -> 0 .. Len(parts)]
      /\ Len(parts) \in Nat /\ Len(parts') \in Nat
  BY TypesOf DEF TypeInv, TypeOK
<1> QED
  BY <1>1 DEF PartsGrow, LiveOK, TypeInv

(* The invariant, put together from its parts. *)
LEMMA TypeInvFrom ==
    ASSUME TypeInv, PartsGrow,
           parts' \in Seq(PartitionType),
           live' \in [PKs -> 0 .. Len(parts')], LiveOK',
           call' \in [Procs -> CallType(Len(parts'))],
           NEW c \in Procs, CallOK(call[c])',
           \A x \in Procs \ {c} : SameCall(x),
           tableMu' \in Procs \cup {Nobody},
           index' \in [IndexKeys -> Item \cup {NoItem}],
           count' \in Int, records' \in Seq(RecordType), calls' \in 0 .. MaxCalls,
           last' \in [Keys -> Values \cup {NoItem}],
           sure' \subseteq Keys, hazy' \subseteq Keys
    PROVE  TypeInv'
<1>1. TypeOK'
  BY DEF TypeOK, PartitionType, CallType, RecordType
<1>2. ASSUME NEW x \in Procs \ {c} PROVE CallOK(call[x])'
  BY CallKept DEF TypeInv
<1> QED
  BY <1>1, <1>2 DEF TypeInv

(* The start of a call. *)
LEMMA StartKeeps ==
    ASSUME TypeInv, PartsGrow, parts' \in Seq(PartitionType),
           live' \in [PKs -> 0 .. Len(parts')], LiveOK',
           NEW c \in Procs, NEW r \in CallType(Len(parts')), Start(c, r),
           r.pc = "idle" => r.todo = <<>>,
           r.pc \in Puts \cup Removals =>
              /\ Len(r.todo) = 1
              /\ r.part \in 1 .. Len(parts')
              /\ parts'[r.part].pk = PartOf[r.todo[1].key],
           r.pc \in Puts \cup {"update"} => r.todo[1].to # NoItem,
           r.pc \in Removals => r.todo[1].to = NoItem,
           r.pc \in Tabled => r.todo # <<>>, r.pc # "tally",
           tableMu' \in Procs \cup {Nobody}, calls' \in 0 .. MaxCalls,
           UNCHANGED <<index, count, records, last, sure>>
    PROVE  TypeInv'
<1>1. Len(parts') \in Nat /\ Len(parts') >= Len(parts)
  BY DEF PartsGrow
<1>2. /\ call' \in [Procs -> CallType(Len(parts'))]
      /\ call'[c].pc = r.pc /\ call'[c].todo = r.todo /\ call'[c].part = r.part
      /\ \A x \in Procs \ {c} : SameCall(x)
      /\ hazy' \subseteq Keys
  BY <1>1, StartType DEF TypeInv
<1>3. CallOK(call[c])'
  BY <1>2 DEF CallOK
<1>4. /\ index' \in [IndexKeys -> Item \cup {NoItem}] /\ count' \in Int
      /\ records' \in Seq(RecordType) /\ last' \in [Keys -> Values \cup {NoItem}]
      /\ sure' \subseteq Keys
  BY TypesOf DEF TypeInv, TypeOK
<1> QED
  BY <1>2, <1>3, <1>4, TypeInvFrom

LEMMA RequestType ==
    ASSUME TypeInv, NEW c, Request(c)
    PROVE  c \in Procs /\ calls' \in 0 .. MaxCalls
BY DynamoParametersAssumption DEF Request, Procs, TypeInv, TypeOK

LEMMA WriteIs ==
    ASSUME NEW w \in Write
    PROVE  /\ w.key \in Keys /\ PartOf[w.key] \in PKs /\ w.to \in Values \cup {NoItem}
           /\ w.update => w.to # NoItem
BY DynamoParametersAssumption DEF Write

LEMMA PutItemType ==
    ASSUME TypeInv, NEW c \in Clients, NEW w \in Requests, PutItem(c, w)
    PROVE  TypeInv'
<1> DEFINE pk == PartOf[w.key]
           found == GetOrCreate(pk)
           r == [Idle EXCEPT !.pc = "lock", !.todo = <<w>>, !.part = found.id]
<1>1. w \in Write /\ w.to # NoItem /\ w.key \in Keys /\ pk \in PKs
  BY DynamoParametersAssumption, WriteIs DEF PutItem
<1>2. c \in Procs /\ calls' \in 0 .. MaxCalls
  BY RequestType DEF PutItem
<1>3. /\ parts' = found.all /\ live' = [live EXCEPT ![pk] = found.id]
      /\ Start(c, r)
      /\ UNCHANGED <<tableMu, index, count, records, last, sure>>
  BY DEF PutItem
<1> HIDE DEF found
<1>4. /\ found.all \in Seq(PartitionType)
      /\ found.id \in 1 .. Len(found.all) /\ found.all[found.id].pk = pk
      /\ Len(parts) \in Nat /\ Len(found.all) >= Len(parts)
      /\ \A p \in 1 .. Len(parts) : found.all[p] = parts[p]
  BY <1>1, Found DEF TypeInv, found
<1>5. PartsGrow /\ parts' \in Seq(PartitionType)
  BY <1>3, <1>4 DEF PartsGrow
<1>6. live' \in [PKs -> 0 .. Len(parts')] /\ LiveOK'
  <2>1. found.id \in 0 .. Len(parts') /\ parts'[found.id].pk = pk
    BY <1>3, <1>4
  <2> QED
    BY <1>1, <1>3, <1>5, <2>1, LiveSet
<1>7. /\ r \in CallType(Len(parts'))
      /\ r.pc = "lock" /\ r.todo = <<w>> /\ r.part = found.id
  <2>1. found.id \in 0 .. Len(parts') /\ <<w>> \in Seq(Write)
    BY <1>1, <1>3, <1>4, Single
  <2>2. Idle \in CallType(Len(parts'))
    BY <1>5, IdleType DEF PartsGrow
  <2> QED
    BY <2>1, <2>2 DEF CallType
<1>8. Len(r.todo) = 1 /\ r.todo[1] = w
  BY <1>7
<1>9. tableMu' \in Procs \cup {Nobody}
  BY <1>3 DEF TypeInv, TypeOK
<1> HIDE DEF r
<1> QED
  BY <1>1, <1>2, <1>3, <1>4, <1>5, <1>6, <1>7, <1>8, <1>9, StartKeeps
     DEF Puts, Removals, Tabled

(* The starts that leave the partitions and the map alone. *)
LEMMA QuietStart ==
    ASSUME TypeInv, UNCHANGED <<parts, live>>
    PROVE  /\ PartsGrow /\ parts' \in Seq(PartitionType)
           /\ live' \in [PKs -> 0 .. Len(parts')] /\ LiveOK'
           /\ Len(parts') \in Nat
<1>1. parts' \in Seq(PartitionType) /\ Len(parts') \in Nat
  BY TypesOf DEF TypeInv
<1>2. PartsGrow
  BY <1>1 DEF PartsGrow
<1> QED
  BY <1>1, <1>2, LiveKept

LEMMA DeleteItemType ==
    ASSUME TypeInv, NEW c \in Clients, NEW w \in Requests, DeleteItem(c, w)
    PROVE  TypeInv'
<1> DEFINE p == live[PartOf[w.key]]
           r == [Idle EXCEPT !.pc = "remove", !.todo = <<w>>, !.part = p]
<1>1. w \in Write /\ w.to = NoItem /\ PartOf[w.key] \in PKs /\ p # 0
  BY DynamoParametersAssumption, WriteIs DEF DeleteItem
<1>2. c \in Procs /\ calls' \in 0 .. MaxCalls /\ Start(c, r)
  BY RequestType DEF DeleteItem
<1>3. UNCHANGED <<parts, live, tableMu, index, count, records, last, sure>>
  BY DEF DeleteItem
<1>4. /\ p \in 1 .. Len(parts') /\ p \in 0 .. Len(parts')
      /\ parts'[p].pk = PartOf[w.key]
  BY <1>1, <1>3, TypesOf DEF TypeInv, TypeOK, LiveOK
<1>5. /\ r \in CallType(Len(parts'))
      /\ r.pc = "remove" /\ r.todo = <<w>> /\ r.part = p
  BY <1>1, <1>3, <1>4, IdleType, QuietStart, Single DEF CallType
<1>6. Len(r.todo) = 1 /\ r.todo[1] = w
  BY <1>5
<1>7. tableMu' \in Procs \cup {Nobody}
  BY <1>3 DEF TypeInv, TypeOK
<1> HIDE DEF r
<1> QED
  BY <1>1, <1>2, <1>3, <1>4, <1>5, <1>6, <1>7, QuietStart, StartKeeps
     DEF Puts, Removals, Tabled

LEMMA UpdateItemType ==
    ASSUME TypeInv, NEW c \in Clients, NEW w \in Requests, UpdateItem(c, w)
    PROVE  TypeInv'
<1> DEFINE r == [Idle EXCEPT !.pc = "update", !.todo = <<w>>,
                             !.old = GetItem(w.key)]
<1>1. w \in Write /\ w.to # NoItem /\ GetItem(w.key) \in Values \cup {NoItem}
  BY DynamoParametersAssumption, WriteIs, GetItemType DEF UpdateItem, TypeInv
<1>2. c \in Procs /\ calls' \in 0 .. MaxCalls /\ Start(c, r)
  BY RequestType DEF UpdateItem
<1>3. UNCHANGED <<parts, live, index, count, records, last, sure>> /\ tableMu' = c
  BY DEF UpdateItem
<1>4. /\ r \in CallType(Len(parts'))
      /\ r.pc = "update" /\ r.todo = <<w>>
  BY <1>1, <1>3, IdleType, QuietStart, Single DEF CallType
<1>5. Len(r.todo) = 1 /\ r.todo[1] = w /\ r.todo # <<>>
  BY <1>4
<1> HIDE DEF r
<1> QED
  BY <1>1, <1>2, <1>3, <1>4, <1>5, QuietStart, StartKeeps DEF Puts, Removals, Tabled

LEMMA TransactType ==
    ASSUME TypeInv, NEW c \in Clients, NEW t \in Transactions,
           TransactWriteItems(c, t)
    PROVE  TypeInv'
<1> DEFINE r == [Idle EXCEPT !.pc = "tx", !.todo = t.writes]
<1>1. t.writes \in Seq(Write) /\ t.writes # <<>>
  BY DynamoParametersAssumption DEF Transaction
<1>2. c \in Procs /\ calls' \in 0 .. MaxCalls /\ Start(c, r)
  BY RequestType DEF TransactWriteItems
<1>3. UNCHANGED <<parts, live, index, count, records, last, sure>> /\ tableMu' = c
  BY DEF TransactWriteItems
<1>4. r \in CallType(Len(parts')) /\ r.pc = "tx" /\ r.todo = t.writes
  BY <1>1, <1>3, IdleType, QuietStart DEF CallType
<1> HIDE DEF r
<1> QED
  BY <1>1, <1>2, <1>3, <1>4, QuietStart, StartKeeps DEF Puts, Removals, Tabled

LEMMA FunctionIsSeq ==
    ASSUME NEW S, NEW n \in Nat, NEW t \in [1 .. n -> S]
    PROVE  t \in Seq(S)
OBVIOUS

LEMMA ExpiredKeysType ==
    ASSUME NEW t \in ExpiredKeys
    PROVE  t \in Seq(Keys)
<1> DEFINE E == {k \in Keys : GetItem(k) \in Expired}
<1>1. t \in [1 .. Cardinality(E) -> E]
  BY DEF ExpiredKeys, SetToSeqs
<1>2. IsFiniteSet(E) /\ E \subseteq Keys
  BY DynamoParametersAssumption, FS_Subset
<1> HIDE DEF E
<1>3. Cardinality(E) \in Nat
  BY <1>2, FS_CardinalityType
<1>4. t \in [1 .. Cardinality(E) -> Keys]
  BY <1>1, <1>2
<1> QED
  BY <1>3, <1>4, FunctionIsSeq

LEMMA ScanType ==
    ASSUME TypeInv, NEW c, NEW t \in ExpiredKeys, ScanExpired(c, t)
    PROVE  TypeInv'
<1> DEFINE todo == [i \in DOMAIN t |->
                       [key |-> t[i], to |-> NoItem, cond |-> "none",
                        update |-> FALSE]]
           r == [Idle EXCEPT !.pc = "tx", !.todo = todo]
<1>1. todo \in Seq(Write) /\ todo # <<>>
  <2>1. t \in Seq(Keys) /\ t # <<>>
    BY ExpiredKeysType DEF ScanExpired
  <2>2. \A k \in Keys : [key |-> k, to |-> NoItem, cond |-> "none", update |-> FALSE]
                             \in Write
    BY DEF Write
  <2>3. DOMAIN t = 1 .. Len(t) /\ Len(t) \in Nat \ {0}
    BY <2>1
  <2> QED
    BY <2>1, <2>2, <2>3
<1>2. c \in Procs /\ calls' \in 0 .. MaxCalls /\ Start(c, r)
  BY DEF ScanExpired, Procs, TypeInv, TypeOK
<1>3. UNCHANGED <<parts, live, index, count, records, last, sure>> /\ tableMu' = c
  BY DEF ScanExpired
<1> HIDE DEF todo
<1>4. r \in CallType(Len(parts')) /\ r.pc = "tx" /\ r.todo = todo
  BY <1>1, <1>3, IdleType, QuietStart DEF CallType
<1> HIDE DEF r
<1> QED
  BY <1>1, <1>2, <1>3, <1>4, QuietStart, StartKeeps DEF Puts, Removals, Tabled

(* A call that goes on to its next step, or returns. *)
GoesOn(c, r) ==
    \/ r.pc = "idle" /\ r.todo = <<>>
    \/ /\ \/ call[c].pc \in Puts /\ r.pc \in Puts
          \/ call[c].pc \in Removals /\ r.pc \in Removals
       /\ r.todo = call[c].todo /\ r.part = call[c].part

LEMMA CallMoves ==
    ASSUME TypeInv, PartsGrow, parts' \in Seq(PartitionType), NEW c \in Procs,
           NEW r \in CallType(Len(parts')), call' = [call EXCEPT ![c] = r],
           GoesOn(c, r)
    PROVE  /\ call' \in [Procs -> CallType(Len(parts'))]
           /\ CallOK(call[c])'
           /\ \A x \in Procs \ {c} : SameCall(x)
<1>1. /\ call \in [Procs -> CallType(Len(parts))]
      /\ Len(parts) \in Nat /\ Len(parts') \in Nat
  BY TypesOf DEF TypeInv
<1>2. \A x \in Procs : call[x] \in CallType(Len(parts'))
  BY <1>1 DEF CallType, PartsGrow
<1>3. call' \in [Procs -> CallType(Len(parts'))] /\ call'[c] = r
  BY <1>1, <1>2
<1>4. \A x \in Procs \ {c} : SameCall(x)
  BY <1>1 DEF SameCall
<1>5. CallOK(call[c])
  BY DEF TypeInv
<1>6. CallOK(call[c])'
  BY <1>1, <1>3, <1>5 DEF CallOK, PartsGrow, GoesOn, Puts, Removals, Tabled
<1> QED
  BY <1>3, <1>4, <1>6

(* The same call at another step, and with another old image. *)
Ahead(c, pc) ==
    \/ call[c].pc \in Puts /\ pc \in Puts
    \/ call[c].pc \in Removals /\ pc \in Removals

LEMMA CallAtWith ==
    ASSUME TypeInv, NEW n \in Nat, n >= Len(parts), NEW c \in Procs, NEW pc,
           Ahead(c, pc), NEW old \in Values \cup {NoItem},
           NEW r, r = [call[c] EXCEPT !.pc = pc, !.old = old]
    PROVE  r \in CallType(n) /\ GoesOn(c, r) /\ r.calm = call[c].calm /\ r.pc = pc
<1>1. call[c] \in CallType(n) /\ call[c].old \in Values \cup {NoItem}
  <2>1. call[c] \in CallType(Len(parts)) /\ Len(parts) \in Nat
    BY TypesOf DEF TypeInv
  <2> QED
    BY <2>1 DEF CallType
<1>2. pc \in {"idle", "lock", "write", "count", "index", "stream",
              "remove", "uncount", "drop", "log", "update", "tx", "tally"}
  BY DEF Puts, Removals, Ahead
<1>3. r \in CallType(n)
  BY <1>1, <1>2 DEF CallType
<1>4. /\ r.calm = call[c].calm /\ r.pc = pc
      /\ r.todo = call[c].todo /\ r.part = call[c].part
  BY <1>1 DEF CallType
<1> QED
  BY <1>3, <1>4 DEF GoesOn, Ahead

LEMMA CallAt ==
    ASSUME TypeInv, NEW n \in Nat, n >= Len(parts), NEW c \in Procs, NEW pc,
           Ahead(c, pc), NEW r, r = [call[c] EXCEPT !.pc = pc]
    PROVE  r \in CallType(n) /\ GoesOn(c, r) /\ r.calm = call[c].calm /\ r.pc = pc
<1>1. call[c] \in CallType(n) /\ call[c].old \in Values \cup {NoItem}
  <2>1. call[c] \in CallType(Len(parts)) /\ Len(parts) \in Nat
    BY TypesOf DEF TypeInv
  <2> QED
    BY <2>1 DEF CallType
<1>2. pc \in {"idle", "lock", "write", "count", "index", "stream",
              "remove", "uncount", "drop", "log", "update", "tx", "tally"}
  BY DEF Puts, Removals, Ahead
<1>3. r \in CallType(n)
  BY <1>1, <1>2 DEF CallType
<1>4. /\ r.calm = call[c].calm /\ r.pc = pc
      /\ r.todo = call[c].todo /\ r.part = call[c].part
  BY <1>1 DEF CallType
<1> QED
  BY <1>3, <1>4 DEF GoesOn, Ahead

LEMMA IdleGoes ==
    ASSUME NEW n \in Nat, NEW c
    PROVE  Idle \in CallType(n) /\ GoesOn(c, Idle)
BY IdleType DEF GoesOn

(* A partition's lock taken or released. *)
LEMMA LockType ==
    ASSUME TypeInv, NEW p \in 1 .. Len(parts), NEW m \in Procs \cup {Nobody},
           parts' = [parts EXCEPT ![p].mu = m]
    PROVE  /\ PartsGrow /\ parts' \in Seq(PartitionType) /\ Len(parts') = Len(parts)
           /\ \A q \in 1 .. Len(parts) :
                 /\ parts'[q].pk = parts[q].pk
                 /\ parts'[q].items = parts[q].items
                 /\ parts'[q].raced = parts[q].raced
<1> DEFINE new == [parts[p] EXCEPT !.mu = m]
<1>1. parts \in Seq(PartitionType) /\ Len(parts) \in Nat /\ parts[p] \in PartitionType
  BY TypesOf DEF TypeInv
<1>2. /\ new \in PartitionType /\ new.pk = parts[p].pk
      /\ new.items = parts[p].items /\ new.raced = parts[p].raced
  BY <1>1 DEF PartitionType
<1> HIDE DEF new
<1>3. parts' = [parts EXCEPT ![p] = new]
  BY DEF new
<1>4. parts' \in Seq(PartitionType) /\ Len(parts') = Len(parts)
  BY <1>1, <1>2, <1>3
<1>5. \A q \in 1 .. Len(parts) : parts'[q] = IF q = p THEN new ELSE parts[q]
  BY <1>1, <1>3
<1> QED
  BY <1>1, <1>2, <1>4, <1>5 DEF PartsGrow

(* Writing in a partition that was there or has just been made. *)
LEMMA WriteGrows ==
    ASSUME TypeInv, NEW all \in Seq(PartitionType), Len(all) >= Len(parts),
           \A q \in 1 .. Len(parts) : all[q].pk = parts[q].pk,
           NEW c, NEW p \in 1 .. Len(all), NEW k \in Keys,
           NEW v \in Values \cup {NoItem}, parts' = WriteItem(all, c, p, k, v)
    PROVE  /\ PartsGrow /\ parts' \in Seq(PartitionType)
           /\ Len(parts') = Len(all) /\ Len(parts') \in Nat
<1>1. Len(parts) \in Nat /\ Len(all) \in Nat
  BY TypesOf DEF TypeInv
<1>2. Rewritten(parts', all, p, k, v)
  BY Rewrites
<1>3. /\ parts' \in Seq(PartitionType) /\ Len(parts') = Len(all)
      /\ \A q \in 1 .. Len(all) : parts'[q].pk = all[q].pk
  BY <1>2 DEF Rewritten
<1> QED
  BY <1>1, <1>2, <1>3 DEF PartsGrow

LEMMA PutCheckType ==
    ASSUME TypeInv, NEW c \in Procs, PutCheck(c)
    PROVE  TypeInv'
<1>1. call[c].pc = "lock" /\ call[c].pc \in Puts
  BY DEF PutCheck, Puts
<1>2. call[c].part \in 1 .. Len(parts) /\ Len(parts) \in Nat
  BY <1>1, CallProps, TypesOf DEF TypeInv
<1>3. /\ UNCHANGED <<live, tableMu, index, count, records, calls, last, sure, hazy>>
      /\ \/ /\ parts' = [parts EXCEPT ![call[c].part].mu = c]
            /\ call' = [call EXCEPT ![c] = [call[c] EXCEPT !.pc = "write"]]
         \/ UNCHANGED parts /\ call' = [call EXCEPT ![c] = Idle]
  BY TypesOf DEF PutCheck, TypeInv
<1>4. PartsGrow /\ parts' \in Seq(PartitionType) /\ Len(parts') = Len(parts)
  BY <1>2, <1>3, LockType, QuietStart
<1>5. PICK r \in CallType(Len(parts')) :
         call' = [call EXCEPT ![c] = r] /\ GoesOn(c, r)
  <2>1. "write" \in Puts
    BY DEF Puts
  <2>2. PICK n \in Nat : n = Len(parts') /\ n >= Len(parts)
    BY <1>2, <1>4
  <2>3. Idle \in CallType(n) /\ GoesOn(c, Idle)
    BY IdleGoes
  <2>4. PICK r : r = [call[c] EXCEPT !.pc = "write"]
    OBVIOUS
  <2>5. Ahead(c, "write")
    BY <1>1, <2>1 DEF Ahead
  <2>6. r \in CallType(n) /\ GoesOn(c, r)
    BY <2>2, <2>4, <2>5, CallAt
  <2> QED
    BY <1>3, <2>2, <2>3, <2>4, <2>6
<1> QED
  BY <1>3, <1>4, <1>5, CallMoves, LiveKept, TypesOf, TypeInvFrom
     DEF TypeInv, TypeOK

LEMMA ItemOf ==
    ASSUME NEW all \in Seq(PartitionType), NEW p \in 1 .. Len(all), NEW k \in Keys
    PROVE  all[p].items[k] \in Values \cup {NoItem}
<1>1. all[p] \in PartitionType
  OBVIOUS
<1> QED
  BY <1>1 DEF PartitionType

(* A write of the item a call is for, in its partition. *)
LEMMA CallWrites ==
    ASSUME TypeInv, NEW c \in Procs, call[c].pc \in Puts \cup Removals,
           NEW k \in Keys, NEW v \in Values \cup {NoItem},
           parts' = WriteItem(parts, c, call[c].part, k, v)
    PROVE  /\ PartsGrow /\ parts' \in Seq(PartitionType)
           /\ Len(parts') \in Nat /\ Len(parts') >= Len(parts)
<1>1. parts \in Seq(PartitionType) /\ call[c].part \in 1 .. Len(parts)
      /\ Len(parts) \in Nat
  BY CallProps, TypesOf DEF TypeInv
<1>2. /\ PartsGrow /\ parts' \in Seq(PartitionType)
      /\ Len(parts') = Len(parts) /\ Len(parts') \in Nat
  BY <1>1, WriteGrows
<1> QED
  BY <1>1, <1>2

LEMMA PutWriteType ==
    ASSUME TypeInv, NEW c \in Procs, PutWrite(c)
    PROVE  TypeInv'
<1>1. PICK k, v, p, old, pc :
         /\ k = call[c].todo[1].key /\ v = call[c].todo[1].to /\ p = call[c].part
         /\ old = parts[p].items[k]
         /\ pc = IF old = NoItem THEN "count" ELSE "index"
  OBVIOUS
<1>2. call[c].pc = "write" /\ call[c].pc \in Puts
  BY Zenon DEF PutWrite, Puts
<1>3. /\ parts' = WriteItem(parts, c, p, k, v)
      /\ count' = count + (IF old = NoItem THEN 1 ELSE 0)
      /\ Land(c, p, k, v)
      /\ UNCHANGED <<live, tableMu, index, records, calls>>
  BY <1>1, Zenon DEF PutWrite
<1>4. call' = [call EXCEPT ![c] = [call[c] EXCEPT !.pc = pc, !.old = old]]
  BY <1>1, TypesOf, Zenon DEF PutWrite, TypeInv
<1>5. k \in Keys /\ v \in Values \cup {NoItem} /\ p \in 1 .. Len(parts)
  BY <1>1, <1>2, CallProps
<1>6. /\ PartsGrow /\ parts' \in Seq(PartitionType)
      /\ Len(parts') \in Nat /\ Len(parts') >= Len(parts)
  BY <1>1, <1>2, <1>3, <1>5, CallWrites
<1>7. old \in Values \cup {NoItem}
  BY <1>1, <1>5, ItemOf, TypesOf DEF TypeInv
<1>8. PICK r : r = [call[c] EXCEPT !.pc = pc, !.old = old]
  OBVIOUS
<1>9. Ahead(c, pc)
  BY <1>1, <1>2 DEF Ahead, Puts
<1>10. r \in CallType(Len(parts')) /\ GoesOn(c, r)
  BY <1>6, <1>7, <1>8, <1>9, CallAtWith, Zenon
<1>11. /\ call' \in [Procs -> CallType(Len(parts'))]
       /\ CallOK(call[c])' /\ \A x \in Procs \ {c} : SameCall(x)
  BY <1>4, <1>6, <1>8, <1>10, CallMoves
<1>12. /\ last' \in [Keys -> Values \cup {NoItem}]
       /\ sure' \subseteq Keys /\ hazy' \subseteq Keys
  BY <1>3, <1>5, LandType DEF TypeInv
<1>13. live' \in [PKs -> 0 .. Len(parts')] /\ LiveOK'
  BY <1>3, <1>6, LiveKept
<1>14. count' \in Int /\ tableMu' \in Procs \cup {Nobody} /\ calls' \in 0 .. MaxCalls
  BY <1>3 DEF TypeInv, TypeOK
<1>15. index' \in [IndexKeys -> Item \cup {NoItem}] /\ records' \in Seq(RecordType)
  BY <1>3, TypesOf DEF TypeInv, TypeOK
<1> QED
  BY <1>6, <1>11, <1>12, <1>13, <1>14, <1>15, TypeInvFrom

LEMMA PutCountType ==
    ASSUME TypeInv, NEW c \in Procs, PutCount(c)
    PROVE  TypeInv'
<1>1. call[c].pc \in Puts /\ Ahead(c, "index")
  BY DEF PutCount, Puts, Ahead
<1>2. /\ UNCHANGED <<parts, live, tableMu, index, count, records, calls,
                     last, sure, hazy>>
      /\ call' = [call EXCEPT ![c] = [call[c] EXCEPT !.pc = "index"]]
  BY TypesOf DEF PutCount, TypeInv
<1>3. /\ PartsGrow /\ parts' \in Seq(PartitionType)
      /\ live' \in [PKs -> 0 .. Len(parts')] /\ LiveOK'
      /\ Len(parts') \in Nat /\ Len(parts') >= Len(parts)
  BY <1>2, QuietStart DEF PartsGrow
<1>4. PICK r : r = [call[c] EXCEPT !.pc = "index"]
  OBVIOUS
<1>5. r \in CallType(Len(parts')) /\ GoesOn(c, r)
  BY <1>1, <1>3, <1>4, CallAt
<1>6. /\ call' \in [Procs -> CallType(Len(parts'))]
      /\ CallOK(call[c])' /\ \A x \in Procs \ {c} : SameCall(x)
  BY <1>2, <1>3, <1>4, <1>5, CallMoves
<1> QED
  BY <1>2, <1>3, <1>6, TypeInvFrom, TypesOf DEF TypeInv, TypeOK

(* The index after an item was replaced, and after it was removed. *)
LEMMA IndexReplaced ==
    ASSUME TypeOK, NEW k \in Keys, NEW v \in Values, NEW old \in Values \cup {NoItem}
    PROVE  /\ DeindexItem(index, k, old) \in [IndexKeys -> Item \cup {NoItem}]
           /\ IndexItem(DeindexItem(index, k, old), k, v)
                 \in [IndexKeys -> Item \cup {NoItem}]
<1>1. index \in [IndexKeys -> Item \cup {NoItem}]
  BY DEF TypeOK
<1>2. PICK d : d = DeindexItem(index, k, old)
  OBVIOUS
<1>3. d \in [IndexKeys -> Item \cup {NoItem}]
  BY <1>1, <1>2, IndexType
<1>4. IndexItem(d, k, v) \in [IndexKeys -> Item \cup {NoItem}]
  BY <1>3, IndexType
<1> QED
  BY <1>2, <1>3, <1>4

LEMMA RecordAdded ==
    ASSUME TypeOK, NEW k \in Keys, NEW old \in Values \cup {NoItem},
           NEW new \in Values \cup {NoItem},
           records' = Append(records, Record(k, old, new))
    PROVE  records' \in Seq(RecordType)
<1>1. PICK e : e = Record(k, old, new)
  OBVIOUS
<1>2. e \in RecordType /\ records \in Seq(RecordType)
  BY <1>1, RecordIs, TypesOf
<1> QED
  BY <1>1, <1>2, AppendType

LEMMA PutIndexType ==
    ASSUME TypeInv, NEW c \in Procs, PutIndex(c)
    PROVE  TypeInv'
<1>1. call[c].pc \in Puts /\ Ahead(c, "stream")
  BY DEF PutIndex, Puts, Ahead
<1>2. /\ UNCHANGED <<parts, live, tableMu, count, records, calls, last, sure, hazy>>
      /\ call' = [call EXCEPT ![c] = [call[c] EXCEPT !.pc = "stream"]]
  BY TypesOf DEF PutIndex, TypeInv
<1>3. /\ PartsGrow /\ parts' \in Seq(PartitionType)
      /\ live' \in [PKs -> 0 .. Len(parts')] /\ LiveOK'
      /\ Len(parts') \in Nat /\ Len(parts') >= Len(parts)
  BY <1>2, QuietStart DEF PartsGrow
<1>4. PICK k, v, old : k = call[c].todo[1].key /\ v = call[c].todo[1].to
                       /\ old = call[c].old
  OBVIOUS
<1>5. k \in Keys /\ v \in Values /\ old \in Values \cup {NoItem}
  BY <1>1, <1>4, CallProps DEF CallType
<1>6. index' \in [IndexKeys -> Item \cup {NoItem}]
  BY <1>4, <1>5, IndexReplaced DEF PutIndex, TypeInv
<1>7. PICK r : r = [call[c] EXCEPT !.pc = "stream"]
  OBVIOUS
<1>8. r \in CallType(Len(parts')) /\ GoesOn(c, r)
  BY <1>1, <1>3, <1>7, CallAt
<1>9. /\ call' \in [Procs -> CallType(Len(parts'))]
      /\ CallOK(call[c])' /\ \A x \in Procs \ {c} : SameCall(x)
  BY <1>2, <1>3, <1>7, <1>8, CallMoves
<1> QED
  BY <1>2, <1>3, <1>6, <1>9, TypeInvFrom, TypesOf DEF TypeInv, TypeOK

LEMMA PutStreamType ==
    ASSUME TypeInv, NEW c \in Procs, PutStream(c)
    PROVE  TypeInv'
<1>1. call[c].pc \in Puts
  BY DEF PutStream, Puts
<1>2. /\ UNCHANGED <<live, tableMu, index, count, calls, last, sure, hazy>>
      /\ call' = [call EXCEPT ![c] = Idle]
      /\ parts' = [parts EXCEPT ![call[c].part].mu = Nobody]
  BY DEF PutStream
<1>3. /\ PartsGrow /\ parts' \in Seq(PartitionType) /\ Len(parts') \in Nat
  BY <1>1, <1>2, CallProps, LockType, TypesOf DEF TypeInv
<1>4. live' \in [PKs -> 0 .. Len(parts')] /\ LiveOK'
  BY <1>2, <1>3, LiveKept
<1>5. PICK k, v, old : k = call[c].todo[1].key /\ v = call[c].todo[1].to
                       /\ old = call[c].old
  OBVIOUS
<1>6. k \in Keys /\ v \in Values /\ old \in Values \cup {NoItem}
  BY <1>1, <1>5, CallProps DEF CallType
<1>7. records' \in Seq(RecordType)
  BY <1>5, <1>6, RecordAdded DEF PutStream, TypeInv
<1>8. Idle \in CallType(Len(parts')) /\ GoesOn(c, Idle)
  BY <1>3, IdleGoes
<1>9. /\ call' \in [Procs -> CallType(Len(parts'))]
      /\ CallOK(call[c])' /\ \A x \in Procs \ {c} : SameCall(x)
  BY <1>2, <1>3, <1>8, CallMoves
<1> QED
  BY <1>2, <1>3, <1>4, <1>7, <1>9, TypeInvFrom DEF TypeInv, TypeOK

LEMMA DeleteStreamType ==
    ASSUME TypeInv, NEW c \in Procs, DeleteStream(c)
    PROVE  TypeInv'
<1>1. call[c].pc \in Removals
  BY DEF DeleteStream, Removals
<1>2. /\ UNCHANGED <<parts, live, tableMu, index, count, calls, last, sure, hazy>>
      /\ call' = [call EXCEPT ![c] = Idle]
  BY DEF DeleteStream
<1>3. /\ PartsGrow /\ parts' \in Seq(PartitionType)
      /\ live' \in [PKs -> 0 .. Len(parts')] /\ LiveOK' /\ Len(parts') \in Nat
  BY <1>2, QuietStart
<1>4. PICK k, old : k = call[c].todo[1].key /\ old = call[c].old
  OBVIOUS
<1>5. k \in Keys /\ old \in Values \cup {NoItem}
  BY <1>1, <1>4, CallProps DEF CallType
<1>6. records' \in Seq(RecordType)
  BY <1>4, <1>5, RecordAdded DEF DeleteStream, TypeInv
<1>7. Idle \in CallType(Len(parts')) /\ GoesOn(c, Idle)
  BY <1>3, IdleGoes
<1>8. /\ call' \in [Procs -> CallType(Len(parts'))]
      /\ CallOK(call[c])' /\ \A x \in Procs \ {c} : SameCall(x)
  BY <1>2, <1>3, <1>7, CallMoves
<1> QED
  BY <1>2, <1>3, <1>6, <1>8, TypeInvFrom DEF TypeInv, TypeOK

(* The item is written and the partition's lock taken. *)
LEMMA LockedWrite ==
    ASSUME TypeInv, NEW c \in Procs, NEW p \in 1 .. Len(parts), NEW k \in Keys,
           NEW v \in Values \cup {NoItem}, NEW w, w = WriteItem(parts, c, p, k, v),
           parts' = [w EXCEPT ![p].mu = c]
    PROVE  /\ PartsGrow /\ Rewritten(parts', parts, p, k, v)
           /\ parts' \in Seq(PartitionType) /\ Len(parts') = Len(parts)
           /\ Len(parts') \in Nat /\ Len(parts') >= Len(parts)
           /\ parts'[p].mu = c
           /\ \A q \in 1 .. Len(parts) : parts'[q].raced = w[q].raced
<1> DEFINE new == [w[p] EXCEPT !.mu = c]
<1>1. /\ parts \in Seq(PartitionType) /\ Len(parts) \in Nat
      /\ Rewritten(w, parts, p, k, v)
  BY Rewrites, TypesOf DEF TypeInv
<1>2. w \in Seq(PartitionType) /\ Len(w) = Len(parts) /\ w[p] \in PartitionType
  BY <1>1 DEF Rewritten
<1>3. /\ new \in PartitionType /\ new.pk = w[p].pk /\ new.mu = c
      /\ new.items = w[p].items /\ new.raced = w[p].raced
  BY <1>2 DEF PartitionType
<1> HIDE DEF new
<1>4. parts' = [w EXCEPT ![p] = new]
  BY DEF new
<1>5. parts' \in Seq(PartitionType) /\ Len(parts') = Len(parts)
  BY <1>2, <1>3, <1>4
<1>6. \A q \in 1 .. Len(parts) : parts'[q] = IF q = p THEN new ELSE w[q]
  BY <1>2, <1>4
<1>7. Rewritten(parts', parts, p, k, v)
  BY <1>1, <1>3, <1>5, <1>6 DEF Rewritten
<1> QED
  BY <1>1, <1>3, <1>5, <1>6, <1>7 DEF PartsGrow, Rewritten

LEMMA DeleteWriteType ==
    ASSUME TypeInv, NEW c \in Procs, DeleteWrite(c)
    PROVE  TypeInv'
<1>1. PICK k, p, old : /\ k = call[c].todo[1].key /\ p = call[c].part
                       /\ old = parts[p].items[k]
  OBVIOUS
<1>2. call[c].pc \in Removals /\ Ahead(c, "uncount")
  BY DEF DeleteWrite, Removals, Ahead
<1>3. k \in Keys /\ p \in 1 .. Len(parts)
  BY <1>1, <1>2, CallProps
<1>4. old \in Values \cup {NoItem}
  BY <1>1, <1>3, ItemOf, TypesOf DEF TypeInv
<1>5. UNCHANGED <<live, tableMu, index, records, calls>>
  BY DEF DeleteWrite
<1>6. CASE /\ parts' = [WriteItem(parts, c, p, k, NoItem) EXCEPT ![p].mu = c]
           /\ count' = count - 1
           /\ call' = [call EXCEPT ![c].pc = "uncount", ![c].old = old]
           /\ Land(c, p, k, NoItem)
  <2>1. /\ PartsGrow /\ parts' \in Seq(PartitionType)
        /\ Len(parts') \in Nat /\ Len(parts') >= Len(parts)
    BY <1>3, <1>6, LockedWrite
  <2>2. PICK r : r = [call[c] EXCEPT !.pc = "uncount", !.old = old]
    OBVIOUS
  <2>3. call' = [call EXCEPT ![c] = r]
    BY <1>6, <2>2, TypesOf DEF TypeInv
  <2>4. r \in CallType(Len(parts')) /\ GoesOn(c, r)
    BY <1>2, <1>4, <2>1, <2>2, CallAtWith, Zenon
  <2>5. /\ call' \in [Procs -> CallType(Len(parts'))]
        /\ CallOK(call[c])' /\ \A x \in Procs \ {c} : SameCall(x)
    BY <2>1, <2>3, <2>4, CallMoves
  <2>6. /\ last' \in [Keys -> Values \cup {NoItem}]
        /\ sure' \subseteq Keys /\ hazy' \subseteq Keys
    BY <1>3, <1>6, LandType DEF TypeInv
  <2>7. live' \in [PKs -> 0 .. Len(parts')] /\ LiveOK'
    BY <1>5, <2>1, LiveKept
  <2>8. count' \in Int
    BY <1>6 DEF TypeInv, TypeOK
  <2>9. /\ index' \in [IndexKeys -> Item \cup {NoItem}] /\ records' \in Seq(RecordType)
        /\ tableMu' \in Procs \cup {Nobody} /\ calls' \in 0 .. MaxCalls
    BY <1>5, TypesOf DEF TypeInv, TypeOK
  <2> QED
    BY <2>1, <2>5, <2>6, <2>7, <2>8, <2>9, TypeInvFrom
<1>7. CASE call' = [call EXCEPT ![c] = Idle] /\ UNCHANGED <<parts, count, last, sure, hazy>>
  <2>1. /\ PartsGrow /\ parts' \in Seq(PartitionType)
        /\ live' \in [PKs -> 0 .. Len(parts')] /\ LiveOK' /\ Len(parts') \in Nat
    BY <1>5, <1>7, QuietStart
  <2>2. Idle \in CallType(Len(parts')) /\ GoesOn(c, Idle)
    BY <2>1, IdleGoes
  <2>3. /\ call' \in [Procs -> CallType(Len(parts'))]
        /\ CallOK(call[c])' /\ \A x \in Procs \ {c} : SameCall(x)
    BY <1>7, <2>1, <2>2, CallMoves
  <2> QED
    BY <1>5, <1>7, <2>1, <2>3, TypeInvFrom, TypesOf DEF TypeInv, TypeOK
<1> QED
  BY <1>1, <1>6, <1>7, Zenon DEF DeleteWrite

LEMMA DeleteCountType ==
    ASSUME TypeInv, NEW c \in Procs, DeleteCount(c)
    PROVE  TypeInv'
<1>1. call[c].pc \in Removals /\ Ahead(c, "drop")
  BY DEF DeleteCount, Removals, Ahead
<1>2. /\ UNCHANGED <<live, tableMu, index, count, records, calls, last, sure, hazy>>
      /\ call' = [call EXCEPT ![c] = [call[c] EXCEPT !.pc = "drop"]]
      /\ parts' = [parts EXCEPT ![call[c].part].mu = Nobody]
  BY TypesOf DEF DeleteCount, TypeInv
<1>3. /\ PartsGrow /\ parts' \in Seq(PartitionType)
      /\ Len(parts') \in Nat /\ Len(parts') >= Len(parts)
  <2>1. PICK p, m : p = call[c].part /\ m = Nobody
    OBVIOUS
  <2>2. p \in 1 .. Len(parts) /\ m \in Procs \cup {Nobody} /\ Len(parts) \in Nat
        /\ parts' = [parts EXCEPT ![p].mu = m]
    BY <1>1, <1>2, <2>1, CallProps, TypesOf DEF TypeInv
  <2>3. PartsGrow /\ parts' \in Seq(PartitionType) /\ Len(parts') = Len(parts)
    BY <2>2, LockType
  <2> QED
    BY <2>2, <2>3
<1>4. live' \in [PKs -> 0 .. Len(parts')] /\ LiveOK'
  BY <1>2, <1>3, LiveKept
<1>5. PICK r : r = [call[c] EXCEPT !.pc = "drop"]
  OBVIOUS
<1>6. r \in CallType(Len(parts')) /\ GoesOn(c, r)
  BY <1>1, <1>3, <1>5, CallAt
<1>7. /\ call' \in [Procs -> CallType(Len(parts'))]
      /\ CallOK(call[c])' /\ \A x \in Procs \ {c} : SameCall(x)
  BY <1>2, <1>3, <1>5, <1>6, CallMoves
<1> QED
  BY <1>2, <1>3, <1>4, <1>7, TypeInvFrom, TypesOf DEF TypeInv, TypeOK

(* The map after a partition may have been dropped. *)
LEMMA LiveDropped ==
    ASSUME TypeInv, PartsGrow, parts' \in Seq(PartitionType), NEW pk \in PKs,
           live' = live \/ live' = [live EXCEPT ![pk] = 0]
    PROVE  live' \in [PKs -> 0 .. Len(parts')] /\ LiveOK'
<1>1. Len(parts') \in Nat
  OBVIOUS
<1>2. CASE live' = live
  BY <1>2, LiveKept
<1>3. CASE live' = [live EXCEPT ![pk] = 0]
  <2>1. PICK p \in 0 .. Len(parts') : p = 0
    BY <1>1
  <2>2. (p # 0 => parts'[p].pk = pk) /\ live' = [live EXCEPT ![pk] = p]
    BY <1>3, <2>1
  <2> QED
    BY <2>2, LiveSet
<1> QED
  BY <1>2, <1>3

(* What becomes of the partitions when p is dropped if it reads as empty.  *)
LEMMA DropType ==
    ASSUME TypeInv, NEW c \in Procs, NEW p \in 1 .. Len(parts), NEW pk \in PKs,
           DropIfEmpty(c, p, pk)
    PROVE  /\ PartsGrow /\ parts' \in Seq(PartitionType)
           /\ Len(parts') = Len(parts) /\ Len(parts') \in Nat
           /\ \A q \in 1 .. Len(parts) :
                 /\ parts'[q].pk = parts[q].pk /\ parts'[q].items = parts[q].items
                 /\ parts'[q].mu = parts[q].mu
                 /\ parts'[q].raced = (parts[q].raced \/ (q = p /\ Races(c, p)))
           /\ live' = live \/ live' = [live EXCEPT ![pk] = 0]
           /\ live' \in [PKs -> 0 .. Len(parts')] /\ LiveOK'
           /\ hazy' = hazy \cup RacedKeys(parts', p) /\ hazy' \subseteq Keys
<1> DEFINE new == [parts[p] EXCEPT !.raced = @ \/ Races(c, p)]
<1>1. parts \in Seq(PartitionType) /\ Len(parts) \in Nat /\ parts[p] \in PartitionType
  BY TypesOf DEF TypeInv
<1>2. Races(c, p) \in BOOLEAN
  BY DEF Races
<1>3. /\ new \in PartitionType /\ new.pk = parts[p].pk /\ new.mu = parts[p].mu
      /\ new.items = parts[p].items
      /\ new.raced = (parts[p].raced \/ Races(c, p))
  BY <1>1, <1>2 DEF PartitionType
<1> HIDE DEF new
<1>4. parts' = [parts EXCEPT ![p] = new]
  BY DEF DropIfEmpty, new
<1>5. parts' \in Seq(PartitionType) /\ Len(parts') = Len(parts)
  BY <1>1, <1>3, <1>4
<1>6. \A q \in 1 .. Len(parts) : parts'[q] = IF q = p THEN new ELSE parts[q]
  BY <1>1, <1>4
<1>7. ASSUME NEW q \in 1 .. Len(parts)
      PROVE  /\ parts'[q].pk = parts[q].pk /\ parts'[q].items = parts[q].items
             /\ parts'[q].mu = parts[q].mu
             /\ parts'[q].raced = (parts[q].raced \/ (q = p /\ Races(c, p)))
  <2>1. parts[q] \in PartitionType
    BY <1>1
  <2>2. parts[q].raced \in BOOLEAN
    BY <2>1 DEF PartitionType
  <2> QED
    BY <1>3, <1>6, <2>2
<1>8. PartsGrow
  BY <1>1, <1>5, <1>7 DEF PartsGrow
<1>9. live' = live \/ live' = [live EXCEPT ![pk] = 0]
  BY DEF DropIfEmpty
<1>10. live' \in [PKs -> 0 .. Len(parts')] /\ LiveOK'
  BY <1>5, <1>8, <1>9, LiveDropped
<1>11. hazy' = hazy \cup RacedKeys(parts', p) /\ hazy' \subseteq Keys
  BY DEF DropIfEmpty, RacedKeys, TypeInv, TypeOK
<1> QED
  BY <1>1, <1>5, <1>7, <1>8, <1>9, <1>10, <1>11

LEMMA DeleteDropType ==
    ASSUME TypeInv, NEW c \in Procs, DeleteDrop(c)
    PROVE  TypeInv'
<1>1. call[c].pc \in Removals /\ Ahead(c, "log")
  BY DEF DeleteDrop, Removals, Ahead
<1>2. /\ UNCHANGED <<tableMu, count, records, calls, last, sure>>
      /\ call' = [call EXCEPT ![c] = [call[c] EXCEPT !.pc = "log"]]
  BY TypesOf DEF DeleteDrop, TypeInv
<1>3. PICK k, old : k = call[c].todo[1].key /\ old = call[c].old
  OBVIOUS
<1>4. k \in Keys /\ PartOf[k] \in PKs /\ old \in Values \cup {NoItem}
      /\ call[c].part \in 1 .. Len(parts)
  BY <1>1, <1>3, CallProps DEF CallType
<1>5. DropIfEmpty(c, call[c].part, PartOf[k])
  BY <1>3 DEF DeleteDrop
<1>6. /\ PartsGrow /\ parts' \in Seq(PartitionType)
      /\ Len(parts') \in Nat /\ Len(parts') >= Len(parts)
      /\ live' \in [PKs -> 0 .. Len(parts')] /\ LiveOK' /\ hazy' \subseteq Keys
  BY <1>4, <1>5, DropType
<1>7. index' \in [IndexKeys -> Item \cup {NoItem}]
  BY <1>3, <1>4, IndexType DEF DeleteDrop, TypeInv, TypeOK
<1>8. PICK r : r = [call[c] EXCEPT !.pc = "log"]
  OBVIOUS
<1>9. r \in CallType(Len(parts')) /\ GoesOn(c, r)
  BY <1>1, <1>6, <1>8, CallAt
<1>10. /\ call' \in [Procs -> CallType(Len(parts'))]
       /\ CallOK(call[c])' /\ \A x \in Procs \ {c} : SameCall(x)
  BY <1>2, <1>6, <1>8, <1>9, CallMoves
<1> QED
  BY <1>2, <1>6, <1>7, <1>10, TypeInvFrom, TypesOf DEF TypeInv, TypeOK

(* Looking a partition up, or making it, and writing in it. *)
LEMMA FindAndWrite ==
    ASSUME TypeInv, NEW c, NEW k \in Keys, NEW v \in Values \cup {NoItem},
           NEW f, f = GetOrCreate(PartOf[k]),
           parts' = WriteItem(f.all, c, f.id, k, v),
           live' = [live EXCEPT ![PartOf[k]] = f.id]
    PROVE  /\ PartsGrow /\ parts' \in Seq(PartitionType) /\ Len(parts') \in Nat
           /\ live' \in [PKs -> 0 .. Len(parts')] /\ LiveOK'
           /\ f.all[f.id].items[k] \in Values \cup {NoItem}
<1>1. PartOf[k] \in PKs
  BY DynamoParametersAssumption
<1>2. PICK all, p : all = f.all /\ p = f.id
  OBVIOUS
<1>3. /\ all \in Seq(PartitionType) /\ p \in 1 .. Len(all) /\ all[p].pk = PartOf[k]
      /\ Len(parts) \in Nat /\ Len(all) >= Len(parts)
      /\ \A q \in 1 .. Len(parts) : all[q] = parts[q]
  BY <1>1, <1>2, Found DEF TypeInv
<1>4. /\ PartsGrow /\ parts' \in Seq(PartitionType)
      /\ Len(parts') = Len(all) /\ Len(parts') \in Nat
  BY <1>2, <1>3, WriteGrows
<1>5. Rewritten(parts', all, p, k, v)
  BY <1>2, <1>3, Rewrites
<1>6. p \in 0 .. Len(parts') /\ p \in 1 .. Len(parts') /\ parts'[p].pk = PartOf[k]
  BY <1>3, <1>4, <1>5 DEF Rewritten
<1>7. PICK pk : pk = PartOf[k]
  OBVIOUS
<1>8. pk \in PKs /\ parts'[p].pk = pk /\ live' = [live EXCEPT ![pk] = p]
  BY <1>1, <1>2, <1>6, <1>7
<1>9. live' \in [PKs -> 0 .. Len(parts')] /\ LiveOK'
  BY <1>4, <1>6, <1>8, LiveSet
<1> QED
  BY <1>2, <1>3, <1>4, <1>6, <1>9, ItemOf

(* And which partition it is. *)
LEMMA FoundPlace ==
    ASSUME TypeInv, NEW c, NEW k \in Keys, NEW v \in Values \cup {NoItem},
           NEW f, f = GetOrCreate(PartOf[k]),
           parts' = WriteItem(f.all, c, f.id, k, v)
    PROVE  f.id \in 1 .. Len(parts') /\ parts'[f.id].pk = PartOf[k]
<1>1. PartOf[k] \in PKs
  BY DynamoParametersAssumption
<1>2. PICK all, p : all = f.all /\ p = f.id
  OBVIOUS
<1>3. all \in Seq(PartitionType) /\ p \in 1 .. Len(all) /\ all[p].pk = PartOf[k]
  BY <1>1, <1>2, Found DEF TypeInv
<1>4. Rewritten(parts', all, p, k, v)
  BY <1>2, <1>3, Rewrites
<1>5. Len(parts') = Len(all)
  BY <1>3, <1>4 DEF Rewritten
<1> QED
  BY <1>2, <1>3, <1>4, <1>5 DEF Rewritten

(* The next write of a transaction, or its return. *)
LEMMA DoneType ==
    ASSUME TypeInv, PartsGrow, parts' \in Seq(PartitionType), NEW c \in Procs,
           call[c].pc \in Tabled, Done(c)
    PROVE  /\ call' \in [Procs -> CallType(Len(parts'))]
           /\ CallOK(call[c])' /\ \A x \in Procs \ {c} : SameCall(x)
           /\ tableMu' \in Procs \cup {Nobody}
           /\ \/ call'[c] = Idle
              \/ /\ call'[c].pc = "tx" /\ call'[c].todo = Tail(call[c].todo)
                 /\ call'[c].calm = call[c].calm
<1>1. PICK rest : rest = Tail(call[c].todo)
  OBVIOUS
<1>2. /\ call \in [Procs -> CallType(Len(parts))]
      /\ Len(parts) \in Nat /\ Len(parts') \in Nat /\ Len(parts') >= Len(parts)
  BY TypesOf DEF TypeInv, PartsGrow
<1>3. \A x \in Procs : call[x] \in CallType(Len(parts'))
  BY <1>2 DEF CallType
<1>4. rest \in Seq(Write)
  <2>1. call[c].todo \in Seq(Write) /\ call[c].todo # <<>>
    BY <1>3 DEF CallType, TypeInv, CallOK
  <2> QED
    BY <1>1, <2>1, RestOf
<1>5. PICK next : next = [call[c] EXCEPT !.pc = "tx", !.todo = rest,
                                         !.part = 0, !.old = NoItem]
  OBVIOUS
<1>6. /\ next \in CallType(Len(parts')) /\ next.pc = "tx" /\ next.todo = rest
      /\ next.calm = call[c].calm
  <2>1. /\ call[c] \in CallType(Len(parts')) /\ 0 \in 0 .. Len(parts')
        /\ "tx" \in Tabled
    BY <1>2, <1>3 DEF Tabled
  <2> QED
    BY <1>4, <1>5, <2>1 DEF CallType
<1>7. Idle \in CallType(Len(parts')) /\ Idle.pc = "idle" /\ Idle.todo = <<>>
  BY <1>2, IdleType
<1>8. call' = [call EXCEPT ![c] = IF rest = <<>> THEN Idle ELSE next]
  BY <1>1, <1>2, <1>5 DEF Done
<1>9. /\ call' \in [Procs -> CallType(Len(parts'))]
      /\ call'[c] = IF rest = <<>> THEN Idle ELSE next
      /\ \A x \in Procs \ {c} : call'[x] = call[x]
  BY <1>2, <1>3, <1>6, <1>7, <1>8
<1>10. CallOK(call[c])'
  BY <1>6, <1>7, <1>9 DEF CallOK, Puts, Removals, Tabled
<1>11. tableMu' \in Procs \cup {Nobody}
  BY DEF Done
<1> QED
  BY <1>1, <1>6, <1>9, <1>10, <1>11 DEF SameCall

(* A call that keeps the table's lock and its write moves on. *)
LEMMA TabledMoves ==
    ASSUME TypeInv, PartsGrow, parts' \in Seq(PartitionType), NEW c \in Procs,
           call[c].pc \in Tabled, NEW r \in CallType(Len(parts')),
           call' = [call EXCEPT ![c] = r], r.todo = call[c].todo,
           r.pc \in {"update", "tally"},
           r.pc = "update" => r.todo[1].to # NoItem,
           r.pc = "tally" => /\ r.part \in 1 .. Len(parts')
                             /\ parts'[r.part].pk = PartOf[r.todo[1].key]
    PROVE  /\ call' \in [Procs -> CallType(Len(parts'))]
           /\ CallOK(call[c])' /\ \A x \in Procs \ {c} : SameCall(x)
<1>1. /\ call \in [Procs -> CallType(Len(parts))]
      /\ Len(parts) \in Nat /\ Len(parts') \in Nat
  BY TypesOf DEF TypeInv
<1>2. \A x \in Procs : call[x] \in CallType(Len(parts'))
  BY <1>1 DEF CallType, PartsGrow
<1>3. call' \in [Procs -> CallType(Len(parts'))] /\ call'[c] = r
  BY <1>1, <1>2
<1>4. \A x \in Procs \ {c} : SameCall(x)
  BY <1>1 DEF SameCall
<1>5. call[c].todo # <<>>
  BY DEF TypeInv, CallOK
<1>6. CallOK(call[c])'
  BY <1>3, <1>5 DEF CallOK, Puts, Removals, Tabled
<1> QED
  BY <1>3, <1>4, <1>6

(* The item of a call that keeps the table's lock is written. *)
LEMMA WrittenType ==
    ASSUME TypeInv, PartsGrow, parts' \in Seq(PartitionType), NEW c \in Procs,
           call[c].pc \in Tabled, NEW p, NEW recounts \in BOOLEAN,
           recounts => /\ p \in 1 .. Len(parts')
                       /\ parts'[p].pk = PartOf[call[c].todo[1].key],
           Written(c, p, recounts)
    PROVE  /\ call' \in [Procs -> CallType(Len(parts'))]
           /\ CallOK(call[c])' /\ \A x \in Procs \ {c} : SameCall(x)
           /\ tableMu' \in Procs \cup {Nobody}
<1>1. CASE ~recounts
  BY <1>1, DoneType DEF Written
<1>2. CASE recounts
  <2>1. PICK r : r = [call[c] EXCEPT !.pc = "tally", !.part = p]
    OBVIOUS
  <2>2. /\ call \in [Procs -> CallType(Len(parts))] /\ call[c] \in CallType(Len(parts))
        /\ Len(parts) \in Nat /\ Len(parts') \in Nat
    BY TypesOf DEF TypeInv
  <2>3. /\ r \in CallType(Len(parts')) /\ r.pc = "tally" /\ r.part = p
        /\ r.todo = call[c].todo
    <3>1. p \in 0 .. Len(parts')
      BY <1>2, <2>2
    <3>2. call[c] \in CallType(Len(parts'))
      BY <2>2 DEF CallType, PartsGrow
    <3>3. r \in CallType(Len(parts'))
      BY <2>1, <3>1, <3>2 DEF CallType
    <3> QED
      BY <2>1, <2>2, <3>3 DEF CallType
  <2>4. call' = [call EXCEPT ![c] = r] /\ tableMu' = tableMu
    BY <1>2, <2>1, <2>2 DEF Written
  <2>5. /\ call' \in [Procs -> CallType(Len(parts'))]
        /\ CallOK(call[c])' /\ \A x \in Procs \ {c} : SameCall(x)
    BY <1>2, <2>3, <2>4, TabledMoves
  <2> QED
    BY <2>4, <2>5 DEF TypeInv, TypeOK
<1> QED
  BY <1>1, <1>2

LEMMA TxNext ==
    ASSUME TypeInv, NEW c \in Procs, call[c].pc \in Tabled
    PROVE  Head(call[c].todo) \in Write /\ Head(call[c].todo) = call[c].todo[1]
BY CallProps

LEMMA ReadInTableType ==
    ASSUME TypeInv, NEW c \in Procs, ReadInTable(c)
    PROVE  TypeInv'
<1>1. PICK w : w = Head(call[c].todo)
  OBVIOUS
<1>2. call[c].pc \in Tabled /\ w.update
  BY <1>1 DEF ReadInTable, Tabled
<1>3. w \in Write /\ w = call[c].todo[1] /\ w.key \in Keys /\ w.to # NoItem
  BY <1>1, <1>2, TxNext, WriteIs
<1>4. PICK old \in Values \cup {NoItem} : old = GetItem(w.key)
  BY <1>3, GetItemType DEF TypeInv
<1>5. /\ UNCHANGED <<parts, live, tableMu, index, count, records, calls,
                     last, sure, hazy>>
      /\ call' = [call EXCEPT ![c] = [call[c] EXCEPT !.pc = "update", !.old = old]]
  BY <1>1, <1>4, TypesOf DEF ReadInTable, TypeInv
<1>6. /\ PartsGrow /\ parts' \in Seq(PartitionType)
      /\ live' \in [PKs -> 0 .. Len(parts')] /\ LiveOK' /\ Len(parts') \in Nat
  BY <1>5, QuietStart
<1>7. PICK r : r = [call[c] EXCEPT !.pc = "update", !.old = old]
  OBVIOUS
<1>8. r \in CallType(Len(parts')) /\ r.pc = "update" /\ r.todo = call[c].todo
  BY <1>5, <1>7, TypesOf DEF TypeInv, CallType
<1>9. /\ call' \in [Procs -> CallType(Len(parts'))]
      /\ CallOK(call[c])' /\ \A x \in Procs \ {c} : SameCall(x)
  BY <1>2, <1>3, <1>5, <1>6, <1>7, <1>8, TabledMoves
<1> QED
  BY <1>5, <1>6, <1>9, TypeInvFrom, TypesOf DEF TypeInv, TypeOK

LEMMA CountInTableType ==
    ASSUME TypeInv, NEW c \in Procs, CountInTable(c)
    PROVE  TypeInv'
<1>1. PICK w, p : w = Head(call[c].todo) /\ p = call[c].part
  OBVIOUS
<1>2. call[c].pc \in Tabled /\ call[c].pc = "tally"
  BY DEF CountInTable, Tabled
<1>3. /\ PartOf[w.key] \in PKs /\ p \in 1 .. Len(parts)
  BY <1>1, <1>2, CallProps
<1>4. /\ Done(c) /\ UNCHANGED <<index, count, records, calls, last, sure>>
      /\ \/ DropIfEmpty(c, p, PartOf[w.key])
         \/ UNCHANGED <<parts, live, hazy>>
  BY <1>1 DEF CountInTable
<1>5. /\ PartsGrow /\ parts' \in Seq(PartitionType)
      /\ live' \in [PKs -> 0 .. Len(parts')] /\ LiveOK' /\ hazy' \subseteq Keys
  BY <1>3, <1>4, DropType, QuietStart DEF TypeInv, TypeOK
<1>6. /\ call' \in [Procs -> CallType(Len(parts'))]
      /\ CallOK(call[c])' /\ \A x \in Procs \ {c} : SameCall(x)
      /\ tableMu' \in Procs \cup {Nobody}
  BY <1>2, <1>4, <1>5, DoneType
<1> QED
  BY <1>4, <1>5, <1>6, TypeInvFrom, TypesOf DEF TypeInv, TypeOK

LEMMA UpdateWriteType ==
    ASSUME TypeInv, NEW c \in Procs, UpdateWrite(c)
    PROVE  TypeInv'
<1>1. PICK k, v, old, f, replaced :
         /\ k = Head(call[c].todo).key /\ v = Head(call[c].todo).to
         /\ old = call[c].old /\ f = GetOrCreate(PartOf[k])
         /\ replaced = f.all[f.id].items[k]
  BY Zenon
<1>2. call[c].pc = "update" /\ call[c].pc \in Tabled
  BY Zenon DEF UpdateWrite, Tabled
<1>3. k \in Keys /\ v \in Values /\ old \in Values \cup {NoItem}
      /\ k = call[c].todo[1].key
  BY <1>1, <1>2, CallProps, Zenon DEF CallType
<1>4. /\ parts' = WriteItem(f.all, c, f.id, k, v)
      /\ live' = [live EXCEPT ![PartOf[k]] = f.id]
      /\ count' = count + (IF replaced = NoItem THEN 1 ELSE 0)
      /\ index' = IndexItem(DeindexItem(index, k, old), k, v)
      /\ records' = Append(records, Record(k, old, v))
      /\ Written(c, f.id, replaced = NoItem)
      /\ Land(c, f.id, k, v) /\ calls' = calls
  BY <1>1, Zenon DEF UpdateWrite
<1>5. /\ PartsGrow /\ parts' \in Seq(PartitionType) /\ Len(parts') \in Nat
      /\ live' \in [PKs -> 0 .. Len(parts')] /\ LiveOK'
      /\ f.id \in 1 .. Len(parts') /\ parts'[f.id].pk = PartOf[k]
  <2>1. v \in Values \cup {NoItem}
    BY <1>3
  <2>2. f = GetOrCreate(PartOf[k]) /\ k \in Keys
    BY <1>1, <1>3, Zenon
  <2>3. f.id \in 1 .. Len(parts') /\ parts'[f.id].pk = PartOf[k]
    BY <1>4, <2>1, <2>2, FoundPlace, Zenon
  <2> QED
    BY <1>1, <1>4, <2>1, <2>2, <2>3, FindAndWrite, Zenon
<1>6. /\ index' \in [IndexKeys -> Item \cup {NoItem}] /\ records' \in Seq(RecordType)
  BY <1>3, <1>4, IndexReplaced, RecordAdded DEF TypeInv
<1>7. /\ call' \in [Procs -> CallType(Len(parts'))]
      /\ CallOK(call[c])' /\ \A x \in Procs \ {c} : SameCall(x)
      /\ tableMu' \in Procs \cup {Nobody}
  BY <1>2, <1>3, <1>4, <1>5, WrittenType, Zenon
<1>8. /\ last' \in [Keys -> Values \cup {NoItem}]
      /\ sure' \subseteq Keys /\ hazy' \subseteq Keys
  BY <1>3, <1>4, LandType DEF TypeInv
<1>9. count' \in Int /\ calls' \in 0 .. MaxCalls
  BY <1>4 DEF TypeInv, TypeOK
<1> QED
  BY <1>5, <1>6, <1>7, <1>8, <1>9, TypeInvFrom

LEMMA PutInTableType ==
    ASSUME TypeInv, NEW c \in Procs, PutInTable(c)
    PROVE  TypeInv'
<1>1. PICK w, f, k, v, old :
         /\ w = Head(call[c].todo) /\ k = w.key /\ v = w.to
         /\ f = GetOrCreate(PartOf[k]) /\ old = f.all[f.id].items[k]
  OBVIOUS
<1>2. call[c].pc \in Tabled /\ v # NoItem /\ calls' = calls
      /\ Written(c, f.id, old = NoItem)
  BY <1>1, Zenon DEF PutInTable, Tabled
<1>3. k \in Keys /\ v \in Values /\ k = call[c].todo[1].key
  BY <1>1, <1>2, TxNext, WriteIs, Zenon
<1>4. /\ parts' = WriteItem(f.all, c, f.id, k, v)
      /\ live' = [live EXCEPT ![PartOf[k]] = f.id]
      /\ count' = count + (IF old = NoItem THEN 1 ELSE 0)
      /\ index' = IndexItem(DeindexItem(index, k, old), k, v)
      /\ records' = Append(records, Record(k, old, v))
      /\ Land(c, f.id, k, v)
  BY <1>1, Zenon DEF PutInTable
<1>5. /\ PartsGrow /\ parts' \in Seq(PartitionType) /\ Len(parts') \in Nat
      /\ live' \in [PKs -> 0 .. Len(parts')] /\ LiveOK'
      /\ old \in Values \cup {NoItem}
      /\ f.id \in 1 .. Len(parts') /\ parts'[f.id].pk = PartOf[k]
  <2>1. v \in Values \cup {NoItem}
    BY <1>3
  <2>2. f = GetOrCreate(PartOf[k]) /\ k \in Keys
    BY <1>1, <1>3, Zenon
  <2>3. f.id \in 1 .. Len(parts') /\ parts'[f.id].pk = PartOf[k]
    BY <1>4, <2>1, <2>2, FoundPlace, Zenon
  <2> QED
    BY <1>1, <1>4, <2>1, <2>2, <2>3, FindAndWrite, Zenon
<1>6. /\ index' \in [IndexKeys -> Item \cup {NoItem}] /\ records' \in Seq(RecordType)
  BY <1>3, <1>4, <1>5, IndexReplaced, RecordAdded, Zenon DEF TypeInv
<1>7. /\ call' \in [Procs -> CallType(Len(parts'))]
      /\ CallOK(call[c])' /\ \A x \in Procs \ {c} : SameCall(x)
      /\ tableMu' \in Procs \cup {Nobody}
  BY <1>2, <1>3, <1>5, WrittenType
<1>8. /\ last' \in [Keys -> Values \cup {NoItem}]
      /\ sure' \subseteq Keys /\ hazy' \subseteq Keys
  BY <1>3, <1>4, LandType DEF TypeInv
<1>9. count' \in Int /\ calls' \in 0 .. MaxCalls
  BY <1>2, <1>4 DEF TypeInv, TypeOK
<1> QED
  BY <1>5, <1>6, <1>7, <1>8, <1>9, TypeInvFrom

LEMMA DeleteFromTableType ==
    ASSUME TypeInv, NEW c \in Procs, DeleteFromTable(c)
    PROVE  TypeInv'
<1>1. PICK w, k, p, old :
         /\ w = Head(call[c].todo) /\ k = w.key
         /\ p = live[PartOf[k]] /\ old = GetItem(k)
  OBVIOUS
<1>2. call[c].pc \in Tabled /\ UNCHANGED <<live, calls>>
      /\ Written(c, p, old # NoItem)
  BY <1>1, Zenon DEF DeleteFromTable, Tabled
<1>3. k \in Keys /\ PartOf[k] \in PKs /\ k = call[c].todo[1].key
  BY <1>1, <1>2, TxNext, WriteIs
<1>4. old \in Values \cup {NoItem}
  BY <1>1, <1>3, GetItemType DEF TypeInv
<1>5. p # 0 => p \in 1 .. Len(parts)
  BY <1>1, <1>3, TypesOf DEF TypeInv, TypeOK
<1>6. parts \in Seq(PartitionType) /\ Len(parts) \in Nat
  BY TypesOf DEF TypeInv
<1>7. CASE old # NoItem
  <2>1. p \in 1 .. Len(parts)
    BY <1>1, <1>5, <1>7, Zenon DEF GetItem
  <2>2. /\ parts' = WriteItem(parts, c, p, k, NoItem)
        /\ count' = count - 1
        /\ index' = DeindexItem(index, k, old)
        /\ records' = Append(records, Record(k, old, NoItem))
        /\ Land(c, p, k, NoItem)
    BY <1>1, <1>7, Zenon DEF DeleteFromTable
  <2>3. /\ PartsGrow /\ parts' \in Seq(PartitionType)
        /\ p \in 1 .. Len(parts') /\ parts'[p].pk = PartOf[k]
    <3>1. parts[p].pk = PartOf[k]
      BY <1>1, <1>3, <2>1, <1>6 DEF TypeInv, LiveOK
    <3>2. PartsGrow /\ parts' \in Seq(PartitionType) /\ Len(parts') = Len(parts)
      BY <1>3, <1>6, <2>1, <2>2, WriteGrows
    <3> QED
      BY <2>1, <3>1, <3>2 DEF PartsGrow
  <2>4. live' \in [PKs -> 0 .. Len(parts')] /\ LiveOK'
    BY <1>2, <2>3, LiveKept
  <2>5. index' \in [IndexKeys -> Item \cup {NoItem}] /\ records' \in Seq(RecordType)
    BY <1>3, <1>4, <2>2, IndexType, RecordAdded DEF TypeInv, TypeOK
  <2>6. /\ call' \in [Procs -> CallType(Len(parts'))]
        /\ CallOK(call[c])' /\ \A x \in Procs \ {c} : SameCall(x)
        /\ tableMu' \in Procs \cup {Nobody}
    BY <1>2, <1>3, <2>3, WrittenType
  <2>7. /\ last' \in [Keys -> Values \cup {NoItem}]
        /\ sure' \subseteq Keys /\ hazy' \subseteq Keys
    BY <1>3, <2>2, LandType DEF TypeInv
  <2>8. count' \in Int /\ calls' \in 0 .. MaxCalls
    BY <1>2, <2>2 DEF TypeInv, TypeOK
  <2> QED
    BY <2>3, <2>4, <2>5, <2>6, <2>7, <2>8, TypeInvFrom
<1>8. CASE old = NoItem
  <2>1. UNCHANGED <<parts, live, index, count, records, last, sure, hazy>>
    BY <1>1, <1>2, <1>8, Zenon DEF DeleteFromTable
  <2>2. /\ PartsGrow /\ parts' \in Seq(PartitionType)
        /\ live' \in [PKs -> 0 .. Len(parts')] /\ LiveOK'
    BY <2>1, QuietStart
  <2>3. /\ call' \in [Procs -> CallType(Len(parts'))]
        /\ CallOK(call[c])' /\ \A x \in Procs \ {c} : SameCall(x)
        /\ tableMu' \in Procs \cup {Nobody}
    BY <1>2, <1>8, <2>2, WrittenType
  <2> QED
    BY <1>2, <2>1, <2>2, <2>3, TypeInvFrom, TypesOf DEF TypeInv, TypeOK
<1> QED
  BY <1>7, <1>8

-----------------------------------------------------------------------------
(* The first state.                                                        *)

(* The partition a load leaves. *)
FirstPartition(t) ==
    [EmptyPartition(PartOf[t[1].key]) EXCEPT
        !.items = [k \in Keys |-> Loaded(t, k)]]

LEMMA LoadType ==
    ASSUME NEW t \in Loads
    PROVE  /\ t \in Seq(Item) /\ Len(t) \in Nat /\ DOMAIN t = 1 .. Len(t)
           /\ \A i \in DOMAIN t : /\ t[i] \in Item /\ t[i].key \in Keys
                                  /\ t[i].val \in Values /\ PartOf[t[i].key] \in PKs
           /\ t # <<>> => 1 \in DOMAIN t
           /\ \A k \in Keys : Loaded(t, k) \in Values \cup {NoItem}
<1>1. t \in Seq(Item)
  BY DynamoParametersAssumption DEF IsLoad
<1>2. Len(t) \in Nat /\ DOMAIN t = 1 .. Len(t) /\ (t # <<>> => 1 \in DOMAIN t)
  BY <1>1
<1>3. \A i \in DOMAIN t : t[i] \in Item
  BY <1>1
<1>4. \A i \in DOMAIN t : t[i].key \in Keys /\ t[i].val \in Values
                          /\ PartOf[t[i].key] \in PKs
  BY <1>3, DynamoParametersAssumption DEF Item
<1>5. ASSUME NEW k \in Keys
      PROVE  Loaded(t, k) \in Values \cup {NoItem}
  <2>1. CASE \E i \in DOMAIN t : t[i].key = k
    <3>1. PICK i \in DOMAIN t : i = CHOOSE j \in DOMAIN t : t[j].key = k
      BY <2>1
    <3>2. Loaded(t, k) = t[i].val
      BY <2>1, <3>1 DEF Loaded
    <3> QED
      BY <1>4, <3>2
  <2>2. CASE ~ \E i \in DOMAIN t : t[i].key = k
    BY <2>2 DEF Loaded
  <2> QED
    BY <2>1, <2>2
<1> QED
  BY <1>1, <1>2, <1>3, <1>4, <1>5

LEMMA FirstPartitionType ==
    ASSUME NEW t \in Loads, t # <<>>
    PROVE  /\ FirstPartition(t) \in PartitionType
           /\ FirstPartition(t).pk = PartOf[t[1].key]
           /\ FirstPartition(t).mu = Nobody /\ FirstPartition(t).raced = FALSE
           /\ \A k \in Keys : FirstPartition(t).items[k] = Loaded(t, k)
<1>1. PICK pk, its : pk = PartOf[t[1].key] /\ its = [k \in Keys |-> Loaded(t, k)]
  OBVIOUS
<1>2. pk \in PKs /\ its \in [Keys -> Values \cup {NoItem}]
      /\ \A k \in Keys : its[k] = Loaded(t, k)
  BY <1>1, LoadType
<1>3. PICK e : e = EmptyPartition(pk)
  OBVIOUS
<1>4. e \in PartitionType /\ e.pk = pk /\ e.mu = Nobody /\ e.raced = FALSE
  BY <1>2, <1>3 DEF EmptyPartition, PartitionType
<1>5. FirstPartition(t) = [e EXCEPT !.items = its]
  BY <1>1, <1>3 DEF FirstPartition
<1> QED
  BY <1>1, <1>2, <1>4, <1>5 DEF PartitionType

LEMMA InitType ==
    ASSUME Init
    PROVE  TypeInv
<1>1. PICK t \in Loads :
        /\ parts = IF t = <<>> THEN <<>> ELSE <<FirstPartition(t)>>
        /\ live = [pk \in PKs |-> IF t # <<>> /\ pk = PartOf[t[1].key]
                                  THEN 1 ELSE 0]
        /\ tableMu = Nobody
        /\ index = [i \in IndexKeys |->
                      IF \E j \in DOMAIN t : IndexKeyOf(t[j]) = i
                      THEN t[CHOOSE j \in DOMAIN t : IndexKeyOf(t[j]) = i]
                      ELSE NoItem]
        /\ count = Len(t)
        /\ records = [i \in DOMAIN t |-> Record(t[i].key, NoItem, t[i].val)]
        /\ call = [c \in Procs |-> Idle]
        /\ calls = 0
        /\ last = [k \in Keys |-> Loaded(t, k)]
        /\ sure = Keys
        /\ hazy = {}
  BY DEF Init, FirstPartition
<1>2. /\ parts \in Seq(PartitionType) /\ Len(parts) \in Nat
      /\ t # <<>> => Len(parts) = 1 /\ parts[1].pk = PartOf[t[1].key]
  <2>1. CASE t = <<>>
    BY <1>1, <2>1
  <2>2. CASE t # <<>>
    <3>1. PICK p \in PartitionType : p = FirstPartition(t) /\ p.pk = PartOf[t[1].key]
      BY <2>2, FirstPartitionType
    <3> QED
      BY <1>1, <2>2, <3>1, Single
  <2> QED
    BY <2>1, <2>2
<1>3. live \in [PKs -> 0 .. Len(parts)] /\ LiveOK
  BY <1>1, <1>2 DEF LiveOK
<1>4. index \in [IndexKeys -> Item \cup {NoItem}]
  <2>1. ASSUME NEW i \in IndexKeys
        PROVE  (IF \E j \in DOMAIN t : IndexKeyOf(t[j]) = i
                THEN t[CHOOSE j \in DOMAIN t : IndexKeyOf(t[j]) = i]
                ELSE NoItem) \in Item \cup {NoItem}
    BY LoadType
  <2> QED
    BY <1>1, <2>1
<1>5. count \in Int /\ calls \in 0 .. MaxCalls
  BY <1>1, LoadType, DynamoParametersAssumption
<1>6. records \in Seq(RecordType)
  <2>1. \A i \in 1 .. Len(t) : Record(t[i].key, NoItem, t[i].val) \in RecordType
    BY LoadType, RecordIs
  <2>2. records \in [1 .. Len(t) -> RecordType]
    BY <1>1, <2>1, LoadType
  <2> QED
    BY <2>2, LoadType, FunctionIsSeq
<1>7. call \in [Procs -> CallType(Len(parts))] /\ \A c \in Procs : CallOK(call[c])
  <2>1. Idle \in CallType(Len(parts)) /\ Idle.pc = "idle" /\ Idle.todo = <<>>
    BY <1>2, IdleType
  <2> QED
    BY <1>1, <2>1 DEF CallOK, Puts, Removals, Tabled
<1>8. last \in [Keys -> Values \cup {NoItem}] /\ sure \subseteq Keys /\ hazy \subseteq Keys
      /\ tableMu \in Procs \cup {Nobody}
  BY <1>1, LoadType
<1>9. TypeOK
  BY <1>2, <1>3, <1>4, <1>5, <1>6, <1>7, <1>8
     DEF TypeOK, PartitionType, CallType, RecordType
<1> QED
  BY <1>3, <1>7, <1>9 DEF TypeInv

LEMMA TypeStep ==
    ASSUME TypeInv, [Next]_vars
    PROVE  TypeInv'
<1>1. CASE UNCHANGED vars
  BY <1>1 DEF vars, TypeInv, TypeOK, LiveOK, CallOK
<1>2. ASSUME NEW c \in Clients, NEW w \in Requests,
             PutItem(c, w) \/ DeleteItem(c, w) \/ UpdateItem(c, w)
      PROVE  TypeInv'
  BY <1>2, PutItemType, DeleteItemType, UpdateItemType
<1>3. ASSUME NEW c \in Clients, NEW t \in Transactions, TransactWriteItems(c, t)
      PROVE  TypeInv'
  BY <1>3, TransactType
<1>4. ASSUME NEW t \in ExpiredKeys, ScanExpired(Reaper, t)
      PROVE  TypeInv'
  BY <1>4, ScanType
<1>5. ASSUME NEW c \in Procs, Step(c)
      PROVE  TypeInv'
  BY <1>5, PutCheckType, PutWriteType, PutCountType, PutIndexType,
     PutStreamType, DeleteWriteType, DeleteCountType, DeleteDropType,
     DeleteStreamType, ReadInTableType, UpdateWriteType, PutInTableType,
     DeleteFromTableType, CountInTableType DEF Step
<1> QED
  BY <1>1, <1>2, <1>3, <1>4, <1>5 DEF Next

(* Whatever the clients, the keys and the requests: the table map leads    *)
(* only to partitions that exist, and every call works on one of those.    *)
THEOREM TypeCorrect == Spec => []TypeOK
<1>1. Init => TypeInv
  BY InitType
<1>2. TypeInv /\ [Next]_vars => TypeInv'
  BY TypeStep
<1>3. TypeInv => TypeOK
  BY DEF TypeInv
<1> QED
  BY <1>1, <1>2, <1>3, PTL DEF Spec

-----------------------------------------------------------------------------
(* What a step of c does to the calls.                                     *)

(* The others go on as they were, but may lose their calm. *)
OthersWait(c) ==
    \A x \in Procs \ {c} :
        SameCall(x) /\ call'[x].old = call[x].old /\ (call'[x].calm => call[x].calm)

LEMMA StartWaits ==
    ASSUME NEW n, NEW c \in Procs, NEW r \in CallType(n), Start(c, r),
           call \in [Procs -> CallType(n)]
    PROVE  /\ OthersWait(c) /\ hazy \subseteq hazy'
           /\ call'[c].pc = r.pc /\ call'[c].todo = r.todo
           /\ call'[c].part = r.part /\ call'[c].old = r.old
<1> DEFINE mine == [r EXCEPT !.calm = \A y \in Procs \ {c} :
                                 RemovesFrom(call[y]) \cap PKsOf(r) = {}]
           yours(x) == [call[x] EXCEPT !.calm =
                           @ /\ RemovesFrom(r) \cap PKsOf(call[x]) = {}]
<1>1. call' = [x \in Procs |-> IF x = c THEN mine ELSE yours(x)]
  BY DEF Start
<1>2. /\ mine.pc = r.pc /\ mine.todo = r.todo /\ mine.part = r.part
      /\ mine.old = r.old
  BY DEF CallType
<1>3. ASSUME NEW x \in Procs
      PROVE  /\ yours(x).pc = call[x].pc /\ yours(x).todo = call[x].todo
             /\ yours(x).part = call[x].part /\ yours(x).old = call[x].old
             /\ yours(x).calm => call[x].calm
  BY DEF CallType
<1> HIDE DEF mine, yours
<1>4. /\ call'[c] = mine
      /\ \A x \in Procs \ {c} : call'[x] = yours(x)
  BY <1>1
<1>5. OthersWait(c)
  BY <1>3, <1>4 DEF OthersWait, SameCall
<1>6. hazy \subseteq hazy'
  BY DEF Start
<1> QED
  BY <1>2, <1>4, <1>5, <1>6

(* A call that moves on alone. *)
LEMMA CallStep ==
    ASSUME TypeInv, NEW c \in Procs, NEW r, call' = [call EXCEPT ![c] = r]
    PROVE  OthersWait(c) /\ call'[c] = r
<1>1. call \in [Procs -> CallType(Len(parts))]
  BY TypesOf DEF TypeInv
<1> QED
  BY <1>1 DEF OthersWait, SameCall

LEMMA IdlePc == Idle.pc = "idle" /\ Idle.todo = <<>> /\ ~Idle.calm
BY DEF Idle

(* One of the writes under the table's lock is done. *)
LEMMA DoneMoves ==
    ASSUME TypeInv, NEW c \in Procs, call[c].pc \in Tabled, Done(c)
    PROVE  /\ OthersWait(c)
           /\ ToSet(call'[c].todo) \subseteq ToSet(call[c].todo)
           /\ call'[c].calm => call[c].calm
           /\ \/ call'[c].pc = "tx" /\ tableMu' = c
              \/ call'[c].pc = "idle" /\ tableMu' = Nobody
<1>1. PICK rest, r : /\ rest = Tail(call[c].todo)
                     /\ r = [call[c] EXCEPT !.pc = "tx", !.todo = rest,
                                            !.part = 0, !.old = NoItem]
  BY Zenon
<1>2. /\ call \in [Procs -> CallType(Len(parts))]
      /\ call[c].todo \in Seq(Write) /\ call[c].todo # <<>>
  BY TypesOf DEF TypeInv, CallOK, CallType
<1>3. ToSet(rest) \subseteq ToSet(call[c].todo) /\ ToSet(<<>>) = {}
  BY <1>1, <1>2, RestOf DEF ToSet
<1>4. r.pc = "tx" /\ r.todo = rest /\ r.calm = call[c].calm
  BY <1>1, <1>2 DEF CallType
<1>5. /\ call' = [call EXCEPT ![c] = IF rest = <<>> THEN Idle ELSE r]
      /\ tableMu' = IF rest = <<>> THEN Nobody ELSE c
  BY <1>1, <1>2 DEF Done
<1>6. OthersWait(c) /\ call'[c] = IF rest = <<>> THEN Idle ELSE r
  BY <1>5, CallStep
<1> QED
  BY <1>3, <1>4, <1>5, <1>6, IdlePc

(* Or its item is written and the partition's count is not yet. *)
LEMMA WrittenMoves ==
    ASSUME TypeInv, NEW c \in Procs, call[c].pc \in Tabled, NEW p,
           NEW recounts \in BOOLEAN, Written(c, p, recounts)
    PROVE  /\ OthersWait(c)
           /\ ToSet(call'[c].todo) \subseteq ToSet(call[c].todo)
           /\ call'[c].calm => call[c].calm
           /\ \/ call'[c].pc = "tx" /\ tableMu' = c
              \/ call'[c].pc = "idle" /\ tableMu' = Nobody
              \/ /\ call'[c].pc = "tally" /\ tableMu' = tableMu /\ recounts
                 /\ call'[c].part = p /\ call'[c].todo = call[c].todo
<1>1. CASE ~recounts
  BY <1>1, DoneMoves DEF Written
<1>2. CASE recounts
  <2>1. PICK r : r = [call[c] EXCEPT !.pc = "tally", !.part = p]
    OBVIOUS
  <2>2. call \in [Procs -> CallType(Len(parts))]
    BY TypesOf DEF TypeInv
  <2>3. /\ r.pc = "tally" /\ r.part = p /\ r.todo = call[c].todo
        /\ r.calm = call[c].calm
    BY <2>1, <2>2 DEF CallType
  <2>4. call' = [call EXCEPT ![c] = r] /\ tableMu' = tableMu
    BY <1>2, <2>1, <2>2 DEF Written
  <2>5. OthersWait(c) /\ call'[c] = r
    BY <2>4, CallStep
  <2> QED
    BY <1>2, <2>3, <2>4, <2>5
<1> QED
  BY <1>1, <1>2

(* A partition's lock taken or released does not touch the races. *)
LEMMA LockFlags ==
    ASSUME TypeInv, NEW p \in 1 .. Len(parts), NEW m,
           parts' = [parts EXCEPT ![p].mu = m]
    PROVE  /\ parts'[p].mu = m
           /\ \A q \in 1 .. Len(parts) : q # p => parts'[q].mu = parts[q].mu
           /\ \A pk \in PKs : Raced(pk)' => Raced(pk)
<1> DEFINE new == [parts[p] EXCEPT !.mu = m]
<1>1. parts \in Seq(PartitionType) /\ Len(parts) \in Nat /\ parts[p] \in PartitionType
  BY TypesOf DEF TypeInv
<1>2. new.mu = m /\ new.pk = parts[p].pk /\ new.raced = parts[p].raced
  BY <1>1 DEF PartitionType
<1> HIDE DEF new
<1>3. parts' = [parts EXCEPT ![p] = new]
  BY DEF new
<1>4. /\ DOMAIN parts' = DOMAIN parts /\ DOMAIN parts = 1 .. Len(parts)
      /\ \A q \in 1 .. Len(parts) : parts'[q] = IF q = p THEN new ELSE parts[q]
  BY <1>1, <1>3
<1> QED
  BY <1>2, <1>4 DEF Raced

-----------------------------------------------------------------------------
(* Locks: those of the partitions and the table's.                         *)

LockHeld == {"write", "count", "index", "stream", "uncount"}

(* A partition's lock is held by a PutItem past its check, or a DeleteItem *)
(* that has removed its item and not counted it, in it.                    *)
PartsOwned ==
    \A i \in 1 .. Len(parts) :
        parts[i].mu # Nobody =>
            call[parts[i].mu].pc \in LockHeld /\ call[parts[i].mu].part = i

(* And such a call holds it. *)
LockKept == \A c \in Procs : call[c].pc \in LockHeld => parts[call[c].part].mu = c

(* The table's is kept by the one call that updates or transacts. *)
TableOwned == \A c \in Procs : call[c].pc \in Tabled <=> tableMu = c

(* The partition whose count it is about to write is that of the map. *)
TallyIsLive ==
    \A c \in Procs :
        call[c].pc = "tally" => call[c].part = live[PartOf[call[c].todo[1].key]]

LocksInv == TypeInv /\ PartsOwned /\ LockKept /\ TableOwned /\ TallyIsLive

(* c is under way and what its next step locks is free. *)
CanGoOn(c) ==
    /\ call[c].pc # "idle"
    /\ call[c].pc \in {"lock", "remove"} => parts[call[c].part].mu = Nobody
    /\ call[c].pc \in {"index", "drop"} => tableMu = Nobody

(* While calls are under way, one of them goes on. *)
NoCircularWait ==
    (\E c \in Procs : call[c].pc # "idle") => \E c \in Procs : CanGoOn(c)

(* What c holds of the partitions after its step: the others hold what     *)
(* they held.                                                              *)
Owns(c) ==
    /\ \A q \in 1 .. Len(parts') :
          parts'[q].mu # Nobody =>
              \/ /\ parts'[q].mu = c
                 /\ call'[c].pc \in LockHeld /\ call'[c].part = q
              \/ /\ q \in 1 .. Len(parts)
                 /\ parts'[q].mu = parts[q].mu /\ parts[q].mu # c
    /\ \A q \in 1 .. Len(parts) :
          parts[q].mu \notin {c, Nobody} => parts'[q].mu = parts[q].mu
    /\ call'[c].pc \in LockHeld => parts'[call'[c].part].mu = c

(* What becomes of the table's lock: nothing, or c takes it or lets it go. *)
TableTurn(c) ==
    \/ tableMu' = tableMu /\ (call'[c].pc \in Tabled <=> call[c].pc \in Tabled)
    \/ tableMu = Nobody /\ tableMu' = c /\ call'[c].pc \in Tabled
    \/ tableMu = c /\ tableMu' = Nobody /\ call'[c].pc \notin Tabled

(* The map changes under the table's lock. *)
MapTurn(c) ==
    /\ live' = live \/ tableMu \in {c, Nobody}
    /\ call'[c].pc = "tally" =>
          call'[c].part = live'[PartOf[call'[c].todo[1].key]]

LEMMA LocksStep ==
    ASSUME LocksInv, TypeInv', NEW c \in Procs, OthersWait(c), Owns(c),
           TableTurn(c), MapTurn(c)
    PROVE  LocksInv'
<1>1. /\ \A q \in 1 .. Len(parts) : parts[q].mu \in Procs \cup {Nobody}
      /\ c # Nobody
  <2>1. parts \in Seq(PartitionType)
    BY TypesOf DEF LocksInv, TypeInv
  <2>2. \A q \in 1 .. Len(parts) : parts[q] \in PartitionType
    BY <2>1
  <2> QED
    BY <2>2, DynamoParametersAssumption DEF PartitionType, Procs
<1>2. ASSUME NEW q \in 1 .. Len(parts'), parts'[q].mu # Nobody
      PROVE  call'[parts'[q].mu].pc \in LockHeld /\ call'[parts'[q].mu].part = q
  <2>1. CASE parts'[q].mu = c /\ call'[c].pc \in LockHeld /\ call'[c].part = q
    BY <2>1
  <2>2. CASE q \in 1 .. Len(parts) /\ parts'[q].mu = parts[q].mu /\ parts[q].mu # c
    <3>1. PICK x \in Procs \ {c} : x = parts[q].mu
      BY <1>1, <1>2, <2>2
    <3>2. call[x].pc \in LockHeld /\ call[x].part = q
      BY <1>2, <2>2, <3>1 DEF LocksInv, PartsOwned
    <3> QED
      BY <2>2, <3>1, <3>2 DEF OthersWait, SameCall
  <2> QED
    BY <1>2, <2>1, <2>2 DEF Owns
<1>3. PartsOwned'
  BY <1>2 DEF PartsOwned
<1>4. ASSUME NEW x \in Procs, call'[x].pc \in LockHeld
      PROVE  parts'[call'[x].part].mu = x
  <2>1. CASE x = c
    BY <1>4, <2>1 DEF Owns
  <2>2. CASE x # c
    <3>1. /\ call'[x].part = call[x].part /\ call[x].pc \in LockHeld
          /\ parts[call[x].part].mu = x
      BY <1>4, <2>2 DEF OthersWait, SameCall, LocksInv, LockKept
    <3>2. call[x].part \in 1 .. Len(parts) /\ x # Nobody
      BY <3>1, CallProps, DynamoParametersAssumption
         DEF LocksInv, LockHeld, Puts, Removals, Procs
    <3> QED
      BY <2>2, <3>1, <3>2 DEF Owns
  <2> QED
    BY <2>1, <2>2
<1>5. LockKept'
  BY <1>4 DEF LockKept
<1>6. TableOwned'
  <2>1. call[c].pc \in Tabled <=> tableMu = c
    BY DEF LocksInv, TableOwned
  <2>2. call'[c].pc \in Tabled <=> tableMu' = c
    BY <1>1, <2>1 DEF TableTurn
  <2>3. ASSUME NEW x \in Procs \ {c}
        PROVE  call'[x].pc \in Tabled <=> tableMu' = x
    <3>1. x # Nobody /\ (call[x].pc \in Tabled <=> tableMu = x)
      BY DynamoParametersAssumption DEF LocksInv, TableOwned, Procs
    <3>2. call'[x].pc = call[x].pc
      BY DEF OthersWait, SameCall
    <3> QED
      BY <3>1, <3>2 DEF TableTurn
  <2> QED
    BY <2>2, <2>3 DEF TableOwned
<1>7. ASSUME NEW x \in Procs, call'[x].pc = "tally"
      PROVE  call'[x].part = live'[PartOf[call'[x].todo[1].key]]
  <2>1. CASE x = c
    BY <1>7, <2>1 DEF MapTurn
  <2>2. CASE x # c
    <3>1. /\ call'[x].part = call[x].part /\ call'[x].todo = call[x].todo
          /\ call[x].pc = "tally"
      BY <1>7, <2>2 DEF OthersWait, SameCall
    <3>2. tableMu = x /\ x # Nobody
      BY <3>1, DynamoParametersAssumption DEF LocksInv, TableOwned, Tabled, Procs
    <3> QED
      BY <2>2, <3>1, <3>2 DEF MapTurn, LocksInv, TallyIsLive
  <2> QED
    BY <2>1, <2>2
<1>8. TallyIsLive'
  BY <1>7 DEF TallyIsLive
<1> QED
  BY <1>3, <1>5, <1>6, <1>8 DEF LocksInv

(* Partitions are written and made, locks left alone. *)
MuSame ==
    /\ Len(parts) \in Nat /\ Len(parts') \in Nat /\ Len(parts') >= Len(parts)
    /\ \A q \in 1 .. Len(parts) : parts'[q].mu = parts[q].mu
    /\ \A q \in 1 .. Len(parts') : q > Len(parts) => parts'[q].mu = Nobody

LEMMA OwnsSame ==
    ASSUME LocksInv, NEW c \in Procs, MuSame,
           \/ call[c].pc \notin LockHeld /\ call'[c].pc \notin LockHeld
           \/ /\ call[c].pc \in LockHeld /\ call'[c].pc \in LockHeld
              /\ call'[c].part = call[c].part
    PROVE  Owns(c)
<1>1. ASSUME NEW q \in 1 .. Len(parts'), parts'[q].mu # Nobody
      PROVE  q \in 1 .. Len(parts) /\ parts'[q].mu = parts[q].mu
  BY <1>1 DEF MuSame
<1>2. ASSUME NEW q \in 1 .. Len(parts), parts[q].mu = c
      PROVE  call[c].pc \in LockHeld /\ call[c].part = q
  BY <1>2, DynamoParametersAssumption DEF LocksInv, PartsOwned, Procs
<1>3. ASSUME call[c].pc \in LockHeld
      PROVE  parts[call[c].part].mu = c /\ call[c].part \in 1 .. Len(parts)
  BY <1>3, CallProps DEF LocksInv, LockKept, LockHeld, Puts, Removals
<1> QED
  BY <1>1, <1>2, <1>3 DEF MuSame, Owns

LEMMA WriteMu ==
    ASSUME NEW all \in Seq(PartitionType), NEW c, NEW p \in 1 .. Len(all),
           NEW k, NEW v, parts' = WriteItem(all, c, p, k, v)
    PROVE  /\ Len(parts') = Len(all) /\ Len(all) \in Nat
           /\ \A q \in 1 .. Len(all) : parts'[q].mu = all[q].mu
<1> DEFINE new == [all[p] EXCEPT !.items = [@ EXCEPT ![k] = v],
                                 !.raced = @ \/ (Recounts(all[p].items[k], v)
                                                  /\ Races(c, p))]
<1>1. parts' = [all EXCEPT ![p] = new]
  BY DEF WriteItem
<1>2. new.mu = all[p].mu
  BY DEF PartitionType
<1> HIDE DEF new
<1>3. /\ Len(parts') = Len(all)
      /\ \A q \in 1 .. Len(all) : parts'[q] = IF q = p THEN new ELSE all[q]
  BY <1>1
<1> QED
  BY <1>2, <1>3

LEMMA FoundMu ==
    ASSUME TypeInv, NEW pk \in PKs, NEW f, f = GetOrCreate(pk)
    PROVE  /\ f.all \in Seq(PartitionType) /\ f.id \in 1 .. Len(f.all)
           /\ Len(f.all) \in Nat /\ Len(parts) \in Nat /\ Len(f.all) >= Len(parts)
           /\ \A q \in 1 .. Len(parts) : f.all[q] = parts[q]
           /\ \A q \in 1 .. Len(f.all) : q > Len(parts) => f.all[q].mu = Nobody
<1>1. /\ f.all \in Seq(PartitionType) /\ f.id \in 1 .. Len(f.all)
      /\ Len(parts) \in Nat /\ Len(f.all) >= Len(parts)
      /\ \A q \in 1 .. Len(parts) : f.all[q] = parts[q]
      /\ live[pk] # 0 => f.all = parts
      /\ live[pk] = 0 => /\ f.id = Len(parts) + 1 /\ Len(f.all) = Len(parts) + 1
                         /\ f.all[f.id] = EmptyPartition(pk)
  BY Found DEF TypeInv
<1>2. Len(f.all) \in Nat /\ EmptyPartition(pk).mu = Nobody
  BY <1>1 DEF EmptyPartition
<1>3. \A q \in 1 .. Len(f.all) : q > Len(parts) => f.all[q].mu = Nobody
  BY <1>1, <1>2
<1> QED
  BY <1>1, <1>2, <1>3

LEMMA MuUntouched ==
    ASSUME TypeInv, parts' = parts
    PROVE  MuSame
<1>1. Len(parts) \in Nat /\ Len(parts') \in Nat
  BY TypesOf DEF TypeInv
<1> QED
  BY <1>1 DEF MuSame

(* A write under the table's lock, in a partition that may be new. *)
LEMMA FoundWriteMu ==
    ASSUME TypeInv, NEW pk \in PKs, NEW f, f = GetOrCreate(pk),
           NEW c, NEW k, NEW v, parts' = WriteItem(f.all, c, f.id, k, v)
    PROVE  MuSame
<1>1. PICK all, p : all = f.all /\ p = f.id
  OBVIOUS
<1>2. /\ all \in Seq(PartitionType) /\ p \in 1 .. Len(all)
      /\ Len(all) \in Nat /\ Len(parts) \in Nat /\ Len(all) >= Len(parts)
      /\ \A q \in 1 .. Len(parts) : all[q] = parts[q]
      /\ \A q \in 1 .. Len(all) : q > Len(parts) => all[q].mu = Nobody
  BY <1>1, FoundMu
<1>3. Len(parts') = Len(all) /\ \A q \in 1 .. Len(all) : parts'[q].mu = all[q].mu
  BY <1>1, <1>2, WriteMu
<1> QED
  BY <1>2, <1>3 DEF MuSame

(* And one in a partition that is there. *)
LEMMA WriteMuHere ==
    ASSUME TypeInv, NEW c, NEW p \in 1 .. Len(parts), NEW k, NEW v,
           parts' = WriteItem(parts, c, p, k, v)
    PROVE  MuSame
<1>1. parts \in Seq(PartitionType)
  BY TypesOf DEF TypeInv
<1> QED
  BY <1>1, WriteMu DEF MuSame

-----------------------------------------------------------------------------
(* Starts.                                                                 *)

LEMMA StartLocks ==
    ASSUME LocksInv, TypeInv', NEW c \in Procs, call[c].pc = "idle", tableMu = Nobody,
           NEW n \in Nat, n >= Len(parts), NEW r \in CallType(n), Start(c, r),
           MuSame, r.pc \notin LockHeld \cup {"tally"},
           IF r.pc \in Tabled THEN tableMu' = c ELSE tableMu' = Nobody
    PROVE  LocksInv'
<1>1. call \in [Procs -> CallType(n)]
  <2>1. call \in [Procs -> CallType(Len(parts))] /\ Len(parts) \in Nat
    BY TypesOf DEF LocksInv, TypeInv
  <2> QED
    BY <2>1 DEF CallType
<1>2. OthersWait(c) /\ call'[c].pc = r.pc
  BY <1>1, StartWaits
<1>3. Owns(c)
  BY <1>2, OwnsSame DEF LockHeld
<1>4. TableTurn(c)
  BY <1>2 DEF TableTurn, Tabled
<1>5. MapTurn(c)
  BY <1>2 DEF MapTurn
<1> QED
  BY <1>2, <1>3, <1>4, <1>5, LocksStep

LEMMA PutItemLocks ==
    ASSUME LocksInv, TypeInv', NEW c \in Clients, NEW w \in Requests, PutItem(c, w)
    PROVE  LocksInv'
<1>1. PICK pk, f, r : /\ pk = PartOf[w.key] /\ f = GetOrCreate(pk)
                      /\ r = [Idle EXCEPT !.pc = "lock", !.todo = <<w>>, !.part = f.id]
  BY Zenon
<1>2. /\ TypeInv /\ c \in Procs /\ call[c].pc = "idle" /\ tableMu = Nobody
      /\ w \in Write /\ pk \in PKs
  BY <1>1, DynamoParametersAssumption, WriteIs DEF PutItem, Request, LocksInv, Procs
<1>3. parts' = f.all /\ Start(c, r) /\ tableMu' = Nobody
  BY <1>1, <1>2 DEF PutItem
<1>4. /\ f.all \in Seq(PartitionType) /\ f.id \in 1 .. Len(f.all)
      /\ Len(f.all) \in Nat /\ Len(f.all) >= Len(parts)
      /\ \A q \in 1 .. Len(parts) : f.all[q] = parts[q]
      /\ \A q \in 1 .. Len(f.all) : q > Len(parts) => f.all[q].mu = Nobody
      /\ Len(parts) \in Nat
  BY <1>1, <1>2, FoundMu
<1>5. MuSame
  BY <1>3, <1>4 DEF MuSame
<1>6. PICK n \in Nat : n = Len(f.all) /\ n >= Len(parts)
  BY <1>4
<1>7. r \in CallType(n) /\ r.pc = "lock"
  <2>1. f.id \in 0 .. n /\ <<w>> \in Seq(Write)
    BY <1>2, <1>4, <1>6, Single
  <2> QED
    BY <1>1, <1>6, <2>1, IdleType DEF CallType
<1>8. r.pc \notin Tabled /\ r.pc \notin LockHeld \cup {"tally"}
  BY <1>7 DEF Tabled, LockHeld
<1> QED
  BY <1>2, <1>3, <1>5, <1>6, <1>7, <1>8, StartLocks

(* A start that makes no partition. *)
LEMMA QuietStartLocks ==
    ASSUME LocksInv, TypeInv', NEW c \in Procs, call[c].pc = "idle", tableMu = Nobody,
           NEW r \in CallType(Len(parts)), Start(c, r), parts' = parts,
           r.pc \notin LockHeld \cup {"tally"},
           IF r.pc \in Tabled THEN tableMu' = c ELSE tableMu' = Nobody
    PROVE  LocksInv'
<1>1. Len(parts) \in Nat
  BY TypesOf DEF LocksInv, TypeInv
<1>2. MuSame
  BY MuUntouched DEF LocksInv
<1> QED
  BY <1>1, <1>2, StartLocks

LEMMA DeleteItemLocks ==
    ASSUME LocksInv, TypeInv', NEW c \in Clients, NEW w \in Requests, DeleteItem(c, w)
    PROVE  LocksInv'
<1>1. PICK p, r : /\ p = live[PartOf[w.key]]
                  /\ r = [Idle EXCEPT !.pc = "remove", !.todo = <<w>>, !.part = p]
  BY Zenon
<1>2. /\ TypeInv /\ c \in Procs /\ call[c].pc = "idle" /\ tableMu = Nobody
      /\ w \in Write /\ PartOf[w.key] \in PKs
  BY DynamoParametersAssumption, WriteIs DEF DeleteItem, Request, LocksInv, Procs
<1>3. Start(c, r) /\ UNCHANGED <<parts, tableMu>>
  BY <1>1 DEF DeleteItem
<1>4. r \in CallType(Len(parts)) /\ r.pc = "remove"
  <2>1. p \in 0 .. Len(parts) /\ Len(parts) \in Nat /\ <<w>> \in Seq(Write)
    BY <1>1, <1>2, Single, TypesOf DEF TypeInv, TypeOK
  <2> QED
    BY <1>1, <2>1, IdleType DEF CallType
<1>5. r.pc \notin Tabled /\ r.pc \notin LockHeld \cup {"tally"}
  BY <1>4 DEF Tabled, LockHeld
<1> QED
  BY <1>2, <1>3, <1>4, <1>5, QuietStartLocks

LEMMA UpdateItemLocks ==
    ASSUME LocksInv, TypeInv', NEW c \in Clients, NEW w \in Requests, UpdateItem(c, w)
    PROVE  LocksInv'
<1>1. PICK g, r : /\ g = GetItem(w.key)
                  /\ r = [Idle EXCEPT !.pc = "update", !.todo = <<w>>, !.old = g]
  BY Zenon
<1>2. /\ TypeInv /\ c \in Procs /\ call[c].pc = "idle" /\ tableMu = Nobody
      /\ w \in Write /\ w.key \in Keys
  BY DynamoParametersAssumption, WriteIs DEF UpdateItem, Request, LocksInv, Procs
<1>3. Start(c, r) /\ parts' = parts /\ tableMu' = c
  BY <1>1 DEF UpdateItem
<1>4. r \in CallType(Len(parts)) /\ r.pc = "update"
  <2>1. g \in Values \cup {NoItem} /\ Len(parts) \in Nat /\ <<w>> \in Seq(Write)
    BY <1>1, <1>2, GetItemType, Single, TypesOf DEF TypeInv
  <2> QED
    BY <1>1, <2>1, IdleType DEF CallType
<1>5. r.pc \in Tabled /\ r.pc \notin LockHeld \cup {"tally"}
  BY <1>4 DEF Tabled, LockHeld
<1> QED
  BY <1>2, <1>3, <1>4, <1>5, QuietStartLocks

(* A transaction, or the writes of the reaper. *)
LEMMA TxLocks ==
    ASSUME LocksInv, TypeInv', NEW c \in Procs, call[c].pc = "idle", tableMu = Nobody,
           NEW t \in Seq(Write), Start(c, [Idle EXCEPT !.pc = "tx", !.todo = t]),
           parts' = parts, tableMu' = c
    PROVE  LocksInv'
<1>1. PICK r : r = [Idle EXCEPT !.pc = "tx", !.todo = t]
  OBVIOUS
<1>2. r \in CallType(Len(parts)) /\ r.pc = "tx"
  <2>1. Len(parts) \in Nat
    BY TypesOf DEF LocksInv, TypeInv
  <2> QED
    BY <1>1, <2>1, IdleType DEF CallType
<1>3. Start(c, r) /\ r.pc \in Tabled /\ r.pc \notin LockHeld \cup {"tally"}
  BY <1>1, <1>2 DEF Tabled, LockHeld
<1> QED
  BY <1>2, <1>3, QuietStartLocks

LEMMA TransactLocks ==
    ASSUME LocksInv, TypeInv', NEW c \in Clients, NEW t \in Transactions,
           TransactWriteItems(c, t)
    PROVE  LocksInv'
<1>1. c \in Procs /\ t.writes \in Seq(Write) /\ call[c].pc = "idle" /\ tableMu = Nobody
  BY DynamoParametersAssumption DEF Procs, Transaction, TransactWriteItems, Request
<1>2. /\ Start(c, [Idle EXCEPT !.pc = "tx", !.todo = t.writes])
      /\ parts' = parts /\ tableMu' = c
  BY DEF TransactWriteItems
<1> QED
  BY <1>1, <1>2, TxLocks, Zenon

LEMMA ScanLocks ==
    ASSUME LocksInv, TypeInv', NEW t \in ExpiredKeys, ScanExpired(Reaper, t)
    PROVE  LocksInv'
<1>1. PICK todo : todo = [i \in DOMAIN t |->
                             [key |-> t[i], to |-> NoItem, cond |-> "none",
                              update |-> FALSE]]
  OBVIOUS
<1>2. todo \in Seq(Write)
  <2>1. t \in Seq(Keys)
    BY ExpiredKeysType
  <2>2. \A k \in Keys : [key |-> k, to |-> NoItem, cond |-> "none", update |-> FALSE]
                             \in Write
    BY DEF Write
  <2>3. DOMAIN t = 1 .. Len(t) /\ Len(t) \in Nat
    BY <2>1
  <2> QED
    BY <1>1, <2>1, <2>2, <2>3
<1>3. /\ Reaper \in Procs /\ call[Reaper].pc = "idle" /\ tableMu = Nobody
      /\ Start(Reaper, [Idle EXCEPT !.pc = "tx", !.todo = todo])
      /\ parts' = parts /\ tableMu' = Reaper
  BY <1>1 DEF ScanExpired, Procs
<1> QED
  BY <1>2, <1>3, TxLocks, Zenon

-----------------------------------------------------------------------------
(* Steps.                                                                  *)

(* A call that moves on and touches no lock. *)
LEMMA MovesLocks ==
    ASSUME LocksInv, TypeInv', NEW c \in Procs, NEW r, call' = [call EXCEPT ![c] = r],
           MuSame, tableMu' = tableMu, live' = live \/ tableMu = Nobody,
           call[c].pc \notin Tabled, r.pc \notin Tabled,
           \/ call[c].pc \notin LockHeld /\ r.pc \notin LockHeld
           \/ /\ call[c].pc \in LockHeld /\ r.pc \in LockHeld
              /\ r.part = call[c].part
    PROVE  LocksInv'
<1>1. OthersWait(c) /\ call'[c] = r
  BY CallStep DEF LocksInv
<1>2. Owns(c)
  BY <1>1, OwnsSame
<1>3. TableTurn(c) /\ MapTurn(c)
  BY <1>1 DEF TableTurn, MapTurn, Tabled
<1> QED
  BY <1>1, <1>2, <1>3, LocksStep

(* One that takes a partition's. *)
LEMMA TakesLock ==
    ASSUME LocksInv, TypeInv', NEW c \in Procs, NEW p \in 1 .. Len(parts), NEW r,
           call' = [call EXCEPT ![c] = r], r.pc \in LockHeld, r.part = p,
           call[c].pc \notin LockHeld \cup Tabled, parts[p].mu = Nobody,
           Len(parts') = Len(parts), parts'[p].mu = c,
           \A q \in 1 .. Len(parts) : q # p => parts'[q].mu = parts[q].mu,
           UNCHANGED <<tableMu, live>>
    PROVE  LocksInv'
<1>1. OthersWait(c) /\ call'[c] = r
  BY CallStep DEF LocksInv
<1>2. \A q \in 1 .. Len(parts) : parts[q].mu # c
  BY DynamoParametersAssumption DEF LocksInv, PartsOwned, Procs
<1>3. Owns(c)
  BY <1>1, <1>2 DEF Owns
<1>4. TableTurn(c) /\ MapTurn(c)
  BY <1>1 DEF TableTurn, MapTurn, Tabled, LockHeld
<1> QED
  BY <1>1, <1>3, <1>4, LocksStep

(* And one that releases it. *)
LEMMA FreesLock ==
    ASSUME LocksInv, TypeInv', NEW c \in Procs, NEW p, p = call[c].part, NEW r,
           call' = [call EXCEPT ![c] = r], r.pc \notin LockHeld \cup Tabled,
           call[c].pc \in LockHeld, parts' = [parts EXCEPT ![p].mu = Nobody],
           UNCHANGED <<tableMu, live>>
    PROVE  LocksInv'
<1>1. /\ OthersWait(c) /\ call'[c] = r
      /\ p \in 1 .. Len(parts) /\ call[c].pc \notin Tabled
  BY CallStep, CallProps DEF LocksInv, LockHeld, Puts, Removals, Tabled
<1>2. /\ Len(parts') = Len(parts) /\ parts'[p].mu = Nobody
      /\ \A q \in 1 .. Len(parts) : q # p => parts'[q].mu = parts[q].mu
  <2>1. Len(parts') = Len(parts)
    BY TypesOf DEF LocksInv, TypeInv
  <2> QED
    BY <1>1, <2>1, LockFlags DEF LocksInv
<1>3. /\ \A q \in 1 .. Len(parts) : q # p => parts[q].mu # c
      /\ parts[p].mu = c
  BY <1>1, DynamoParametersAssumption DEF LocksInv, PartsOwned, LockKept, Procs
<1>4. Owns(c)
  BY <1>1, <1>2, <1>3 DEF Owns
<1>5. TableTurn(c) /\ MapTurn(c)
  BY <1>1 DEF TableTurn, MapTurn, Tabled
<1> QED
  BY <1>1, <1>4, <1>5, LocksStep

LEMMA PutCheckLocks ==
    ASSUME LocksInv, TypeInv', NEW c \in Procs, PutCheck(c)
    PROVE  LocksInv'
<1>1. PICK p, r : p = call[c].part /\ r = [call[c] EXCEPT !.pc = "write"]
  OBVIOUS
<1>2. /\ TypeInv /\ call[c].pc = "lock" /\ UNCHANGED <<tableMu, live>>
      /\ call \in [Procs -> CallType(Len(parts))] /\ parts[p].mu = Nobody
  BY <1>1, TypesOf DEF PutCheck, LocksInv, TypeInv
<1>3. p \in 1 .. Len(parts) /\ r.pc = "write" /\ r.part = p /\ Len(parts) \in Nat
  BY <1>1, <1>2, CallProps, TypesOf DEF Puts, CallType, TypeInv
<1>4. call[c].pc \notin LockHeld \cup Tabled /\ r.pc \in LockHeld
  BY <1>2, <1>3 DEF LockHeld, Tabled
<1>5. CASE parts' = [parts EXCEPT ![p].mu = c] /\ call' = [call EXCEPT ![c] = r]
  <2>1. Len(parts') = Len(parts)
    BY <1>2, <1>5, TypesOf DEF TypeInv
  <2>2. /\ parts'[p].mu = c
        /\ \A q \in 1 .. Len(parts) : q # p => parts'[q].mu = parts[q].mu
    BY <1>2, <1>3, <1>5, LockFlags
  <2> QED
    BY <1>2, <1>3, <1>4, <1>5, <2>1, <2>2, TakesLock
<1>6. CASE call' = [call EXCEPT ![c] = Idle] /\ parts' = parts
  <2>1. MuSame /\ Idle.pc \notin LockHeld \cup Tabled
    BY <1>2, <1>6, MuUntouched, IdlePc DEF LockHeld, Tabled
  <2> QED
    BY <1>2, <1>4, <1>6, <2>1, MovesLocks
<1>7. \/ parts' = [parts EXCEPT ![p].mu = c] /\ call' = [call EXCEPT ![c] = r]
      \/ call' = [call EXCEPT ![c] = Idle] /\ parts' = parts
  BY <1>1, <1>2 DEF PutCheck
<1> QED
  BY <1>5, <1>6, <1>7

LEMMA PutWriteLocks ==
    ASSUME LocksInv, TypeInv', NEW c \in Procs, PutWrite(c)
    PROVE  LocksInv'
<1>1. PICK k, v, p, old, pc, r :
         /\ k = call[c].todo[1].key /\ v = call[c].todo[1].to /\ p = call[c].part
         /\ old = parts[p].items[k] /\ pc = IF old = NoItem THEN "count" ELSE "index"
         /\ r = [call[c] EXCEPT !.pc = pc, !.old = old]
  BY Zenon
<1>2. /\ TypeInv /\ call[c].pc = "write" /\ UNCHANGED <<tableMu, live>>
      /\ call \in [Procs -> CallType(Len(parts))]
      /\ parts' = WriteItem(parts, c, p, k, v)
  BY <1>1, TypesOf, Zenon DEF PutWrite, LocksInv, TypeInv
<1>3. call' = [call EXCEPT ![c] = r]
  BY <1>1, <1>2, Zenon DEF PutWrite
<1>4. r.pc \in {"count", "index"} /\ r.part = call[c].part
  BY <1>1, <1>2, Zenon DEF CallType
<1>5. MuSame
  BY <1>1, <1>2, CallProps, WriteMuHere, Zenon DEF Puts
<1> QED
  BY <1>2, <1>3, <1>4, <1>5, MovesLocks DEF LockHeld, Tabled

(* A step of a PutItem under its lock that writes no partition. *)
LEMMA PutGoesLocks ==
    ASSUME LocksInv, TypeInv', NEW c \in Procs, NEW pc \in {"index", "stream"},
           call[c].pc \in {"count", "index"}, UNCHANGED <<parts, live, tableMu>>,
           call' = [call EXCEPT ![c].pc = pc]
    PROVE  LocksInv'
<1>1. PICK r : r = [call[c] EXCEPT !.pc = pc]
  OBVIOUS
<1>2. call \in [Procs -> CallType(Len(parts))]
  BY TypesOf DEF LocksInv, TypeInv
<1>3. call' = [call EXCEPT ![c] = r] /\ r.pc = pc /\ r.part = call[c].part
  BY <1>1, <1>2 DEF CallType
<1>4. MuSame
  BY MuUntouched DEF LocksInv
<1> QED
  BY <1>3, <1>4, MovesLocks DEF LockHeld, Tabled

LEMMA PutCountLocks ==
    ASSUME LocksInv, TypeInv', NEW c \in Procs, PutCount(c)
    PROVE  LocksInv'
BY PutGoesLocks DEF PutCount

LEMMA PutIndexLocks ==
    ASSUME LocksInv, TypeInv', NEW c \in Procs, PutIndex(c)
    PROVE  LocksInv'
BY PutGoesLocks DEF PutIndex

LEMMA PutStreamLocks ==
    ASSUME LocksInv, TypeInv', NEW c \in Procs, PutStream(c)
    PROVE  LocksInv'
<1>1. PICK p : p = call[c].part
  OBVIOUS
<1>2. /\ call[c].pc \in LockHeld /\ UNCHANGED <<tableMu, live>>
      /\ call' = [call EXCEPT ![c] = Idle] /\ parts' = [parts EXCEPT ![p].mu = Nobody]
  BY <1>1 DEF PutStream, LockHeld
<1>3. Idle.pc \notin LockHeld \cup Tabled
  BY IdlePc DEF LockHeld, Tabled
<1> QED
  BY <1>1, <1>2, <1>3, FreesLock

LEMMA DeleteWriteLocks ==
    ASSUME LocksInv, TypeInv', NEW c \in Procs, DeleteWrite(c)
    PROVE  LocksInv'
<1>1. PICK k, p, r, w :
         /\ k = call[c].todo[1].key /\ p = call[c].part
         /\ r = [call[c] EXCEPT !.pc = "uncount", !.old = parts[p].items[k]]
         /\ w = WriteItem(parts, c, p, k, NoItem)
  BY Zenon
<1>2. /\ TypeInv /\ call[c].pc = "remove" /\ UNCHANGED <<tableMu, live>>
      /\ call \in [Procs -> CallType(Len(parts))] /\ parts[p].mu = Nobody
  BY <1>1, TypesOf, Zenon DEF DeleteWrite, LocksInv, TypeInv
<1>3. \/ parts' = [w EXCEPT ![p].mu = c] /\ call' = [call EXCEPT ![c] = r]
      \/ call' = [call EXCEPT ![c] = Idle] /\ parts' = parts
  BY <1>1, <1>2, Zenon DEF DeleteWrite
<1>4. /\ p \in 1 .. Len(parts) /\ k \in Keys
      /\ r.pc = "uncount" /\ r.part = p
  BY <1>1, <1>2, CallProps, Zenon DEF Removals, CallType
<1>5. call[c].pc \notin LockHeld \cup Tabled /\ r.pc \in LockHeld
  BY <1>2, <1>4 DEF LockHeld, Tabled
<1>6. CASE parts' = [w EXCEPT ![p].mu = c] /\ call' = [call EXCEPT ![c] = r]
  <2>1. /\ Rewritten(parts', parts, p, k, NoItem) /\ Len(parts') = Len(parts)
        /\ parts'[p].mu = c
    BY <1>1, <1>2, <1>4, <1>6, LockedWrite
  <2>2. \A q \in 1 .. Len(parts) : q # p => parts'[q].mu = parts[q].mu
    BY <2>1 DEF Rewritten
  <2> QED
    BY <1>2, <1>4, <1>5, <1>6, <2>1, <2>2, TakesLock
<1>7. CASE call' = [call EXCEPT ![c] = Idle] /\ parts' = parts
  <2>1. MuSame /\ Idle.pc \notin LockHeld \cup Tabled
    BY <1>2, <1>7, MuUntouched, IdlePc DEF LockHeld, Tabled
  <2> QED
    BY <1>2, <1>5, <1>7, <2>1, MovesLocks
<1> QED
  BY <1>3, <1>6, <1>7

LEMMA DeleteCountLocks ==
    ASSUME LocksInv, TypeInv', NEW c \in Procs, DeleteCount(c)
    PROVE  LocksInv'
<1>1. PICK p, r : p = call[c].part /\ r = [call[c] EXCEPT !.pc = "drop"]
  OBVIOUS
<1>2. /\ call[c].pc \in LockHeld /\ UNCHANGED <<tableMu, live>>
      /\ parts' = [parts EXCEPT ![p].mu = Nobody]
      /\ call \in [Procs -> CallType(Len(parts))]
  BY <1>1, TypesOf DEF DeleteCount, LockHeld, LocksInv, TypeInv
<1>3. call' = [call EXCEPT ![c] = r] /\ r.pc \notin LockHeld \cup Tabled
  BY <1>1, <1>2 DEF DeleteCount, CallType, LockHeld, Tabled
<1> QED
  BY <1>1, <1>2, <1>3, FreesLock

(* A partition may be dropped: its lock stays. *)
LEMMA DropMu ==
    ASSUME TypeInv, NEW c \in Procs, NEW p \in 1 .. Len(parts), NEW pk \in PKs,
           DropIfEmpty(c, p, pk)
    PROVE  MuSame
<1>1. Len(parts) \in Nat
  BY TypesOf DEF TypeInv
<1> QED
  BY <1>1, DropType DEF MuSame

LEMMA DeleteDropLocks ==
    ASSUME LocksInv, TypeInv', NEW c \in Procs, DeleteDrop(c)
    PROVE  LocksInv'
<1>1. PICK r, p, pk : /\ r = [call[c] EXCEPT !.pc = "log"] /\ p = call[c].part
                      /\ pk = PartOf[call[c].todo[1].key]
  OBVIOUS
<1>2. /\ TypeInv /\ call[c].pc = "drop" /\ tableMu' = tableMu /\ tableMu = Nobody
      /\ call \in [Procs -> CallType(Len(parts))] /\ DropIfEmpty(c, p, pk)
  BY <1>1, TypesOf DEF DeleteDrop, LocksInv, TypeInv
<1>3. call' = [call EXCEPT ![c] = r] /\ r.pc = "log"
  BY <1>1, <1>2 DEF DeleteDrop, CallType
<1>4. MuSame
  BY <1>1, <1>2, CallProps, DropMu DEF Removals
<1> QED
  BY <1>2, <1>3, <1>4, MovesLocks DEF LockHeld, Tabled

LEMMA DeleteStreamLocks ==
    ASSUME LocksInv, TypeInv', NEW c \in Procs, DeleteStream(c)
    PROVE  LocksInv'
<1>1. /\ call[c].pc = "log" /\ UNCHANGED <<parts, live, tableMu>>
      /\ call' = [call EXCEPT ![c] = Idle]
  BY DEF DeleteStream
<1>2. MuSame
  BY <1>1, MuUntouched DEF LocksInv
<1> QED
  BY <1>1, <1>2, IdlePc, MovesLocks DEF LockHeld, Tabled

(* Under the table's lock, which c keeps until it is done. *)
LEMMA TabledLocks ==
    ASSUME LocksInv, TypeInv', NEW c \in Procs, OthersWait(c), MuSame,
           call[c].pc \in Tabled,
           \/ call'[c].pc \in Tabled /\ tableMu' \in {c, tableMu}
           \/ call'[c].pc = "idle" /\ tableMu' = Nobody,
           call'[c].pc = "tally" =>
              call'[c].part = live'[PartOf[call'[c].todo[1].key]]
    PROVE  LocksInv'
<1>1. tableMu = c
  BY DEF LocksInv, TableOwned
<1>2. Owns(c)
  BY OwnsSame DEF LockHeld, Tabled
<1>3. TableTurn(c) /\ MapTurn(c)
  BY <1>1 DEF TableTurn, MapTurn, Tabled
<1> QED
  BY <1>2, <1>3, LocksStep

LEMMA WrittenLocks ==
    ASSUME LocksInv, TypeInv', NEW c \in Procs, call[c].pc \in Tabled, MuSame,
           NEW p, NEW recounts \in BOOLEAN, Written(c, p, recounts),
           recounts => p = live'[PartOf[call[c].todo[1].key]]
    PROVE  LocksInv'
BY WrittenMoves, TabledLocks DEF LocksInv, Tabled

LEMMA ReadInTableLocks ==
    ASSUME LocksInv, TypeInv', NEW c \in Procs, ReadInTable(c)
    PROVE  LocksInv'
<1>1. PICK old, r : /\ old = GetItem(Head(call[c].todo).key)
                    /\ r = [call[c] EXCEPT !.pc = "update", !.old = old]
  BY Zenon
<1>2. /\ TypeInv /\ call[c].pc \in Tabled /\ UNCHANGED <<parts, tableMu>>
      /\ call \in [Procs -> CallType(Len(parts))]
  BY TypesOf DEF ReadInTable, Tabled, LocksInv, TypeInv
<1>3. call' = [call EXCEPT ![c] = r] /\ r.pc = "update"
  BY <1>1, <1>2 DEF ReadInTable, CallType
<1>4. OthersWait(c) /\ call'[c].pc = "update" /\ MuSame
  BY <1>2, <1>3, CallStep, MuUntouched
<1> QED
  BY <1>2, <1>4, TabledLocks DEF Tabled

(* A write in a partition that is looked up or made. *)
LEMMA FoundWriteLocks ==
    ASSUME LocksInv, TypeInv', NEW c \in Procs, call[c].pc \in Tabled,
           NEW k, k = call[c].todo[1].key, NEW v, NEW f, f = GetOrCreate(PartOf[k]),
           parts' = WriteItem(f.all, c, f.id, k, v),
           live' = [live EXCEPT ![PartOf[k]] = f.id],
           NEW recounts \in BOOLEAN, Written(c, f.id, recounts)
    PROVE  LocksInv'
<1>1. PICK pk \in PKs : pk = PartOf[k]
  BY CallProps, Zenon DEF LocksInv
<1>2. MuSame
  <2>1. f = GetOrCreate(pk) /\ TypeInv
    BY <1>1, Zenon DEF LocksInv
  <2> QED
    BY <2>1, FoundWriteMu
<1>3. live'[pk] = f.id
  BY <1>1, Zenon DEF LocksInv, TypeInv, TypeOK
<1> QED
  BY <1>1, <1>2, <1>3, WrittenLocks, Zenon

LEMMA UpdateWriteLocks ==
    ASSUME LocksInv, TypeInv', NEW c \in Procs, UpdateWrite(c)
    PROVE  LocksInv'
<1>1. PICK k, v, f : /\ k = Head(call[c].todo).key /\ v = Head(call[c].todo).to
                     /\ f = GetOrCreate(PartOf[k])
  BY Zenon
<1>2. PICK recounts \in BOOLEAN : recounts = (f.all[f.id].items[k] = NoItem)
  BY Zenon
<1>3. /\ call[c].pc \in Tabled /\ parts' = WriteItem(f.all, c, f.id, k, v)
      /\ live' = [live EXCEPT ![PartOf[k]] = f.id] /\ Written(c, f.id, recounts)
  BY <1>1, <1>2, Zenon DEF UpdateWrite, Tabled
<1>4. k = call[c].todo[1].key
  BY <1>1, <1>3, TxNext, Zenon DEF LocksInv
<1> QED
  BY <1>1, <1>3, <1>4, FoundWriteLocks, Zenon

LEMMA PutInTableLocks ==
    ASSUME LocksInv, TypeInv', NEW c \in Procs, PutInTable(c)
    PROVE  LocksInv'
<1>1. PICK k, v, f : /\ k = Head(call[c].todo).key /\ v = Head(call[c].todo).to
                     /\ f = GetOrCreate(PartOf[k])
  BY Zenon
<1>2. PICK recounts \in BOOLEAN : recounts = (f.all[f.id].items[k] = NoItem)
  BY Zenon
<1>3. /\ call[c].pc \in Tabled /\ parts' = WriteItem(f.all, c, f.id, k, v)
      /\ live' = [live EXCEPT ![PartOf[k]] = f.id] /\ Written(c, f.id, recounts)
  BY <1>1, <1>2, Zenon DEF PutInTable, Tabled
<1>4. k = call[c].todo[1].key
  BY <1>1, <1>3, TxNext DEF LocksInv
<1> QED
  BY <1>1, <1>3, <1>4, FoundWriteLocks

LEMMA DeleteFromTableLocks ==
    ASSUME LocksInv, TypeInv', NEW c \in Procs, DeleteFromTable(c)
    PROVE  LocksInv'
<1>1. PICK w, k, p : w = Head(call[c].todo) /\ k = w.key /\ p = live[PartOf[k]]
  OBVIOUS
<1>2. PICK recounts \in BOOLEAN : recounts = (GetItem(k) # NoItem)
  BY Zenon
<1>3. /\ TypeInv /\ call[c].pc \in Tabled /\ live' = live /\ Written(c, p, recounts)
      /\ IF recounts THEN parts' = WriteItem(parts, c, p, k, NoItem) ELSE parts' = parts
  BY <1>1, <1>2, Zenon DEF DeleteFromTable, LocksInv, Tabled
<1>4. k = call[c].todo[1].key /\ PartOf[k] \in PKs
  BY <1>1, <1>3, CallProps
<1>5. MuSame
  <2>1. CASE ~recounts
    BY <1>3, <2>1, MuUntouched
  <2>2. CASE recounts
    <3>1. p # 0
      BY <1>1, <1>2, <2>2, Zenon DEF GetItem
    <3>2. live \in [PKs -> 0 .. Len(parts)] /\ Len(parts) \in Nat
      BY <1>3, TypesOf DEF TypeInv, TypeOK
    <3>3. p \in 1 .. Len(parts)
      BY <1>1, <1>4, <3>1, <3>2
    <3> QED
      BY <1>3, <2>2, <3>3, WriteMuHere
  <2> QED
    BY <2>1, <2>2
<1> QED
  BY <1>1, <1>3, <1>4, <1>5, WrittenLocks

LEMMA CountInTableLocks ==
    ASSUME LocksInv, TypeInv', NEW c \in Procs, CountInTable(c)
    PROVE  LocksInv'
<1>1. PICK p, pk : p = call[c].part /\ pk = PartOf[Head(call[c].todo).key]
  OBVIOUS
<1>2. /\ TypeInv /\ call[c].pc = "tally" /\ call[c].pc \in Tabled /\ Done(c)
      /\ DropIfEmpty(c, p, pk) \/ parts' = parts
  BY <1>1 DEF CountInTable, LocksInv, Tabled
<1>3. p \in 1 .. Len(parts) /\ pk \in PKs
  BY <1>1, <1>2, CallProps
<1>4. MuSame
  BY <1>2, <1>3, DropMu, MuUntouched
<1> QED
  BY <1>2, <1>4, DoneMoves, TabledLocks DEF Tabled

LEMMA LocksNext ==
    ASSUME LocksInv, [Next]_vars
    PROVE  LocksInv'
<1>1. TypeInv'
  BY TypeStep DEF LocksInv
<1>2. CASE UNCHANGED vars
  BY <1>1, <1>2 DEF vars, LocksInv, PartsOwned, LockKept, TableOwned, TallyIsLive
<1>3. ASSUME NEW c \in Clients, NEW w \in Requests,
             PutItem(c, w) \/ DeleteItem(c, w) \/ UpdateItem(c, w)
      PROVE  LocksInv'
  BY <1>1, <1>3, PutItemLocks, DeleteItemLocks, UpdateItemLocks
<1>4. ASSUME NEW c \in Procs, Step(c)
      PROVE  LocksInv'
  BY <1>1, <1>4, PutCheckLocks, PutWriteLocks, PutCountLocks, PutIndexLocks,
     PutStreamLocks, DeleteWriteLocks, DeleteCountLocks, DeleteDropLocks,
     DeleteStreamLocks, ReadInTableLocks, UpdateWriteLocks, PutInTableLocks,
     DeleteFromTableLocks, CountInTableLocks DEF Step
<1> QED
  BY <1>1, <1>2, <1>3, <1>4, TransactLocks, ScanLocks DEF Next

LEMMA LocksInit == Init => LocksInv
<1> SUFFICES ASSUME Init PROVE LocksInv
  OBVIOUS
<1>1. TypeInv
  BY InitType
<1>2. tableMu = Nobody /\ \A c \in Procs : call[c].pc = "idle"
  BY IdlePc DEF Init
<1>3. TableOwned
  BY <1>2, DynamoParametersAssumption DEF TableOwned, Tabled, Procs
<1>4. \A i \in 1 .. Len(parts) : parts[i].mu = Nobody
  <2>1. PICK t \in Loads :
            parts = IF t = <<>> THEN <<>>
                    ELSE <<[EmptyPartition(PartOf[t[1].key]) EXCEPT
                              !.items = [k \in Keys |-> Loaded(t, k)]]>>
    BY DEF Init
  <2>2. PICK e : e = [EmptyPartition(PartOf[t[1].key]) EXCEPT
                        !.items = [k \in Keys |-> Loaded(t, k)]]
    OBVIOUS
  <2>3. e.mu = Nobody
    BY <2>2 DEF EmptyPartition
  <2>4. parts = <<>> \/ parts = <<e>>
    BY <2>1, <2>2
  <2> QED
    BY <2>3, <2>4
<1>5. PartsOwned /\ LockKept /\ TallyIsLive
  BY <1>2, <1>4 DEF PartsOwned, LockKept, LockHeld, TallyIsLive
<1> QED
  BY <1>1, <1>3, <1>5 DEF LocksInv

(* Whoever keeps the table's lock goes on; while nobody does, so does who  *)
(* holds a partition's.                                                    *)
LEMMA HolderGoesOn == LocksInv => NoCircularWait
<1> SUFFICES ASSUME LocksInv, NEW c \in Procs, call[c].pc # "idle"
             PROVE  \E d \in Procs : CanGoOn(d)
  BY DEF NoCircularWait
<1>1. tableMu \in Procs \cup {Nobody}
  BY DEF LocksInv, TypeInv, TypeOK
<1>2. CASE tableMu # Nobody
  <2>1. tableMu \in Procs /\ call[tableMu].pc \in Tabled
    BY <1>1, <1>2 DEF LocksInv, TableOwned
  <2> QED
    BY <2>1 DEF CanGoOn, Tabled
<1>3. CASE tableMu = Nobody
  <2>1. CASE call[c].pc \notin {"lock", "remove"} \/ parts[call[c].part].mu = Nobody
    BY <1>3, <2>1 DEF CanGoOn
  <2>2. CASE call[c].pc \in {"lock", "remove"} /\ parts[call[c].part].mu # Nobody
    <3>1. call[c].part \in 1 .. Len(parts) /\ parts \in Seq(PartitionType)
      BY <2>2, CallProps, TypesOf DEF LocksInv, TypeInv, Puts, Removals
    <3>2. PICK d : d = parts[call[c].part].mu
      OBVIOUS
    <3>3. d \in Procs /\ call[d].pc \in LockHeld
      <4>1. parts[call[c].part] \in PartitionType
        BY <3>1
      <4>2. d \in Procs
        BY <2>2, <3>2, <4>1 DEF PartitionType
      <4> QED
        BY <2>2, <3>1, <3>2, <4>2 DEF LocksInv, PartsOwned
    <3> QED
      BY <1>3, <3>3 DEF CanGoOn, LockHeld
  <2> QED
    BY <2>1, <2>2
<1> QED
  BY <1>2, <1>3

(* A lock is held only by a call that is past taking it, and calls never   *)
(* wait for each other in a circle, though PutItem takes the table's lock  *)
(* while it holds its partition's (store.go:271): one can always go on.    *)
(* That each call returns is CallsReturn.                                  *)
THEOREM NoDeadlock == Spec => [](PartsOwned /\ TableOwned /\ NoCircularWait)
<1>1. LocksInv /\ [Next]_vars => LocksInv'
  BY LocksNext
<1>2. LocksInv => PartsOwned /\ TableOwned /\ NoCircularWait
  BY HolderGoesOn DEF LocksInv
<1> QED
  BY <1>1, <1>2, LocksInit, PTL DEF Spec
-----------------------------------------------------------------------------
(* Settled writes.                                                         *)

(* A call that overlaps a removal from its partition key is not calm.      *)
Warned ==
    \A c, d \in Procs :
        c # d /\ call[c].calm => RemovesFrom(call[d]) \cap PKsOf(call[c]) = {}

(* A calm call still has the partition the map leads to.                   *)
CalmIsLive ==
    \A c \in Procs :
        call[c].pc \in {"lock", "write", "remove"} /\ call[c].calm
        => call[c].part = live[PartOf[call[c].todo[1].key]]

(* While a removal works on a partition the map has lost, no settled item  *)
(* is in the one that replaced it.                                         *)
OrphansAreAlone ==
    \A c \in Procs, k \in sure :
        /\ call[c].pc \in {"remove", "uncount", "drop"}
        /\ PartOf[k] = PartOf[call[c].todo[1].key]
        /\ call[c].part # live[PartOf[k]]
        /\ ~Raced(PartOf[k])
        => last[k] = NoItem

SettledInv ==
    TypeInv /\ Warned /\ CalmIsLive /\ OrphansAreAlone /\ SettledWritesStick

LEMMA FewerWrites ==
    ASSUME NEW r, NEW s, ToSet(r.todo) \subseteq ToSet(s.todo)
    PROVE  RemovesFrom(r) \subseteq RemovesFrom(s) /\ PKsOf(r) \subseteq PKsOf(s)
BY DEF RemovesFrom, PKsOf, KeysOf

LEMMA SameWrites ==
    ASSUME NEW r, NEW s, r.todo = s.todo
    PROVE  RemovesFrom(r) = RemovesFrom(s) /\ PKsOf(r) = PKsOf(s)
BY DEF RemovesFrom, PKsOf, KeysOf

(* c goes on. *)
Continues(c) ==
    /\ ToSet(call'[c].todo) \subseteq ToSet(call[c].todo)
    /\ call'[c].calm => call[c].calm
    /\ call'[c].pc \notin {"lock", "remove"}
    /\ call'[c].pc = "write" => call[c].pc = "lock"
    /\ call'[c].pc = "uncount" => call[c].pc = "remove"
    /\ call'[c].pc = "drop" => call[c].pc = "uncount"
    /\ call'[c].pc \in {"write", "uncount", "drop"} =>
          call'[c].todo = call[c].todo /\ call'[c].part = call[c].part

(* c begins. *)
Begins(c) ==
    /\ \A x \in Procs \ {c} :
          /\ call'[c].calm => RemovesFrom(call[x]) \cap PKsOf(call'[c]) = {}
          /\ call'[x].calm => RemovesFrom(call'[c]) \cap PKsOf(call[x]) = {}
    /\ call'[c].pc \notin {"write", "uncount", "drop"}
    /\ call'[c].pc \in {"lock", "remove"} =>
          call'[c].part = live'[PartOf[call'[c].todo[1].key]]

LEMMA WarnedStep ==
    ASSUME Warned, NEW c \in Procs, OthersWait(c), Continues(c) \/ Begins(c)
    PROVE  Warned'
<1> SUFFICES ASSUME NEW x \in Procs, NEW y \in Procs, x # y, call'[x].calm
             PROVE  RemovesFrom(call'[y]) \cap PKsOf(call'[x]) = {}
  BY DEF Warned, RemovesFrom, PKsOf, KeysOf
<1>1. \A z \in Procs \ {c} : /\ RemovesFrom(call'[z]) = RemovesFrom(call[z])
                             /\ PKsOf(call'[z]) = PKsOf(call[z])
                             /\ call'[z].calm => call[z].calm
  BY SameWrites DEF OthersWait, SameCall
<1>2. call[x].calm => RemovesFrom(call[y]) \cap PKsOf(call[x]) = {}
  BY DEF Warned
<1>3. CASE x # c /\ y # c
  BY <1>1, <1>2, <1>3
<1>4. CASE Continues(c)
  <2>1. /\ RemovesFrom(call'[c]) \subseteq RemovesFrom(call[c])
        /\ PKsOf(call'[c]) \subseteq PKsOf(call[c])
        /\ call'[c].calm => call[c].calm
    BY <1>4, FewerWrites DEF Continues
  <2> QED
    BY <1>1, <1>2, <2>1
<1>5. CASE Begins(c) /\ (x = c \/ y = c)
  BY <1>1, <1>5 DEF Begins
<1> QED
  BY <1>3, <1>4, <1>5

(* A partition of the map changes when there is none and one is made, or   *)
(* when a removal drops it.                                                *)
MapMoves(c) ==
    \A pk \in PKs :
        \/ live'[pk] = live[pk]
        \/ live[pk] = 0
        \/ /\ live'[pk] = 0 /\ pk \in RemovesFrom(call[c])
           /\ call'[c].pc \notin {"lock", "write", "remove"}

LEMMA CalmIsLiveStep ==
    ASSUME TypeInv, Warned, CalmIsLive, NEW c \in Procs, OthersWait(c), MapMoves(c),
           Continues(c) \/ Begins(c)
    PROVE  CalmIsLive'
<1> SUFFICES ASSUME NEW x \in Procs, call'[x].pc \in {"lock", "write", "remove"},
                    call'[x].calm
             PROVE  call'[x].part = live'[PartOf[call'[x].todo[1].key]]
  BY DEF CalmIsLive
<1>1. CASE x = c /\ Begins(c)
  BY <1>1 DEF Begins
<1>2. CASE x # c \/ Continues(c)
  <2>1. /\ call[x].pc \in {"lock", "write", "remove"} /\ call[x].calm
        /\ call'[x].todo = call[x].todo /\ call'[x].part = call[x].part
    BY <1>2 DEF OthersWait, SameCall, Continues
  <2>2. PICK pk : pk = PartOf[call[x].todo[1].key]
    OBVIOUS
  <2>3. /\ call[x].part = live[pk] /\ call[x].part \in 1 .. Len(parts)
        /\ pk \in PKs /\ pk \in PKsOf(call[x])
    BY <2>1, <2>2, CallProps DEF CalmIsLive, Puts, Removals, PKsOf, KeysOf
  <2>4. Len(parts) \in Nat
    BY TypesOf DEF TypeInv
  <2>5. x # c => pk \notin RemovesFrom(call[c])
    BY <2>1, <2>3 DEF Warned
  <2>6. live'[pk] = live[pk]
    BY <2>3, <2>4, <2>5 DEF MapMoves
  <2> QED
    BY <2>1, <2>2, <2>3, <2>6
<1> QED
  BY <1>1, <1>2

RacedStay == \A pk \in PKs : Raced(pk) => Raced(pk)'

(* What a step of c does to the settled items: it leaves them, removes one *)
(* of them, or puts one, calmly and under a key it is for.                 *)
Settles(c) ==
    \A k \in sure' :
        \/ k \in sure /\ last'[k] = last[k]
        \/ last'[k] = NoItem
        \/ /\ call[c].calm /\ PartOf[k] \in PKsOf(call[c])
           /\ call'[c].pc \notin {"remove", "uncount", "drop"}

LEMMA OrphansStep ==
    ASSUME TypeInv, TypeInv', Warned, OrphansAreAlone,
           SettledWritesStick, SettledWritesStick', NEW c \in Procs, OthersWait(c),
           MapMoves(c), Continues(c) \/ Begins(c), RacedStay, Settles(c)
    PROVE  OrphansAreAlone'
<1> SUFFICES ASSUME NEW x \in Procs, NEW k \in sure',
                    call'[x].pc \in {"remove", "uncount", "drop"},
                    PartOf[k] = PartOf[call'[x].todo[1].key],
                    call'[x].part # live'[PartOf[k]],
                    ~Raced(PartOf[k])'
             PROVE  last'[k] = NoItem
  BY DEF OrphansAreAlone
<1>1. k \in Keys /\ PartOf[k] \in PKs
  BY DynamoParametersAssumption DEF TypeInv, TypeOK
<1>2. ~Raced(PartOf[k])
  BY <1>1 DEF RacedStay
<1>3. CASE call[c].calm /\ PartOf[k] \in PKsOf(call[c])
           /\ call'[c].pc \notin {"remove", "uncount", "drop"}
  <2>1. /\ x # c /\ call[x].pc \in Removals
        /\ PartOf[k] = PartOf[call[x].todo[1].key]
    BY <1>3 DEF OthersWait, SameCall, Removals
  <2>2. /\ call[x].todo[1] \in ToSet(call[x].todo) /\ call[x].todo[1].to = NoItem
    BY <2>1, CallProps
  <2>3. PartOf[k] \in RemovesFrom(call[x])
    BY <2>1, <2>2 DEF RemovesFrom
  <2> QED
    BY <1>3, <2>1, <2>3 DEF Warned
<1>4. CASE k \in sure /\ last'[k] = last[k]
  <2>1. CASE live'[PartOf[k]] = 0
    <3>1. GetItem(k)' = NoItem
      BY <2>1 DEF GetItem
    <3> QED
      BY <3>1 DEF SettledWritesStick
  <2>2. CASE live[PartOf[k]] = 0
    <3>1. GetItem(k) = NoItem
      BY <2>2 DEF GetItem
    <3> QED
      BY <1>2, <1>4, <3>1 DEF SettledWritesStick
  <2>3. CASE live[PartOf[k]] # 0 /\ live'[PartOf[k]] # 0
    <3>1. live'[PartOf[k]] = live[PartOf[k]]
      BY <1>1, <2>3 DEF MapMoves
    <3>2. CASE x = c /\ Begins(c)
      BY <3>2 DEF Begins
    <3>3. CASE x # c \/ Continues(c)
      <4>1. /\ call[x].pc \in {"remove", "uncount", "drop"}
            /\ call'[x].todo = call[x].todo /\ call'[x].part = call[x].part
        BY <3>3 DEF OthersWait, SameCall, Continues
      <4> QED
        BY <1>2, <1>4, <3>1, <4>1 DEF OrphansAreAlone
    <3> QED
      BY <3>2, <3>3
  <2> QED
    BY <2>1, <2>2, <2>3
<1> QED
  BY <1>3, <1>4 DEF Settles

(* A step that writes nothing leaves the settled items where they were.    *)
LEMMA SettledSame ==
    ASSUME TypeInv, SettledWritesStick, RacedStay, UNCHANGED <<last, sure>>,
           \A k \in Keys : GetItem(k)' = GetItem(k)
    PROVE  SettledWritesStick'
<1>1. \A k \in sure : k \in Keys /\ PartOf[k] \in PKs
  BY DynamoParametersAssumption DEF TypeInv, TypeOK
<1> QED
  BY <1>1 DEF SettledWritesStick, RacedStay

(* So does one that writes, but for the item it writes. *)
LEMMA SettledLand ==
    ASSUME TypeInv, SettledWritesStick, RacedStay, NEW c, NEW p, NEW k \in Keys,
           NEW v, Land(c, p, k, v),
           \A j \in Keys \ {k} : ~Raced(PartOf[j])' => GetItem(j)' = GetItem(j),
           call[c].calm /\ ~Raced(PartOf[k])' => GetItem(k)' = v
    PROVE  SettledWritesStick'
<1> SUFFICES ASSUME NEW j \in sure', ~Raced(PartOf[j])'
             PROVE  GetItem(j)' = last'[j]
  BY DEF SettledWritesStick
<1>1. /\ last \in [Keys -> Values \cup {NoItem}] /\ sure \subseteq Keys
      /\ last' = [last EXCEPT ![k] = v]
      /\ sure' = IF call[c].calm THEN sure \cup {k} ELSE sure \ {k}
  BY DEF TypeInv, TypeOK, Land
<1>2. CASE j = k
  BY <1>1, <1>2
<1>3. CASE j # k
  <2>1. j \in sure /\ j \in Keys /\ PartOf[j] \in PKs
    BY <1>1, <1>3, DynamoParametersAssumption
  <2>2. GetItem(j)' = GetItem(j) /\ ~Raced(PartOf[j])
    BY <1>3, <2>1 DEF RacedStay
  <2> QED
    BY <1>1, <1>3, <2>1, <2>2 DEF SettledWritesStick
<1> QED
  BY <1>2, <1>3

(* What writing does to the settled: see Settles. *)
LEMMA LandSettles ==
    ASSUME TypeInv, NEW c \in Procs, NEW p, NEW k \in Keys, NEW v, Land(c, p, k, v),
           \/ v = NoItem
           \/ PartOf[k] \in PKsOf(call[c]) /\ call'[c].pc \notin {"remove", "uncount", "drop"}
    PROVE  Settles(c)
<1>1. /\ last \in [Keys -> Values \cup {NoItem}] /\ sure \subseteq Keys
      /\ last' = [last EXCEPT ![k] = v]
      /\ sure' = IF call[c].calm THEN sure \cup {k} ELSE sure \ {k}
  BY DEF TypeInv, TypeOK, Land
<1> QED
  BY <1>1 DEF Settles

(* The reading of an item after a step that moves neither map nor items.   *)
LEMMA GetItemSame ==
    ASSUME TypeInv, live' = live,
           \A q \in 1 .. Len(parts) : parts'[q].items = parts[q].items
    PROVE  \A k \in Keys : GetItem(k)' = GetItem(k)
<1> TAKE k \in Keys
<1>1. PartOf[k] \in PKs
  BY DynamoParametersAssumption
<1>2. live[PartOf[k]] \in 0 .. Len(parts) /\ Len(parts) \in Nat
  BY <1>1, TypesOf DEF TypeInv, TypeOK
<1> QED
  BY <1>2 DEF GetItem

(* Races leave their trace. *)
LEMMA RacedKept ==
    ASSUME TypeInv, PartsGrow, parts' \in Seq(PartitionType),
           \A q \in 1 .. Len(parts) : parts[q].raced => parts'[q].raced
    PROVE  RacedStay
<1>1. Len(parts) \in Nat /\ Len(parts') \in Nat /\ Len(parts') >= Len(parts)
      /\ DOMAIN parts = 1 .. Len(parts) /\ DOMAIN parts' = 1 .. Len(parts')
  BY TypesOf DEF TypeInv, PartsGrow
<1> QED
  BY <1>1 DEF RacedStay, Raced, PartsGrow

LEMMA SettledStep ==
    ASSUME SettledInv, TypeInv', SettledWritesStick', NEW c \in Procs, OthersWait(c),
           MapMoves(c), Continues(c) \/ Begins(c), RacedStay, Settles(c)
    PROVE  SettledInv'
BY WarnedStep, CalmIsLiveStep, OrphansStep DEF SettledInv

LEMMA StartBegins ==
    ASSUME NEW c \in Procs, NEW n, NEW r \in CallType(n), Start(c, r),
           r.pc \notin {"write", "uncount", "drop"},
           r.pc \in {"lock", "remove"} => r.part = live'[PartOf[r.todo[1].key]],
           call \in [Procs -> CallType(n)]
    PROVE  OthersWait(c) /\ Begins(c)
<1> DEFINE mine == [r EXCEPT !.calm = \A y \in Procs \ {c} :
                                 RemovesFrom(call[y]) \cap PKsOf(r) = {}]
           yours(x) == [call[x] EXCEPT !.calm =
                           @ /\ RemovesFrom(r) \cap PKsOf(call[x]) = {}]
<1>1. call' = [x \in Procs |-> IF x = c THEN mine ELSE yours(x)]
  BY DEF Start
<1>2. /\ mine.pc = r.pc /\ mine.todo = r.todo /\ mine.part = r.part
      /\ mine.calm => \A y \in Procs \ {c} : RemovesFrom(call[y]) \cap PKsOf(r) = {}
  BY DEF CallType
<1>3. ASSUME NEW x \in Procs
      PROVE  /\ yours(x).pc = call[x].pc /\ yours(x).todo = call[x].todo
             /\ yours(x).part = call[x].part
             /\ yours(x).calm => call[x].calm /\ RemovesFrom(r) \cap PKsOf(call[x]) = {}
  BY DEF CallType
<1> HIDE DEF mine, yours
<1>4. /\ call'[c] = mine
      /\ \A x \in Procs \ {c} : call'[x] = yours(x)
  BY <1>1
<1>5. OthersWait(c)
  BY StartWaits
<1>6. RemovesFrom(call'[c]) = RemovesFrom(r) /\ PKsOf(call'[c]) = PKsOf(r)
  BY <1>2, <1>4, SameWrites
<1>7. Begins(c)
  BY <1>2, <1>3, <1>4, <1>6 DEF Begins
<1> QED
  BY <1>5, <1>7

(* A start that touches neither the partitions nor the map. *)
LEMMA QuietStartSettled ==
    ASSUME SettledInv, TypeInv', NEW c \in Procs, NEW r \in CallType(Len(parts)),
           Start(c, r), r.pc \notin {"write", "uncount", "drop", "lock"},
           r.pc = "remove" => r.part = live[PartOf[r.todo[1].key]],
           UNCHANGED <<parts, live, last, sure>>
    PROVE  SettledInv'
<1>1. TypeInv /\ SettledWritesStick
  BY DEF SettledInv
<1>2. call \in [Procs -> CallType(Len(parts))]
  BY <1>1, TypesOf DEF TypeInv
<1>3. r.pc \in {"lock", "remove"} => r.part = live'[PartOf[r.todo[1].key]]
  OBVIOUS
<1>4. PICK n : n = Len(parts)
  OBVIOUS
<1>5. OthersWait(c) /\ Begins(c)
  BY <1>2, <1>3, <1>4, StartBegins
<1>6. RacedStay /\ MapMoves(c) /\ Settles(c)
  BY DEF RacedStay, Raced, MapMoves, Settles
<1>7. \A k \in Keys : GetItem(k)' = GetItem(k)
  BY <1>1, GetItemSame
<1>8. SettledWritesStick'
  BY <1>1, <1>6, <1>7, SettledSame
<1> QED
  BY <1>5, <1>6, <1>8, SettledStep

(* A step of a call that touches neither the map nor an item. *)
LEMMA QuietStepSettled ==
    ASSUME SettledInv, TypeInv', NEW c \in Procs, NEW r \in CallType(Len(parts)),
           call' = [call EXCEPT ![c] = r], UNCHANGED <<live, last, sure>>,
           ToSet(r.todo) \subseteq ToSet(call[c].todo), r.calm => call[c].calm,
           r.pc \notin {"lock", "remove", "uncount"},
           r.pc = "write" => call[c].pc = "lock",
           r.pc = "drop" => call[c].pc = "uncount",
           r.pc \in {"write", "drop"} => /\ r.todo = call[c].todo
                                        /\ r.part = call[c].part,
           RacedStay,
           \A q \in 1 .. Len(parts) : parts'[q].items = parts[q].items
    PROVE  SettledInv'
<1>1. TypeInv /\ SettledWritesStick
  BY DEF SettledInv
<1>2. call \in [Procs -> CallType(Len(parts))]
  BY <1>1, TypesOf DEF TypeInv
<1>3. OthersWait(c) /\ Continues(c)
  BY <1>2 DEF OthersWait, SameCall, Continues
<1>4. MapMoves(c) /\ Settles(c)
  BY DEF MapMoves, Settles
<1>5. \A k \in Keys : GetItem(k)' = GetItem(k)
  BY <1>1, GetItemSame
<1>6. SettledWritesStick'
  BY <1>1, <1>5, SettledSame
<1> QED
  BY <1>3, <1>4, <1>6, SettledStep

LEMMA PutItemSettled ==
    ASSUME SettledInv, TypeInv', NEW c \in Clients, NEW w \in Requests, PutItem(c, w)
    PROVE  SettledInv'
<1>1. PICK pk, f, r : /\ pk = PartOf[w.key] /\ f = GetOrCreate(pk)
                      /\ r = [Idle EXCEPT !.pc = "lock", !.todo = <<w>>, !.part = f.id]
  BY Zenon
<1>2. TypeInv /\ SettledWritesStick /\ c \in Procs
  BY DEF SettledInv, Procs
<1>3. w \in Write /\ w.key \in Keys /\ pk \in PKs
  BY <1>1, DynamoParametersAssumption, WriteIs DEF PutItem
<1>4. /\ parts' = f.all /\ live' = [live EXCEPT ![pk] = f.id]
      /\ Start(c, r) /\ UNCHANGED <<last, sure>>
  BY <1>1 DEF PutItem
<1>5. /\ f.all \in Seq(PartitionType)
      /\ f.id \in 1 .. Len(f.all) /\ f.all[f.id].pk = pk
      /\ Len(parts) \in Nat /\ Len(f.all) >= Len(parts)
      /\ \A p \in 1 .. Len(parts) : f.all[p] = parts[p]
      /\ live[pk] # 0 => f.all = parts /\ f.id = live[pk]
      /\ live[pk] = 0 => f.all[f.id] = EmptyPartition(pk)
  BY <1>1, <1>2, <1>3, Found DEF TypeInv
<1>6. live \in [PKs -> 0 .. Len(parts)]
  BY <1>2 DEF TypeInv, TypeOK
<1>7. PartsGrow /\ RacedStay
  <2>1. PartsGrow /\ parts' \in Seq(PartitionType)
    BY <1>4, <1>5 DEF PartsGrow
  <2>2. \A q \in 1 .. Len(parts) : parts[q].raced => parts'[q].raced
    BY <1>4, <1>5
  <2> QED
    BY <1>2, <2>1, <2>2, RacedKept
<1>8. MapMoves(c)
  BY <1>4, <1>5, <1>6 DEF MapMoves
<1>9. ASSUME NEW k \in Keys PROVE GetItem(k)' = GetItem(k)
  <2>1. PartOf[k] \in PKs
    BY DynamoParametersAssumption
  <2>2. CASE PartOf[k] # pk \/ live[pk] # 0
    <3>1. live'[PartOf[k]] = live[PartOf[k]] /\ live[PartOf[k]] \in 0 .. Len(parts)
      BY <1>3, <1>4, <1>5, <1>6, <2>1, <2>2
    <3> QED
      BY <1>4, <1>5, <3>1 DEF GetItem
  <2>3. CASE PartOf[k] = pk /\ live[pk] = 0
    <3>1. live'[pk] = f.id /\ f.id # 0
      BY <1>3, <1>4, <1>5, <1>6
    <3>2. parts'[f.id].items[k] = NoItem
      BY <1>4, <1>5, <2>3 DEF EmptyPartition
    <3> QED
      BY <2>3, <3>1, <3>2 DEF GetItem
  <2> QED
    BY <2>2, <2>3
<1>10. SettledWritesStick'
  BY <1>2, <1>4, <1>7, <1>9, SettledSame
<1>11. PICK n : n = Len(parts')
  OBVIOUS
<1>12. r \in CallType(n) /\ r.pc = "lock" /\ r.todo = <<w>> /\ r.part = f.id
  <2>1. n \in Nat /\ f.id \in 0 .. n /\ <<w>> \in Seq(Write)
    BY <1>3, <1>4, <1>5, <1>11, Single
  <2> QED
    BY <1>1, <2>1, IdleType DEF CallType
<1>13. call \in [Procs -> CallType(n)]
  <2>1. call \in [Procs -> CallType(Len(parts))] /\ n \in Nat /\ n >= Len(parts)
    BY <1>2, <1>4, <1>5, <1>11, TypesOf DEF TypeInv
  <2> QED
    BY <1>5, <2>1 DEF CallType
<1>14. r.pc \in {"lock", "remove"} => r.part = live'[PartOf[r.todo[1].key]]
  <2>1. r.todo[1] = w
    BY <1>12
  <2> QED
    BY <1>1, <1>3, <1>4, <1>6, <1>12, <2>1
<1>15. OthersWait(c) /\ Begins(c)
  BY <1>2, <1>4, <1>12, <1>13, <1>14, StartBegins
<1>16. Settles(c)
  BY <1>4 DEF Settles
<1> QED
  BY <1>2, <1>7, <1>8, <1>10, <1>15, <1>16, SettledStep

LEMMA DeleteItemSettled ==
    ASSUME SettledInv, TypeInv', NEW c \in Clients, NEW w \in Requests, DeleteItem(c, w)
    PROVE  SettledInv'
<1>1. PICK p, r : /\ p = live[PartOf[w.key]]
                  /\ r = [Idle EXCEPT !.pc = "remove", !.todo = <<w>>, !.part = p]
  BY Zenon
<1>2. c \in Procs /\ TypeInv /\ w \in Write /\ PartOf[w.key] \in PKs
  BY DynamoParametersAssumption, WriteIs DEF SettledInv, Procs
<1>3. Start(c, r) /\ UNCHANGED <<parts, live, last, sure>>
  BY <1>1 DEF DeleteItem
<1>4. /\ r \in CallType(Len(parts))
      /\ r.pc = "remove" /\ r.todo = <<w>> /\ r.part = p
  <2>1. p \in 0 .. Len(parts) /\ Len(parts) \in Nat /\ <<w>> \in Seq(Write)
    BY <1>1, <1>2, Single, TypesOf DEF TypeInv, TypeOK
  <2> QED
    BY <1>1, <2>1, IdleType DEF CallType
<1>5. r.part = live[PartOf[r.todo[1].key]]
  <2>1. r.todo[1] = w
    BY <1>4
  <2> QED
    BY <1>1, <1>4, <2>1
<1> QED
  BY <1>2, <1>3, <1>4, <1>5, QuietStartSettled

LEMMA UpdateItemSettled ==
    ASSUME SettledInv, TypeInv', NEW c \in Clients, NEW w \in Requests, UpdateItem(c, w)
    PROVE  SettledInv'
<1>1. PICK g, r : /\ g = GetItem(w.key)
                  /\ r = [Idle EXCEPT !.pc = "update", !.todo = <<w>>, !.old = g]
  BY Zenon
<1>2. c \in Procs /\ TypeInv /\ w \in Write /\ w.key \in Keys
  BY DynamoParametersAssumption, WriteIs DEF SettledInv, Procs
<1>3. Start(c, r) /\ UNCHANGED <<parts, live, last, sure>>
  BY <1>1 DEF UpdateItem
<1>4. r \in CallType(Len(parts)) /\ r.pc = "update"
  <2>1. g \in Values \cup {NoItem} /\ Len(parts) \in Nat /\ <<w>> \in Seq(Write)
    BY <1>1, <1>2, GetItemType, Single, TypesOf DEF TypeInv
  <2> QED
    BY <1>1, <2>1, IdleType DEF CallType
<1> QED
  BY <1>2, <1>3, <1>4, QuietStartSettled

(* A transaction, or the writes of the reaper. *)
LEMMA TxSettled ==
    ASSUME SettledInv, TypeInv', NEW c \in Procs, NEW t \in Seq(Write),
           Start(c, [Idle EXCEPT !.pc = "tx", !.todo = t]),
           UNCHANGED <<parts, live, last, sure>>
    PROVE  SettledInv'
<1>1. PICK r : r = [Idle EXCEPT !.pc = "tx", !.todo = t]
  OBVIOUS
<1>2. r \in CallType(Len(parts)) /\ r.pc = "tx"
  <2>1. Len(parts) \in Nat
    BY TypesOf DEF SettledInv, TypeInv
  <2> QED
    BY <1>1, <2>1, IdleType DEF CallType
<1>3. Start(c, r)
  BY <1>1
<1> QED
  BY <1>2, <1>3, QuietStartSettled

LEMMA TransactSettled ==
    ASSUME SettledInv, TypeInv', NEW c \in Clients, NEW t \in Transactions,
           TransactWriteItems(c, t)
    PROVE  SettledInv'
<1>1. c \in Procs /\ t.writes \in Seq(Write)
  BY DynamoParametersAssumption DEF Procs, Transaction
<1>2. /\ Start(c, [Idle EXCEPT !.pc = "tx", !.todo = t.writes])
      /\ UNCHANGED <<parts, live, last, sure>>
  BY DEF TransactWriteItems
<1> QED
  BY <1>1, <1>2, TxSettled, Zenon

LEMMA ScanSettled ==
    ASSUME SettledInv, TypeInv', NEW t \in ExpiredKeys, ScanExpired(Reaper, t)
    PROVE  SettledInv'
<1>1. PICK todo : todo = [i \in DOMAIN t |->
                             [key |-> t[i], to |-> NoItem, cond |-> "none",
                              update |-> FALSE]]
  OBVIOUS
<1>2. todo \in Seq(Write)
  <2>1. t \in Seq(Keys)
    BY ExpiredKeysType
  <2>2. \A k \in Keys : [key |-> k, to |-> NoItem, cond |-> "none",
                         update |-> FALSE] \in Write
    BY DEF Write
  <2> QED
    BY <1>1, <2>1, <2>2
<1>3. Reaper \in Procs
  BY DEF Procs
<1>4. /\ Start(Reaper, [Idle EXCEPT !.pc = "tx", !.todo = todo])
      /\ UNCHANGED <<parts, live, last, sure>>
  BY <1>1 DEF ScanExpired
<1> QED
  BY <1>2, <1>3, <1>4, TxSettled, Zenon

LEMMA IdleRests ==
    ASSUME NEW n \in Nat
    PROVE  /\ Idle \in CallType(n) /\ Idle.pc = "idle" /\ Idle.calm = FALSE
           /\ ToSet(Idle.todo) = {}
<1>1. Idle \in CallType(n) /\ Idle.pc = "idle" /\ Idle.todo = <<>>
  BY IdleType
<1>2. Idle.calm = FALSE
  BY DEF Idle
<1>3. DOMAIN Idle.todo = {}
  BY <1>1
<1> QED
  BY <1>1, <1>2, <1>3 DEF ToSet

LEMMA PutCheckSettled ==
    ASSUME SettledInv, TypeInv', NEW c \in Procs, PutCheck(c)
    PROVE  SettledInv'
<1>1. TypeInv /\ call[c].pc = "lock" /\ call[c].pc \in Puts
  BY DEF PutCheck, Puts, SettledInv
<1>2. /\ call[c].part \in 1 .. Len(parts)
      /\ Len(parts) \in Nat
      /\ parts \in Seq(PartitionType)
  BY <1>1, CallProps, TypesOf DEF TypeInv
<1>3. PICK r : r = [call[c] EXCEPT !.pc = "write"]
  OBVIOUS
<1>4. /\ UNCHANGED <<live, last, sure>>
      /\ \/ /\ parts' = [parts EXCEPT ![call[c].part].mu = c]
            /\ call' = [call EXCEPT ![c] = r]
         \/ UNCHANGED parts /\ call' = [call EXCEPT ![c] = Idle]
  BY <1>1, <1>3, TypesOf DEF PutCheck, TypeInv
<1>5. /\ PartsGrow /\ parts' \in Seq(PartitionType)
      /\ \A q \in 1 .. Len(parts) : /\ parts'[q].items = parts[q].items
                                    /\ parts[q].raced => parts'[q].raced
  <2>1. CASE parts' = [parts EXCEPT ![call[c].part].mu = c]
    BY <1>1, <1>2, <2>1, LockType
  <2>2. CASE UNCHANGED parts
    BY <1>2, <2>2 DEF PartsGrow
  <2> QED
    BY <1>4, <2>1, <2>2
<1>6. RacedStay
  BY <1>1, <1>5, RacedKept
<1>7. Ahead(c, "write")
  BY <1>1 DEF Ahead, Puts
<1>8. /\ r \in CallType(Len(parts)) /\ r.pc = "write" /\ r.calm = call[c].calm
      /\ r.todo = call[c].todo /\ r.part = call[c].part
  <2>1. call[c] \in CallType(Len(parts))
    BY <1>1, TypesOf DEF TypeInv
  <2> QED
    BY <1>3, <2>1 DEF CallType
<1>9. Idle \in CallType(Len(parts)) /\ Idle.pc = "idle" /\ Idle.calm = FALSE
      /\ ToSet(Idle.todo) = {}
  BY <1>2, IdleRests
<1>10. CASE call' = [call EXCEPT ![c] = r]
  BY <1>1, <1>4, <1>5, <1>6, <1>8, <1>10, QuietStepSettled
<1>11. CASE call' = [call EXCEPT ![c] = Idle]
  BY <1>1, <1>4, <1>5, <1>6, <1>9, <1>11, QuietStepSettled
<1> QED
  BY <1>4, <1>10, <1>11

(* A PutItem goes on under its lock. *)
LEMMA PutGoesSettled ==
    ASSUME SettledInv, TypeInv', NEW c \in Procs, NEW pc \in {"index", "stream"},
           UNCHANGED <<parts, live, last, sure>>, call' = [call EXCEPT ![c].pc = pc]
    PROVE  SettledInv'
<1>1. TypeInv /\ call[c] \in CallType(Len(parts))
  BY TypesOf DEF SettledInv, TypeInv
<1>2. PICK r : r = [call[c] EXCEPT !.pc = pc]
  OBVIOUS
<1>3. call' = [call EXCEPT ![c] = r]
  BY <1>1, <1>2, TypesOf DEF TypeInv
<1>4. /\ r \in CallType(Len(parts)) /\ r.pc = pc /\ r.calm = call[c].calm
      /\ r.todo = call[c].todo
  BY <1>1, <1>2 DEF CallType
<1>5. RacedStay
  BY DEF RacedStay, Raced
<1> QED
  BY <1>3, <1>4, <1>5, QuietStepSettled

LEMMA PutCountSettled ==
    ASSUME SettledInv, TypeInv', NEW c \in Procs, PutCount(c)
    PROVE  SettledInv'
BY PutGoesSettled DEF PutCount

LEMMA PutIndexSettled ==
    ASSUME SettledInv, TypeInv', NEW c \in Procs, PutIndex(c)
    PROVE  SettledInv'
BY PutGoesSettled DEF PutIndex

LEMMA PutStreamSettled ==
    ASSUME SettledInv, TypeInv', NEW c \in Procs, PutStream(c)
    PROVE  SettledInv'
<1>1. TypeInv /\ call[c].pc \in Puts
  BY DEF PutStream, Puts, SettledInv
<1>2. /\ UNCHANGED <<live, last, sure>> /\ call' = [call EXCEPT ![c] = Idle]
      /\ parts' = [parts EXCEPT ![call[c].part].mu = Nobody]
  BY DEF PutStream
<1>3. call[c].part \in 1 .. Len(parts) /\ Len(parts) \in Nat
  BY <1>1, CallProps, TypesOf DEF TypeInv
<1>4. /\ PartsGrow /\ parts' \in Seq(PartitionType)
      /\ \A q \in 1 .. Len(parts) : /\ parts'[q].items = parts[q].items
                                    /\ parts'[q].raced = parts[q].raced
  BY <1>1, <1>2, <1>3, LockType
<1>5. RacedStay
  BY <1>1, <1>4, RacedKept
<1> QED
  BY <1>2, <1>3, <1>4, <1>5, IdleRests, QuietStepSettled

LEMMA DeleteCountSettled ==
    ASSUME SettledInv, TypeInv', NEW c \in Procs, DeleteCount(c)
    PROVE  SettledInv'
<1>1. PICK p, r : p = call[c].part /\ r = [call[c] EXCEPT !.pc = "drop"]
  OBVIOUS
<1>2. /\ TypeInv /\ call[c].pc = "uncount" /\ call[c].pc \in Removals
      /\ call \in [Procs -> CallType(Len(parts))]
  BY TypesOf DEF DeleteCount, Removals, SettledInv, TypeInv
<1>3. /\ parts' = [parts EXCEPT ![p].mu = Nobody] /\ UNCHANGED <<live, last, sure>>
      /\ call' = [call EXCEPT ![c] = r]
  BY <1>1, <1>2 DEF DeleteCount
<1>4. p \in 1 .. Len(parts) /\ Len(parts) \in Nat
  BY <1>1, <1>2, CallProps, TypesOf DEF TypeInv
<1>5. /\ PartsGrow /\ parts' \in Seq(PartitionType)
      /\ \A q \in 1 .. Len(parts) : /\ parts'[q].items = parts[q].items
                                    /\ parts'[q].raced = parts[q].raced
  BY <1>2, <1>3, <1>4, LockType
<1>6. RacedStay
  BY <1>2, <1>5, RacedKept
<1>7. /\ r \in CallType(Len(parts)) /\ r.pc = "drop" /\ r.calm = call[c].calm
      /\ r.todo = call[c].todo /\ r.part = call[c].part
  BY <1>1, <1>2 DEF CallType
<1> QED
  BY <1>2, <1>3, <1>5, <1>6, <1>7, QuietStepSettled

LEMMA DeleteStreamSettled ==
    ASSUME SettledInv, TypeInv', NEW c \in Procs, DeleteStream(c)
    PROVE  SettledInv'
<1>1. UNCHANGED <<parts, live, last, sure>> /\ call' = [call EXCEPT ![c] = Idle]
  BY DEF DeleteStream
<1>2. RacedStay /\ Len(parts) \in Nat
  BY <1>1, TypesOf DEF RacedStay, Raced, SettledInv, TypeInv
<1> QED
  BY <1>1, <1>2, IdleRests, QuietStepSettled

(* What is read after writing v under k in a partition that was there.     *)
ReadsAs(p, k, v) ==
    /\ RacedStay
    /\ Rewritten(parts', parts, p, k, v)
    /\ \A j \in Keys : live'[PartOf[j]] = live[PartOf[j]] /\ j # k
                       => GetItem(j)' = GetItem(j)
    /\ live'[PartOf[k]] = p => GetItem(k)' = v

LEMMA WriteReads ==
    ASSUME TypeInv, NEW p \in 1 .. Len(parts), NEW k \in Keys,
           NEW v \in Values \cup {NoItem}, Rewritten(parts', parts, p, k, v)
    PROVE  ReadsAs(p, k, v)
<1>1. parts \in Seq(PartitionType) /\ Len(parts) \in Nat
      /\ live \in [PKs -> 0 .. Len(parts)]
  BY TypesOf DEF TypeInv, TypeOK
<1>2. Rewritten(parts', parts, p, k, v)
  OBVIOUS
<1>3. RacedStay
  <2>1. /\ PartsGrow /\ parts' \in Seq(PartitionType)
        /\ \A q \in 1 .. Len(parts) : parts[q].raced => parts'[q].raced
    BY <1>1, <1>2 DEF Rewritten, PartsGrow
  <2> QED
    BY <2>1, RacedKept
<1>4. ASSUME NEW j \in Keys, live'[PartOf[j]] = live[PartOf[j]], j # k
      PROVE  GetItem(j)' = GetItem(j)
  <2>1. PartOf[j] \in PKs /\ live[PartOf[j]] \in 0 .. Len(parts)
    BY <1>1, DynamoParametersAssumption
  <2> QED
    BY <1>1, <1>2, <1>4, <2>1 DEF GetItem, Rewritten
<1>5. live'[PartOf[k]] = p => GetItem(k)' = v
  BY <1>1, <1>2 DEF GetItem, Rewritten
<1> QED
  BY <1>2, <1>3, <1>4, <1>5 DEF ReadsAs

LEMMA PutWriteSettled ==
    ASSUME SettledInv, TypeInv', NEW c \in Procs, PutWrite(c)
    PROVE  SettledInv'
<1>1. PICK k, v, p, old, pc, r :
         /\ k = call[c].todo[1].key /\ v = call[c].todo[1].to /\ p = call[c].part
         /\ old = parts[p].items[k] /\ pc = IF old = NoItem THEN "count" ELSE "index"
         /\ r = [call[c] EXCEPT !.pc = pc, !.old = old]
  BY Zenon
<1>2. /\ TypeInv /\ SettledWritesStick /\ call[c].pc = "write" /\ call[c].pc \in Puts
      /\ call \in [Procs -> CallType(Len(parts))]
  BY TypesOf, Zenon DEF PutWrite, Puts, SettledInv, TypeInv
<1>3. parts' = WriteItem(parts, c, p, k, v) /\ Land(c, p, k, v) /\ live' = live
  BY <1>1, Zenon DEF PutWrite
<1>4. call' = [call EXCEPT ![c] = r]
  BY <1>1, <1>2, Zenon DEF PutWrite
<1>5. /\ k \in Keys /\ v \in Values \cup {NoItem} /\ p \in 1 .. Len(parts)
      /\ PartOf[k] \in PKsOf(call[c])
  BY <1>1, <1>2, CallProps, Zenon DEF PKsOf, KeysOf
<1>6. /\ RacedStay
      /\ \A j \in Keys \ {k} : GetItem(j)' = GetItem(j)
      /\ live[PartOf[k]] = p => GetItem(k)' = v
  <2>1. TypeInv /\ \A j \in Keys : live'[PartOf[j]] = live[PartOf[j]]
    BY <1>2, <1>3
  <2>2. k \in Keys /\ v \in Values \cup {NoItem} /\ p \in 1 .. Len(parts)
        /\ parts' = WriteItem(parts, c, p, k, v)
    BY <1>3, <1>5
  <2>3. Rewritten(parts', parts, p, k, v)
    BY <2>2, Rewrites, TypesOf DEF SettledInv, TypeInv
  <2>4. ReadsAs(p, k, v)
    BY <2>1, <2>2, <2>3, WriteReads
  <2> QED
    BY <1>3, <2>1, <2>4 DEF ReadsAs
<1>7. call[c].calm => live[PartOf[k]] = p
  BY <1>1, <1>2, Zenon DEF SettledInv, CalmIsLive
<1>8. SettledWritesStick'
  BY <1>2, <1>3, <1>5, <1>6, <1>7, SettledLand
<1>9. r.pc \in {"count", "index"} /\ r.calm = call[c].calm /\ r.todo = call[c].todo
  BY <1>1, <1>2, Zenon DEF CallType
<1>10. OthersWait(c) /\ Continues(c) /\ call'[c].pc \notin {"remove", "uncount", "drop"}
  BY <1>2, <1>4, <1>9 DEF OthersWait, SameCall, Continues
<1>11. Settles(c)
  BY <1>2, <1>3, <1>5, <1>10, LandSettles
<1>12. MapMoves(c)
  BY <1>3 DEF MapMoves
<1> QED
  BY <1>6, <1>8, <1>10, <1>11, <1>12, SettledStep

LEMMA DeleteWriteSettled ==
    ASSUME SettledInv, TypeInv', NEW c \in Procs, DeleteWrite(c)
    PROVE  SettledInv'
<1>1. PICK k, p, old, w, r :
         /\ k = call[c].todo[1].key /\ p = call[c].part
         /\ old = parts[p].items[k] /\ w = WriteItem(parts, c, p, k, NoItem)
         /\ r = [call[c] EXCEPT !.pc = "uncount", !.old = old]
  BY Zenon
<1>2. /\ TypeInv /\ SettledWritesStick
      /\ call[c].pc = "remove" /\ call[c].pc \in Removals
      /\ call \in [Procs -> CallType(Len(parts))]
  BY TypesOf DEF DeleteWrite, Removals, SettledInv, TypeInv
<1>3. live' = live
  BY Zenon DEF DeleteWrite
<1>4. CASE /\ parts' = [w EXCEPT ![p].mu = c]
           /\ call' = [call EXCEPT ![c] = r]
           /\ Land(c, p, k, NoItem)
  <2>1. k \in Keys /\ p \in 1 .. Len(parts)
    BY <1>1, <1>2, CallProps, Zenon
  <2>2. PICK v \in Values \cup {NoItem} : v = NoItem
    OBVIOUS
  <2>3. Land(c, p, k, v)
    BY <1>4, <2>2
  <2>4. /\ RacedStay
        /\ \A j \in Keys \ {k} : GetItem(j)' = GetItem(j)
        /\ live[PartOf[k]] = p => GetItem(k)' = v
    <3>1. TypeInv /\ \A j \in Keys : live'[PartOf[j]] = live[PartOf[j]]
      BY <1>2, <1>3
    <3>2. Rewritten(parts', parts, p, k, v)
      BY <1>1, <1>4, <2>1, <2>2, <3>1, LockedWrite, Zenon
    <3>3. ReadsAs(p, k, v)
      BY <2>1, <2>2, <3>1, <3>2, WriteReads
    <3> QED
      BY <1>3, <3>1, <3>3 DEF ReadsAs
  <2>5. call[c].calm => live[PartOf[k]] = p
    BY <1>1, <1>2, Zenon DEF SettledInv, CalmIsLive
  <2>6. SettledWritesStick'
    BY <1>2, <2>1, <2>3, <2>4, <2>5, SettledLand
  <2>7. /\ r.pc = "uncount" /\ r.calm = call[c].calm
        /\ r.todo = call[c].todo /\ r.part = call[c].part
    BY <1>1, <1>2 DEF CallType
  <2>8. OthersWait(c) /\ Continues(c)
    BY <1>2, <1>4, <2>7 DEF OthersWait, SameCall, Continues
  <2>9. Settles(c)
    BY <1>2, <2>1, <2>2, <2>3, LandSettles
  <2>10. MapMoves(c)
    BY <1>3 DEF MapMoves
  <2> QED
    BY <2>4, <2>6, <2>8, <2>9, <2>10, SettledStep
<1>5. CASE call' = [call EXCEPT ![c] = Idle] /\ UNCHANGED <<parts, last, sure>>
  <2>1. RacedStay /\ Len(parts) \in Nat
    BY <1>2, <1>5, TypesOf DEF RacedStay, Raced, TypeInv
  <2> QED
    BY <1>3, <1>5, <2>1, IdleRests, QuietStepSettled, Zenon
<1>6. \/ /\ parts' = [w EXCEPT ![p].mu = c]
         /\ call' = [call EXCEPT ![c] = r] /\ Land(c, p, k, NoItem)
      \/ call' = [call EXCEPT ![c] = Idle] /\ UNCHANGED <<parts, last, sure>>
  BY <1>1, <1>2, Zenon DEF DeleteWrite
<1> QED
  BY <1>4, <1>5, <1>6

(* A partition that may be dropped is empty, if no count of its key was    *)
(* raced.                                                                  *)
LEMMA DropsEmpty ==
    ASSUME TypeInv, NEW c \in Procs, NEW p \in 1 .. Len(parts), NEW pk \in PKs,
           parts[p].pk = pk, DropIfEmpty(c, p, pk), ~Raced(pk)'
    PROVE  live' = live \/ \A k \in Keys : parts[p].items[k] = NoItem
<1>1. /\ parts' \in Seq(PartitionType) /\ Len(parts') = Len(parts) /\ Len(parts) \in Nat
      /\ parts'[p].pk = parts[p].pk
      /\ parts'[p].raced = (parts[p].raced \/ Races(c, p))
  BY DropType, TypesOf DEF TypeInv
<1>2. p \in DOMAIN parts'
  BY <1>1
<1>3. ~parts[p].raced /\ ~Races(c, p)
  BY <1>1, <1>2 DEF Raced
<1>4. PICK empty \in LenIsZero(c, p) :
         live' = IF empty THEN [live EXCEPT ![pk] = 0] ELSE live
  BY DEF DropIfEmpty
<1>5. empty = \A k \in Keys : parts[p].items[k] = NoItem
  BY <1>3, <1>4 DEF LenIsZero
<1> QED
  BY <1>4, <1>5

(* What is dropped may be read no more, and nothing else is lost. *)
LEMMA DropReads ==
    ASSUME TypeInv, NEW c \in Procs, NEW p \in 1 .. Len(parts), NEW pk \in PKs,
           DropIfEmpty(c, p, pk)
    PROVE  /\ RacedStay
           /\ \A j \in Keys : PartOf[j] # pk \/ live' = live => GetItem(j)' = GetItem(j)
           /\ \A j \in Keys : PartOf[j] = pk /\ live' # live => GetItem(j)' = NoItem
<1>1. /\ PartsGrow /\ parts' \in Seq(PartitionType)
      /\ \A q \in 1 .. Len(parts) : /\ parts'[q].items = parts[q].items
                                    /\ parts[q].raced => parts'[q].raced
      /\ live' = live \/ live' = [live EXCEPT ![pk] = 0]
  BY DropType
<1>2. live \in [PKs -> 0 .. Len(parts)] /\ Len(parts) \in Nat
  BY TypesOf DEF TypeInv, TypeOK
<1>3. RacedStay
  BY <1>1, RacedKept
<1>4. ASSUME NEW j \in Keys, PartOf[j] # pk \/ live' = live
      PROVE  GetItem(j)' = GetItem(j)
  <2>1. PartOf[j] \in PKs
    BY DynamoParametersAssumption
  <2>2. live'[PartOf[j]] = live[PartOf[j]] /\ live[PartOf[j]] \in 0 .. Len(parts)
    BY <1>1, <1>2, <1>4, <2>1
  <2> QED
    BY <1>1, <1>2, <2>2 DEF GetItem
<1>5. ASSUME NEW j \in Keys, PartOf[j] = pk, live' # live
      PROVE  GetItem(j)' = NoItem
  BY <1>1, <1>2, <1>5 DEF GetItem
<1> QED
  BY <1>3, <1>4, <1>5

LEMMA DeleteDropSettled ==
    ASSUME SettledInv, TypeInv', NEW c \in Procs, DeleteDrop(c)
    PROVE  SettledInv'
<1>1. PICK k, p, r : /\ k = call[c].todo[1].key /\ p = call[c].part
                     /\ r = [call[c] EXCEPT !.pc = "log"]
  OBVIOUS
<1>2. /\ TypeInv /\ SettledWritesStick
      /\ call[c].pc = "drop" /\ call[c].pc \in Removals
      /\ call \in [Procs -> CallType(Len(parts))]
      /\ parts \in Seq(PartitionType) /\ Len(parts) \in Nat
      /\ live \in [PKs -> 0 .. Len(parts)]
  BY TypesOf DEF DeleteDrop, Removals, SettledInv, TypeInv, TypeOK
<1>3. call' = [call EXCEPT ![c] = r] /\ UNCHANGED <<last, sure>>
  BY <1>1, <1>2 DEF DeleteDrop
<1>4. /\ k \in Keys /\ PartOf[k] \in PKs /\ p \in 1 .. Len(parts)
      /\ parts[p].pk = PartOf[k] /\ PartOf[k] \in RemovesFrom(call[c])
  BY <1>1, <1>2, CallProps DEF RemovesFrom
<1>5. /\ r.pc = "log" /\ r.calm = call[c].calm /\ r.todo = call[c].todo
  BY <1>1, <1>2 DEF CallType
<1>6. OthersWait(c) /\ Continues(c) /\ call'[c].pc = "log"
  BY <1>2, <1>3, <1>5 DEF OthersWait, SameCall, Continues
<1>7. PICK pk \in PKs : pk = PartOf[k] /\ DropIfEmpty(c, p, pk)
  BY <1>1, <1>4 DEF DeleteDrop
<1>8. /\ RacedStay
      /\ \A j \in Keys : PartOf[j] # pk \/ live' = live => GetItem(j)' = GetItem(j)
      /\ \A j \in Keys : PartOf[j] = pk /\ live' # live => GetItem(j)' = NoItem
      /\ live' = live \/ live' = [live EXCEPT ![pk] = 0]
  BY <1>2, <1>4, <1>7, DropReads, DropType
<1>9. MapMoves(c) /\ Settles(c)
  BY <1>2, <1>3, <1>4, <1>6, <1>7, <1>8 DEF MapMoves, Settles
<1>10. ASSUME NEW j \in sure', ~Raced(PartOf[j])'
       PROVE  GetItem(j)' = last'[j]
  <2>1. j \in sure /\ j \in Keys /\ PartOf[j] \in PKs /\ last'[j] = last[j]
    BY <1>2, <1>3, DynamoParametersAssumption DEF TypeInv, TypeOK
  <2>2. ~Raced(PartOf[j])
    BY <1>8, <1>10, <2>1 DEF RacedStay
  <2>3. GetItem(j) = last[j]
    BY <1>2, <2>1, <2>2 DEF SettledWritesStick
  <2>4. CASE PartOf[j] # pk \/ live' = live
    BY <1>8, <2>1, <2>3, <2>4
  <2>5. CASE PartOf[j] = pk /\ live' # live
    <3>1. parts[p].items[j] = NoItem
      BY <1>2, <1>4, <1>7, <1>10, <2>1, <2>5, DropsEmpty
    <3>2. CASE live[pk] = p
      BY <1>4, <1>8, <2>1, <2>3, <2>5, <3>1, <3>2 DEF GetItem
    <3>3. CASE live[pk] # p
      <4>1. last[j] = NoItem
        BY <1>1, <1>2, <1>7, <2>1, <2>2, <2>5, <3>3 DEF SettledInv, OrphansAreAlone
      <4> QED
        BY <1>8, <2>1, <2>5, <4>1
    <3> QED
      BY <3>2, <3>3
  <2> QED
    BY <2>4, <2>5
<1>11. SettledWritesStick'
  BY <1>10 DEF SettledWritesStick
<1> QED
  BY <1>6, <1>8, <1>9, <1>11, SettledStep

(* Writing in a partition that is looked up, or made, in the same step.    *)
LEMMA FindReads ==
    ASSUME TypeInv, NEW c \in Procs, NEW k \in Keys, NEW v \in Values \cup {NoItem},
           NEW f, f = GetOrCreate(PartOf[k]),
           parts' = WriteItem(f.all, c, f.id, k, v),
           live' = [live EXCEPT ![PartOf[k]] = f.id]
    PROVE  /\ RacedStay /\ MapMoves(c)
           /\ \A j \in Keys \ {k} : GetItem(j)' = GetItem(j)
           /\ GetItem(k)' = v
<1>1. PICK all, p, pk : all = f.all /\ p = f.id /\ pk = PartOf[k]
  OBVIOUS
<1>2. /\ all \in Seq(PartitionType) /\ p \in 1 .. Len(all) /\ pk \in PKs
      /\ Len(parts) \in Nat /\ Len(all) \in Nat /\ Len(all) >= Len(parts)
      /\ \A q \in 1 .. Len(parts) : all[q] = parts[q]
      /\ live[pk] # 0 => all = parts /\ p = live[pk]
      /\ live[pk] = 0 => all[p] = EmptyPartition(pk)
  <2>1. PartOf[k] \in PKs
    BY DynamoParametersAssumption
  <2> QED
    BY <1>1, <2>1, Found DEF TypeInv
<1>3. live \in [PKs -> 0 .. Len(parts)] /\ live' = [live EXCEPT ![pk] = p]
  BY <1>1 DEF TypeInv, TypeOK
<1>4. Rewritten(parts', all, p, k, v)
  BY <1>1, <1>2, Rewrites
<1>5. RacedStay
  <2>1. /\ PartsGrow /\ parts' \in Seq(PartitionType)
        /\ \A q \in 1 .. Len(parts) : parts[q].raced => parts'[q].raced
    BY <1>2, <1>4 DEF Rewritten, PartsGrow
  <2> QED
    BY <2>1, RacedKept
<1>6. MapMoves(c)
  BY <1>2, <1>3 DEF MapMoves
<1>7. ASSUME NEW j \in Keys \ {k} PROVE GetItem(j)' = GetItem(j)
  <2>1. PartOf[j] \in PKs /\ live[PartOf[j]] \in 0 .. Len(parts)
    BY <1>3, DynamoParametersAssumption
  <2>2. CASE PartOf[j] # pk \/ live[pk] # 0
    <3>1. live'[PartOf[j]] = live[PartOf[j]]
      BY <1>2, <1>3, <2>1, <2>2
    <3>2. live[PartOf[j]] # 0 =>
             parts'[live[PartOf[j]]].items[j] = parts[live[PartOf[j]]].items[j]
      BY <1>2, <1>4, <2>1 DEF Rewritten
    <3> QED
      BY <3>1, <3>2 DEF GetItem
  <2>3. CASE PartOf[j] = pk /\ live[pk] = 0
    <3>1. live'[PartOf[j]] = p /\ p # 0
      BY <1>2, <1>3, <2>3
    <3>2. all[p].items[j] = NoItem
      BY <1>2, <2>3 DEF EmptyPartition
    <3>3. parts'[p].items[j] = NoItem
      BY <1>4, <3>2 DEF Rewritten
    <3> QED
      BY <2>3, <3>1, <3>3 DEF GetItem
  <2> QED
    BY <2>2, <2>3
<1>8. GetItem(k)' = v
  <2>1. live'[PartOf[k]] = p /\ p # 0
    BY <1>1, <1>2, <1>3
  <2> QED
    BY <1>4, <2>1 DEF GetItem, Rewritten
<1> QED
  BY <1>5, <1>6, <1>7, <1>8

(* A call that keeps the table's lock, after a step.                       *)
LEMMA WrittenContinues ==
    ASSUME TypeInv, NEW c \in Procs, call[c].pc \in Tabled, NEW p,
           NEW recounts \in BOOLEAN, Written(c, p, recounts)
    PROVE  /\ OthersWait(c) /\ Continues(c)
           /\ call'[c].pc \in {"tx", "idle", "tally"}
BY WrittenMoves DEF Continues

LEMMA ReadInTableSettled ==
    ASSUME SettledInv, TypeInv', NEW c \in Procs, ReadInTable(c)
    PROVE  SettledInv'
<1>1. PICK old, r : /\ old = GetItem(Head(call[c].todo).key)
                    /\ r = [call[c] EXCEPT !.pc = "update", !.old = old]
  BY Zenon
<1>2. /\ TypeInv /\ call[c].pc \in Tabled /\ UNCHANGED <<parts, live, last, sure>>
      /\ call \in [Procs -> CallType(Len(parts))]
  BY TypesOf DEF ReadInTable, Tabled, SettledInv, TypeInv
<1>3. call' = [call EXCEPT ![c] = r] /\ call'[c] = r
  BY <1>1, <1>2 DEF ReadInTable
<1>4. call' \in [Procs -> CallType(Len(parts))]
  BY <1>2 DEF TypeInv, TypeOK, CallType
<1>5. /\ r \in CallType(Len(parts)) /\ r.pc = "update"
      /\ r.todo = call[c].todo /\ r.calm = call[c].calm
  <2>1. r \in CallType(Len(parts))
    BY <1>3, <1>4
  <2> QED
    BY <1>1, <1>2, <2>1 DEF CallType
<1>6. RacedStay
  BY <1>2 DEF RacedStay, Raced
<1> QED
  BY <1>2, <1>3, <1>5, <1>6, QuietStepSettled

(* A write in a partition that is looked up or made. *)
LEMMA FoundWriteSettled ==
    ASSUME SettledInv, TypeInv', NEW c \in Procs, call[c].pc \in Tabled,
           NEW k, k = call[c].todo[1].key, NEW v, v = call[c].todo[1].to,
           NEW f, f = GetOrCreate(PartOf[k]),
           parts' = WriteItem(f.all, c, f.id, k, v),
           live' = [live EXCEPT ![PartOf[k]] = f.id], Land(c, f.id, k, v),
           NEW recounts \in BOOLEAN, Written(c, f.id, recounts)
    PROVE  SettledInv'
<1>1. TypeInv /\ SettledWritesStick
  BY Zenon DEF SettledInv
<1>2. k \in Keys /\ v \in Values \cup {NoItem} /\ PartOf[k] \in PKsOf(call[c])
  <2>1. call[c].todo[1] \in Write /\ call[c].todo[1] \in ToSet(call[c].todo)
    BY <1>1, CallProps, Zenon
  <2> QED
    BY <2>1, WriteIs, Zenon DEF PKsOf, KeysOf
<1>3. /\ RacedStay /\ MapMoves(c)
      /\ \A j \in Keys \ {k} : GetItem(j)' = GetItem(j)
      /\ GetItem(k)' = v
  <2>1. TypeInv
    BY <1>1, Zenon
  <2>2. /\ parts' = WriteItem(f.all, c, f.id, k, v)
        /\ live' = [live EXCEPT ![PartOf[k]] = f.id]
    BY Zenon
  <2>3. f = GetOrCreate(PartOf[k]) /\ k \in Keys /\ v \in Values \cup {NoItem}
    BY <1>2, Zenon
  <2> QED
    BY ONLY <2>1, <2>2, <2>3, c \in Procs, FindReads
<1>4. PICK p : p = f.id
  BY Zenon
<1>5. Land(c, p, k, v) /\ Written(c, p, recounts)
  BY <1>4, Zenon
<1>6. SettledWritesStick'
  BY <1>1, <1>2, <1>3, <1>5, SettledLand, Zenon
<1>7. /\ OthersWait(c) /\ Continues(c)
      /\ call'[c].pc \notin {"remove", "uncount", "drop"}
  BY <1>1, <1>5, WrittenContinues, Zenon
<1>8. Settles(c)
  BY <1>1, <1>2, <1>5, <1>7, LandSettles, Zenon
<1> QED
  BY <1>3, <1>6, <1>7, <1>8, SettledStep, Zenon

LEMMA UpdateWriteSettled ==
    ASSUME SettledInv, TypeInv', NEW c \in Procs, UpdateWrite(c)
    PROVE  SettledInv'
<1>1. PICK k, v, f : /\ k = Head(call[c].todo).key /\ v = Head(call[c].todo).to
                     /\ f = GetOrCreate(PartOf[k])
  BY Zenon
<1>2. PICK recounts \in BOOLEAN : recounts = (f.all[f.id].items[k] = NoItem)
  BY Zenon
<1>3. /\ call[c].pc \in Tabled /\ parts' = WriteItem(f.all, c, f.id, k, v)
      /\ live' = [live EXCEPT ![PartOf[k]] = f.id] /\ Written(c, f.id, recounts)
      /\ Land(c, f.id, k, v)
  BY <1>1, <1>2, Zenon DEF UpdateWrite, Tabled
<1>4. k = call[c].todo[1].key /\ v = call[c].todo[1].to
  BY <1>1, <1>3, TxNext, Zenon DEF SettledInv
<1> QED
  BY <1>1, <1>3, <1>4, FoundWriteSettled, Zenon

LEMMA PutInTableSettled ==
    ASSUME SettledInv, TypeInv', NEW c \in Procs, PutInTable(c)
    PROVE  SettledInv'
<1>1. PICK k, v, f : /\ k = Head(call[c].todo).key /\ v = Head(call[c].todo).to
                     /\ f = GetOrCreate(PartOf[k])
  BY Zenon
<1>2. PICK recounts \in BOOLEAN : recounts = (f.all[f.id].items[k] = NoItem)
  BY Zenon
<1>3. /\ call[c].pc \in Tabled /\ parts' = WriteItem(f.all, c, f.id, k, v)
      /\ live' = [live EXCEPT ![PartOf[k]] = f.id] /\ Written(c, f.id, recounts)
      /\ Land(c, f.id, k, v)
  BY <1>1, <1>2, Zenon DEF PutInTable, Tabled
<1>4. k = call[c].todo[1].key /\ v = call[c].todo[1].to
  BY <1>1, <1>3, TxNext, Zenon DEF SettledInv
<1> QED
  BY <1>1, <1>3, <1>4, FoundWriteSettled

LEMMA DeleteFromTableSettled ==
    ASSUME SettledInv, TypeInv', NEW c \in Procs, DeleteFromTable(c)
    PROVE  SettledInv'
<1>1. PICK w, k, p : w = Head(call[c].todo) /\ k = w.key /\ p = live[PartOf[k]]
  OBVIOUS
<1>2. PICK recounts \in BOOLEAN : recounts = (GetItem(k) # NoItem)
  BY Zenon
<1>3. /\ TypeInv /\ SettledWritesStick /\ call[c].pc \in Tabled /\ live' = live
      /\ Written(c, p, recounts)
      /\ IF recounts THEN /\ parts' = WriteItem(parts, c, p, k, NoItem)
                          /\ Land(c, p, k, NoItem)
                     ELSE UNCHANGED <<parts, last, sure>>
  BY <1>1, <1>2, Zenon DEF DeleteFromTable, SettledInv, Tabled
<1>4. k \in Keys /\ PartOf[k] \in PKs
  BY <1>1, <1>3, TxNext, WriteIs
<1>5. OthersWait(c) /\ Continues(c)
  BY <1>3, WrittenContinues
<1>6. MapMoves(c)
  BY <1>3 DEF MapMoves
<1>7. CASE ~recounts
  <2>1. RacedStay /\ Settles(c)
    BY <1>3, <1>7 DEF RacedStay, Raced, Settles
  <2>2. \A j \in Keys : GetItem(j)' = GetItem(j)
    BY <1>3, <1>7 DEF GetItem
  <2>3. SettledWritesStick'
    BY <1>3, <1>7, <2>1, <2>2, SettledSame
  <2> QED
    BY <1>5, <1>6, <2>1, <2>3, SettledStep
<1>8. CASE recounts
  <2>1. p # 0
    BY <1>1, <1>2, <1>8, Zenon DEF GetItem
  <2>2. p \in 1 .. Len(parts) /\ parts \in Seq(PartitionType)
    <3>1. live \in [PKs -> 0 .. Len(parts)] /\ Len(parts) \in Nat
          /\ parts \in Seq(PartitionType)
      BY <1>3, TypesOf DEF TypeInv, TypeOK
    <3> QED
      BY <1>1, <1>4, <2>1, <3>1
  <2>3. PICK v \in Values \cup {NoItem} : v = NoItem
    OBVIOUS
  <2>4. parts' = WriteItem(parts, c, p, k, v) /\ Land(c, p, k, v)
    BY <1>3, <1>8, <2>3
  <2>5. Rewritten(parts', parts, p, k, v)
    BY <1>4, <2>2, <2>4, Rewrites
  <2>6. ReadsAs(p, k, v)
    BY <1>3, <1>4, <2>2, <2>5, WriteReads
  <2>7. /\ RacedStay /\ GetItem(k)' = v
        /\ \A j \in Keys \ {k} : GetItem(j)' = GetItem(j)
    BY <1>1, <1>3, <2>6, Zenon DEF ReadsAs
  <2>8. SettledWritesStick'
    BY <1>3, <1>4, <2>4, <2>7, SettledLand
  <2>9. Settles(c)
    BY <1>3, <1>4, <2>3, <2>4, LandSettles
  <2> QED
    BY <1>5, <1>6, <2>7, <2>8, <2>9, SettledStep
<1> QED
  BY <1>7, <1>8

LEMMA CountInTableSettled ==
    ASSUME LocksInv, SettledInv, TypeInv', NEW c \in Procs, CountInTable(c)
    PROVE  SettledInv'
<1>1. PICK w, p, pk : w = Head(call[c].todo) /\ p = call[c].part /\ pk = PartOf[w.key]
  OBVIOUS
<1>2. /\ TypeInv /\ SettledWritesStick /\ call[c].pc = "tally"
      /\ call[c].pc \in Tabled /\ Done(c) /\ UNCHANGED <<last, sure>>
      /\ IF w.to = NoItem THEN DropIfEmpty(c, p, pk) ELSE UNCHANGED <<parts, live>>
  BY <1>1 DEF CountInTable, SettledInv, Tabled
<1>3. /\ w = call[c].todo[1] /\ w \in ToSet(call[c].todo) /\ pk \in PKs
      /\ p \in 1 .. Len(parts) /\ parts[p].pk = pk
  BY <1>1, <1>2, CallProps
<1>4. p = live[pk]
  BY <1>1, <1>2, <1>3 DEF LocksInv, TallyIsLive
<1>5. OthersWait(c) /\ Continues(c) /\ call'[c].pc \in {"tx", "idle"}
  BY <1>2, DoneMoves DEF Continues
<1>6. Settles(c)
  BY <1>2 DEF Settles
<1>7. CASE w.to # NoItem
  <2>1. RacedStay /\ MapMoves(c)
    BY <1>2, <1>7 DEF RacedStay, Raced, MapMoves
  <2>2. \A j \in Keys : GetItem(j)' = GetItem(j)
    BY <1>2, <1>7 DEF GetItem
  <2>3. SettledWritesStick'
    BY <1>2, <2>1, <2>2, SettledSame
  <2> QED
    BY <1>5, <1>6, <2>1, <2>3, SettledStep
<1>8. CASE w.to = NoItem
  <2>1. DropIfEmpty(c, p, pk) /\ live \in [PKs -> 0 .. Len(parts)]
    BY <1>2, <1>8 DEF TypeInv, TypeOK
  <2>2. /\ RacedStay
        /\ \A j \in Keys : PartOf[j] # pk \/ live' = live => GetItem(j)' = GetItem(j)
        /\ \A j \in Keys : PartOf[j] = pk /\ live' # live => GetItem(j)' = NoItem
        /\ live' = live \/ live' = [live EXCEPT ![pk] = 0]
    BY <1>2, <1>3, <2>1, DropReads, DropType
  <2>3. pk \in RemovesFrom(call[c])
    BY <1>1, <1>3, <1>8 DEF RemovesFrom
  <2>4. MapMoves(c)
    BY <1>5, <2>1, <2>2, <2>3 DEF MapMoves
  <2>5. ASSUME NEW j \in sure', ~Raced(PartOf[j])'
        PROVE  GetItem(j)' = last'[j]
    <3>1. j \in sure /\ j \in Keys /\ PartOf[j] \in PKs /\ last'[j] = last[j]
      BY <1>2, DynamoParametersAssumption DEF TypeInv, TypeOK
    <3>2. GetItem(j) = last[j]
      BY <1>2, <2>2, <2>5, <3>1 DEF SettledWritesStick, RacedStay
    <3>3. CASE PartOf[j] # pk \/ live' = live
      BY <2>2, <3>1, <3>2, <3>3
    <3>4. CASE PartOf[j] = pk /\ live' # live
      <4>1. parts[p].items[j] = NoItem
        BY <1>2, <1>3, <2>1, <2>5, <3>1, <3>4, DropsEmpty
      <4> QED
        BY <1>3, <1>4, <2>2, <3>1, <3>2, <3>4, <4>1 DEF GetItem
    <3> QED
      BY <3>3, <3>4
  <2>6. SettledWritesStick'
    BY <2>5 DEF SettledWritesStick
  <2> QED
    BY <1>5, <1>6, <2>2, <2>4, <2>6, SettledStep
<1> QED
  BY <1>7, <1>8

LEMMA SettledNext ==
    ASSUME LocksInv, SettledInv, [Next]_vars
    PROVE  SettledInv'
<1>1. TypeInv'
  BY TypeStep DEF SettledInv
<1>2. CASE UNCHANGED vars
  BY <1>1, <1>2 DEF vars, SettledInv, Warned, CalmIsLive, OrphansAreAlone,
     SettledWritesStick, Raced, GetItem, RemovesFrom, PKsOf, KeysOf
<1>3. ASSUME NEW c \in Clients, NEW w \in Requests,
             PutItem(c, w) \/ DeleteItem(c, w) \/ UpdateItem(c, w)
      PROVE  SettledInv'
  BY <1>1, <1>3, PutItemSettled, DeleteItemSettled, UpdateItemSettled
<1>4. ASSUME NEW c \in Clients, NEW t \in Transactions, TransactWriteItems(c, t)
      PROVE  SettledInv'
  BY <1>1, <1>4, TransactSettled
<1>5. ASSUME NEW t \in ExpiredKeys, ScanExpired(Reaper, t)
      PROVE  SettledInv'
  BY <1>1, <1>5, ScanSettled
<1>6. ASSUME NEW c \in Procs, Step(c)
      PROVE  SettledInv'
  BY <1>1, <1>6, PutCheckSettled, PutWriteSettled, PutCountSettled,
     PutIndexSettled, PutStreamSettled, DeleteWriteSettled, DeleteCountSettled,
     DeleteDropSettled, DeleteStreamSettled, ReadInTableSettled,
     UpdateWriteSettled, PutInTableSettled, DeleteFromTableSettled,
     CountInTableSettled DEF Step
<1> QED
  BY <1>2, <1>3, <1>4, <1>5, <1>6 DEF Next

LEMMA SettledInit ==
    ASSUME Init
    PROVE  SettledInv
<1>1. TypeInv
  BY InitType
<1>2. PICK t \in Loads :
        /\ parts = IF t = <<>> THEN <<>> ELSE <<FirstPartition(t)>>
        /\ live = [pk \in PKs |-> IF t # <<>> /\ pk = PartOf[t[1].key]
                                  THEN 1 ELSE 0]
        /\ call = [c \in Procs |-> Idle]
        /\ last = [k \in Keys |-> Loaded(t, k)]
        /\ sure = Keys
  BY DEF Init, FirstPartition
<1>3. Warned /\ CalmIsLive /\ OrphansAreAlone
  <2>1. \A c \in Procs : call[c].pc = "idle" /\ call[c].calm = FALSE
    BY <1>2 DEF Idle
  <2> QED
    BY <2>1 DEF Warned, CalmIsLive, OrphansAreAlone
<1>4. ASSUME NEW k \in Keys PROVE GetItem(k) = Loaded(t, k)
  <2>1. PartOf[k] \in PKs
    BY DynamoParametersAssumption
  <2>2. CASE t # <<>> /\ PartOf[k] = PartOf[t[1].key]
    <3>1. live[PartOf[k]] = 1 /\ parts[1] = FirstPartition(t)
      BY <1>2, <2>1, <2>2
    <3>2. parts[1].items[k] = Loaded(t, k)
      BY <2>2, <3>1, FirstPartitionType
    <3> QED
      BY <3>1, <3>2 DEF GetItem
  <2>3. CASE t = <<>> \/ PartOf[k] # PartOf[t[1].key]
    <3>1. GetItem(k) = NoItem
      BY <1>2, <2>1, <2>3 DEF GetItem
    <3>2. \A i \in DOMAIN t : t[i].key # k
      <4>1. CASE t = <<>>
        BY <4>1
      <4>2. CASE t # <<>> /\ PartOf[k] # PartOf[t[1].key]
        <5>1. 1 \in DOMAIN t
          BY <4>2, LoadType
        <5>2. \A i \in DOMAIN t : PartOf[t[i].key] = PartOf[t[1].key]
          BY <5>1, DynamoParametersAssumption DEF IsLoad
        <5> QED
          BY <4>2, <5>2
      <4> QED
        BY <2>3, <4>1, <4>2
    <3> QED
      BY <3>1, <3>2 DEF Loaded
  <2> QED
    BY <2>2, <2>3
<1>5. SettledWritesStick
  BY <1>2, <1>4 DEF SettledWritesStick
<1> QED
  BY <1>1, <1>3, <1>5 DEF SettledInv

(* For any clients, keys and requests, and however often a partition is    *)
(* dropped and made again: a write is what GetItem finds that met no       *)
(* removal in its partition, while no two goroutines have written the      *)
(* count of its partition key's items at once.                             *)
THEOREM SettledHold == Spec => []SettledWritesStick
<1>1. Init => LocksInv /\ SettledInv
  BY LocksInit, SettledInit
<1>2. LocksInv /\ SettledInv /\ [Next]_vars => (LocksInv /\ SettledInv)'
  BY LocksNext, SettledNext
<1>3. SettledInv => SettledWritesStick
  BY DEF SettledInv
<1> QED
  BY <1>1, <1>2, <1>3, PTL DEF Spec

-----------------------------------------------------------------------------
(* What the index shows and the records tell.                              *)

(* The records of rs about k tell its history, and v ends it.              *)
Tells(rs, k, v) ==
    /\ \A i \in DOMAIN rs : rs[i].key = k => Leaves(rs, i - 1, k, rs[i].old)
    /\ Leaves(rs, Len(rs), k, v)

LEMMA ShowsOwn ==
    ASSUME NEW ix, NEW k \in Keys, NEW old \in Values \cup {NoItem}, Shows(ix, k, old)
    PROVE  /\ Shows(DeindexItem(ix, k, old), k, NoItem)
           /\ \A v \in Values : Shows(IndexItem(DeindexItem(ix, k, old), k, v), k, v)
<1>1. PICK d : d = DeindexItem(ix, k, old)
  OBVIOUS
<1>2. Shows(d, k, NoItem)
  <2>1. CASE old = NoItem
    BY <1>1, <2>1 DEF DeindexItem
  <2>2. CASE old # NoItem
    <3>1. \A i \in IndexKeys :
             d[i] = IF i = IndexKey[k][old] THEN NoItem ELSE ix[i]
      BY <1>1, <2>2 DEF DeindexItem
    <3> QED
      BY <3>1 DEF Shows
  <2> QED
    BY <2>1, <2>2
<1>3. ASSUME NEW v \in Values
      PROVE  Shows(IndexItem(d, k, v), k, v)
  <2>1. PICK e : e = IndexItem(d, k, v)
    OBVIOUS
  <2>2. \A i \in IndexKeys :
           e[i] = IF i = IndexKey[k][v] THEN [key |-> k, val |-> v] ELSE d[i]
    BY <2>1 DEF IndexItem
  <2>3. v # NoItem
    BY DynamoParametersAssumption
  <2>4. Shows(e, k, v)
    BY <1>2, <2>2, <2>3 DEF Shows
  <2> QED
    BY <2>1, <2>4
<1> QED
  BY <1>1, <1>2, <1>3

LEMMA ShowsOther ==
    ASSUME NEW ix, NEW k \in Keys, NEW u, Shows(ix, k, u), NEW j \in Keys \ {k},
           NEW old \in Values \cup {NoItem}
    PROVE  /\ Shows(DeindexItem(ix, j, old), k, u)
           /\ \A v \in Values : Shows(IndexItem(DeindexItem(ix, j, old), j, v), k, u)
<1>1. PICK d : d = DeindexItem(ix, j, old)
  OBVIOUS
<1>2. Shows(d, k, u)
  <2>1. CASE old = NoItem
    BY <1>1, <2>1 DEF DeindexItem
  <2>2. CASE old # NoItem
    <3>1. \A i \in IndexKeys :
             d[i] = IF i = IndexKey[j][old] THEN NoItem ELSE ix[i]
      BY <1>1, <2>2 DEF DeindexItem
    <3>2. old \in Values
      BY <2>2
    <3> QED
      BY <3>1, <3>2 DEF Shows
  <2> QED
    BY <2>1, <2>2
<1>3. ASSUME NEW v \in Values
      PROVE  Shows(IndexItem(d, j, v), k, u)
  <2>1. PICK e : e = IndexItem(d, j, v)
    OBVIOUS
  <2>2. \A i \in IndexKeys :
           e[i] = IF i = IndexKey[j][v] THEN [key |-> j, val |-> v] ELSE d[i]
    BY <2>1 DEF IndexItem
  <2>3. Shows(e, k, u)
    BY <1>2, <2>2 DEF Shows
  <2> QED
    BY <2>1, <2>3
<1> QED
  BY <1>1, <1>2, <1>3

LEMMA LeavesSame ==
    ASSUME NEW S, NEW rs \in Seq(S), NEW r \in S, NEW n \in 0 .. Len(rs), NEW k, NEW v
    PROVE  Leaves(Append(rs, r), n, k, v) <=> Leaves(rs, n, k, v)
<1>1. PICK s : s = Append(rs, r)
  OBVIOUS
<1>2. Len(rs) \in Nat /\ \A i \in 1 .. n : s[i] = rs[i]
  BY <1>1
<1>3. \A i \in 1 .. n : \A j \in i + 1 .. n : s[j] = rs[j]
  BY <1>2
<1>4. Leaves(s, n, k, v) <=> Leaves(rs, n, k, v)
  BY <1>2, <1>3 DEF Leaves
<1> QED
  BY <1>1, <1>4

LEMMA LeavesMore ==
    ASSUME NEW S, NEW rs \in Seq(S), NEW r \in S, NEW k
    PROVE  /\ r.key = k => Leaves(Append(rs, r), Len(rs) + 1, k, r.new)
           /\ r.key # k => \A v : Leaves(rs, Len(rs), k, v)
                                 => Leaves(Append(rs, r), Len(rs) + 1, k, v)
<1>1. PICK s, n : s = Append(rs, r) /\ n = Len(rs)
  OBVIOUS
<1>2. n \in Nat /\ s[n + 1] = r /\ \A i \in 1 .. n : s[i] = rs[i]
  BY <1>1
<1>3. ASSUME r.key = k
      PROVE  Leaves(s, n + 1, k, r.new)
  <2>1. n + 1 \in 1 .. n + 1 /\ (n + 1) + 1 .. n + 1 = {}
    BY <1>2
  <2> QED
    BY <1>2, <1>3, <2>1 DEF Leaves
<1>4. ASSUME r.key # k, NEW v, Leaves(rs, n, k, v)
      PROVE  Leaves(s, n + 1, k, v)
  <2>1. CASE v = NoItem /\ \A i \in 1 .. n : rs[i].key # k
    <3>1. \A i \in 1 .. n + 1 : s[i].key # k
      BY <1>2, <1>4, <2>1
    <3> QED
      BY <2>1, <3>1 DEF Leaves
  <2>2. ASSUME NEW i \in 1 .. n, rs[i].key = k, rs[i].new = v,
               \A j \in i + 1 .. n : rs[j].key # k
        PROVE  Leaves(s, n + 1, k, v)
    <3>1. i \in 1 .. n + 1 /\ s[i] = rs[i]
      BY <1>2
    <3>2. \A j \in i + 1 .. n + 1 : s[j].key # k
      BY <1>2, <1>4, <2>2
    <3> QED
      BY <2>2, <3>1, <3>2 DEF Leaves
  <2> QED
    BY <1>4, <2>1, <2>2 DEF Leaves
<1> QED
  BY <1>1, <1>3, <1>4

(* A record of k carries its history on; a record of another key leaves    *)
(* it where it was.                                                        *)
LEMMA TellsMore ==
    ASSUME NEW S, NEW rs \in Seq(S), NEW r \in S, NEW k, NEW v, Tells(rs, k, v),
           r.key = k => r.old = v
    PROVE  Tells(Append(rs, r), k, IF r.key = k THEN r.new ELSE v)
<1>1. PICK s, n : s = Append(rs, r) /\ n = Len(rs)
  OBVIOUS
<1>2. /\ n \in Nat /\ Len(s) = n + 1 /\ DOMAIN s = 1 .. n + 1 /\ DOMAIN rs = 1 .. n
      /\ s[n + 1] = r /\ \A i \in 1 .. n : s[i] = rs[i]
  BY <1>1
<1>3. \A m \in 0 .. n : \A u : Leaves(rs, m, k, u) => Leaves(s, m, k, u)
  BY <1>1, LeavesSame
<1>4. ASSUME NEW i \in 1 .. n + 1, s[i].key = k
      PROVE  Leaves(s, i - 1, k, s[i].old)
  <2>1. CASE i \in 1 .. n
    <3>1. Leaves(rs, i - 1, k, rs[i].old) /\ i - 1 \in 0 .. n
      BY <1>2, <1>4, <2>1 DEF Tells
    <3> QED
      BY <1>2, <1>3, <2>1, <3>1
  <2>2. CASE i = n + 1
    <3>1. Leaves(rs, n, k, v) /\ s[i].old = v /\ i - 1 = n /\ n \in 0 .. n
      BY <1>1, <1>2, <1>4, <2>2 DEF Tells
    <3> QED
      BY <1>3, <3>1
  <2> QED
    BY <1>2, <2>1, <2>2
<1>5. Leaves(s, n + 1, k, IF r.key = k THEN r.new ELSE v)
  BY <1>1, LeavesMore DEF Tells
<1> QED
  BY <1>1, <1>2, <1>4, <1>5 DEF Tells


-----------------------------------------------------------------------------
(* The history of a key that is not hazy.                                  *)

Landed == {"count", "index", "stream", "uncount", "drop", "log"}
PutHeld == {"write", "count", "index", "stream"}

(* c has written k and not logged it yet. *)
Unlogged(c, k) == call[c].pc \in Landed /\ call[c].todo[1].key = k

(* Calls that share such a key are PutItems. *)
Overlaps ==
    \A c, d \in Procs : \A k \in Keys \ hazy :
        c # d /\ k \in KeysOf(call[c]) /\ k \in KeysOf(call[d])
        => IsPut(call[c]) /\ IsPut(call[d])

(* Such a key was last written calmly, in a partition nobody raced for. *)
HazyKnows == \A k \in Keys \ hazy : k \in sure /\ ~Raced(PartOf[k])

(* A call that has written k knows what was there before, which the records *)
(* end in and the index shows until the call has been there.               *)
LandedFits(c, k) ==
    Unlogged(c, k) =>
        /\ call[c].todo[1].to = last[k]
        /\ Tells(records, k, call[c].old)
        /\ Shows(index, k, IF call[c].pc \in {"stream", "log"} THEN last[k]
                           ELSE call[c].old)
        /\ call[c].pc \in Puts => call[c].part = live[PartOf[k]]

(* A call that has yet to write it knows what is there now. *)
ReadFits(c, k) ==
    call[c].todo[1].key = k =>
        /\ call[c].pc = "update" => call[c].old = last[k]
        /\ call[c].pc = "write" /\ call[c].calm => Holds(call[c].todo[1].cond, last[k])

CallFits(c, k) == LandedFits(c, k) /\ ReadFits(c, k)

Agrees(k) == Tells(records, k, last[k]) /\ Shows(index, k, last[k])

(* When every call has logged what it wrote, records and index agree. *)
KeyFits(k) == (\A c \in Procs : ~Unlogged(c, k)) => Agrees(k)

AllFit == \A k \in Keys \ hazy : KeyFits(k) /\ \A c \in Procs : CallFits(c, k)

CountFits == hazy = {} => count = Cardinality({k \in Keys : last[k] # NoItem})

(* The reaper only removes, and what it is about to remove has expired. *)
ReaperFits ==
    /\ call[Reaper].pc \in {"idle", "tx", "tally"}
    /\ \A w \in ToSet(call[Reaper].todo) : w.to = NoItem
    /\ \A k \in KeysOf(call[Reaper]) \ hazy : last[k] \in Expired \cup {NoItem}

HistoryInv ==
    /\ LocksInv /\ SettledInv /\ Overlaps /\ HazyKnows
    /\ AllFit /\ CountFits /\ ReaperFits

(* GetItem finds the last write of a key that is not hazy. *)
LEMMA ReadsLast ==
    ASSUME HistoryInv, NEW k \in Keys \ hazy
    PROVE  GetItem(k) = last[k]
BY DEF HistoryInv, SettledInv, SettledWritesStick, HazyKnows

(* Nobody else writes k or has just written it: the other calls on it are  *)
(* PutItems that still wait for the lock, or hold that of a partition the  *)
(* map has lost.                                                           *)
Alone(c, k) ==
    \A x \in Procs \ {c} :
        k \in KeysOf(call[x]) =>
            call[x].pc = "lock" \/ (call[x].pc = "write" /\ ~call[x].calm)

LEMMA OnKey ==
    ASSUME TypeInv, NEW c \in Procs, NEW k
    PROVE  /\ call[c].pc \in Puts \cup Removals =>
                 (k \in KeysOf(call[c]) <=> call[c].todo[1].key = k)
           /\ call[c].pc \in Tabled /\ call[c].todo[1].key = k => k \in KeysOf(call[c])
           /\ call[c].pc = "idle" => k \notin KeysOf(call[c])
<1>1. call[c].pc = "idle" => call[c].todo = <<>>
  BY DEF TypeInv, CallOK
<1>2. ToSet(<<>>) = {}
  BY DEF ToSet
<1>3. call[c].pc \in Tabled => call[c].todo[1] \in ToSet(call[c].todo)
  BY CallProps
<1> QED
  BY <1>1, <1>2, <1>3, CallProps DEF KeysOf

LEMMA HoldsLive ==
    ASSUME HistoryInv, NEW c \in Procs, NEW k \in Keys \ hazy,
           k \in KeysOf(call[c]), call[c].pc \in PutHeld,
           call[c].pc = "write" => call[c].calm
    PROVE  call[c].part = live[PartOf[k]] /\ parts[call[c].part].mu = c
<1>1. TypeInv /\ CalmIsLive /\ LockKept /\ LandedFits(c, k)
  BY DEF HistoryInv, LocksInv, AllFit, CallFits, SettledInv
<1>2. call[c].todo[1].key = k
  BY <1>1, OnKey DEF PutHeld, Puts
<1>3. ASSUME call[c].pc = "write"
      PROVE  call[c].part = live[PartOf[k]]
  BY <1>1, <1>2, <1>3 DEF CalmIsLive
<1>4. ASSUME call[c].pc \in {"count", "index", "stream"}
      PROVE  call[c].part = live[PartOf[k]]
  BY <1>1, <1>2, <1>4 DEF LandedFits, Unlogged, Landed, Puts
<1> QED
  BY <1>1, <1>3, <1>4 DEF PutHeld, LockHeld, LockKept

LEMMA IsAlone ==
    ASSUME HistoryInv, NEW c \in Procs, NEW k \in Keys \ hazy,
           k \in KeysOf(call[c]), call[c].pc # "lock",
           call[c].pc = "write" => call[c].calm
    PROVE  Alone(c, k)
<1> SUFFICES ASSUME NEW x \in Procs \ {c}, k \in KeysOf(call[x]),
                    call[x].pc # "lock", call[x].pc = "write" => call[x].calm
             PROVE  FALSE
  BY DEF Alone
<1>1. call[c].pc \in PutHeld /\ call[x].pc \in PutHeld
  BY DEF HistoryInv, Overlaps, IsPut, PutHeld
<1>2. ASSUME NEW y \in Procs, y \in {c, x}
      PROVE  call[y].part = live[PartOf[k]] /\ parts[call[y].part].mu = y
  BY <1>1, <1>2, HoldsLive
<1>3. x = c
  <2>1. call[c].part = call[x].part /\ parts[call[c].part].mu = c
        /\ parts[call[x].part].mu = x
    BY <1>2
  <2> QED
    BY <2>1
<1> QED
  BY <1>3

(* So nobody else has to log k. *)
LEMMA AloneLogs ==
    ASSUME TypeInv, NEW c \in Procs, NEW k, Alone(c, k), NEW x \in Procs \ {c}
    PROVE  ~Unlogged(x, k)
<1>1. call[x].pc \in Landed => (k \in KeysOf(call[x]) <=> call[x].todo[1].key = k)
  BY OnKey DEF Landed, Puts, Removals
<1> QED
  BY <1>1 DEF Alone, Unlogged, Landed

LEMMA AloneAgrees ==
    ASSUME HistoryInv, NEW c \in Procs, NEW k \in Keys \ hazy, Alone(c, k),
           ~Unlogged(c, k)
    PROVE  Agrees(k)
<1>1. \A x \in Procs : ~Unlogged(x, k)
  BY AloneLogs DEF HistoryInv, SettledInv
<1> QED
  BY <1>1 DEF HistoryInv, AllFit, KeyFits

-----------------------------------------------------------------------------
(* What a step of c leaves alone.                                          *)

MapStays == \A pk \in PKs : live'[pk] = live[pk] \/ live[pk] = 0 \/ live'[pk] = 0

(* The step does not touch what is known of k. *)
Keeps(k) ==
    /\ last'[k] = last[k]
    /\ \A v : Tells(records, k, v) => Tells(records', k, v)
    /\ \A v : Shows(index, k, v) => Shows(index', k, v)

(* What a step of c does about k: it keeps out of it, or is alone with it. *)
Fine(c, k) ==
    /\ CallFits(c, k)'
    /\ \/ Keeps(k) /\ (Unlogged(c, k) => Unlogged(c, k)')
       \/ Alone(c, k) /\ (Unlogged(c, k)' \/ Agrees(k)')

LEMMA OthersFit ==
    ASSUME HistoryInv, LocksInv', SettledInv', HazyKnows', NEW c \in Procs,
           OthersWait(c), MapStays,
           hazy \subseteq hazy', NEW k \in Keys \ hazy', Keeps(k) \/ Alone(c, k),
           NEW x \in Procs \ {c}
    PROVE  CallFits(x, k)' /\ (Unlogged(x, k)' <=> Unlogged(x, k))
<1>1. /\ TypeInv /\ k \in Keys \ hazy /\ CallFits(x, k)
      /\ PartOf[k] \in PKs
  BY DynamoParametersAssumption DEF HistoryInv, SettledInv, AllFit
<1>2. /\ call'[x].pc = call[x].pc /\ call'[x].todo = call[x].todo
      /\ call'[x].part = call[x].part /\ call'[x].old = call[x].old
      /\ call'[x].calm => call[x].calm
  BY DEF OthersWait, SameCall
<1>3. Unlogged(x, k)' <=> Unlogged(x, k)
  BY <1>2 DEF Unlogged
<1>4. CASE Keeps(k)
  <2>1. ASSUME Unlogged(x, k), call[x].pc \in Puts
        PROVE  call'[x].part = live'[PartOf[k]]
    <3>1. /\ call[x].part = live[PartOf[k]] /\ call[x].todo[1].to = last[k]
      BY <1>1, <2>1 DEF CallFits, LandedFits
    <3>2. call[x].part \in 1 .. Len(parts) /\ call[x].todo[1].to \in Values
          /\ Len(parts) \in Nat
      BY <1>1, <2>1, CallProps, TypesOf DEF TypeInv
    <3>3. last'[k] # NoItem
      BY <1>4, <3>1, <3>2, DynamoParametersAssumption DEF Keeps
    <3>4. GetItem(k)' = last'[k]
      BY DEF HazyKnows, SettledInv, SettledWritesStick
    <3>5. live'[PartOf[k]] # 0
      BY <3>3, <3>4 DEF GetItem
    <3>6. live[PartOf[k]] # 0
      BY <3>1, <3>2
    <3> QED
      BY <1>1, <1>2, <3>1, <3>5, <3>6 DEF MapStays
  <2>2. LandedFits(x, k)'
    BY <1>1, <1>2, <1>3, <1>4, <2>1 DEF CallFits, LandedFits, Keeps
  <2>3. ReadFits(x, k)'
    BY <1>1, <1>2, <1>4 DEF CallFits, ReadFits, Keeps
  <2> QED
    BY <1>3, <2>2, <2>3 DEF CallFits
<1>5. CASE Alone(c, k)
  <2>1. ~Unlogged(x, k)
    BY <1>1, <1>5, AloneLogs
  <2>2. k \in KeysOf(call[x]) =>
           call[x].pc = "lock" \/ (call[x].pc = "write" /\ ~call[x].calm)
    BY <1>5 DEF Alone
  <2>3. call[x].pc \in {"update", "write"} =>
           (call[x].todo[1].key = k => k \in KeysOf(call[x]))
    BY <1>1, OnKey DEF Puts, Tabled
  <2>4. ReadFits(x, k)'
    BY <1>2, <2>2, <2>3 DEF ReadFits
  <2> QED
    BY <1>3, <2>1, <2>4 DEF CallFits, LandedFits
<1> QED
  BY <1>4, <1>5

LEMMA AllFitStep ==
    ASSUME HistoryInv, LocksInv', SettledInv', HazyKnows', NEW c \in Procs,
           OthersWait(c), MapStays,
           hazy \subseteq hazy', \A k \in Keys \ hazy' : Fine(c, k)
    PROVE  AllFit'
<1> SUFFICES ASSUME NEW k \in Keys \ hazy'
             PROVE  KeyFits(k)' /\ \A x \in Procs : CallFits(x, k)'
  BY DEF AllFit
<1>1. Fine(c, k)
  OBVIOUS
<1>2. CallFits(c, k)' /\ (Keeps(k) \/ Alone(c, k))
  BY <1>1 DEF Fine
<1>3. \A x \in Procs \ {c} : CallFits(x, k)' /\ (Unlogged(x, k)' <=> Unlogged(x, k))
  BY <1>2, OthersFit
<1>4. ASSUME \A x \in Procs : ~Unlogged(x, k)'
      PROVE  Agrees(k)'
  <2>1. CASE Alone(c, k) /\ Agrees(k)'
    BY <2>1
  <2>2. CASE Keeps(k) /\ (Unlogged(c, k) => Unlogged(c, k)')
    <3>1. \A x \in Procs : ~Unlogged(x, k)
      BY <1>3, <1>4, <2>2
    <3>2. Agrees(k)
      BY <3>1 DEF HistoryInv, AllFit, KeyFits
    <3> QED
      BY <2>2, <3>2 DEF Agrees, Keeps
  <2> QED
    BY <1>1, <1>4, <2>1, <2>2 DEF Fine
<1> QED
  BY <1>2, <1>3, <1>4 DEF KeyFits

(* The calls on a key after a step of a call under way. *)
Goes(c) ==
    /\ ToSet(call'[c].todo) \subseteq ToSet(call[c].todo)
    /\ IsPut(call[c]) => IsPut(call'[c]) \/ ToSet(call'[c].todo) = {}

LEMMA OverlapsStep ==
    ASSUME Overlaps, NEW c \in Procs, OthersWait(c), Goes(c), hazy \subseteq hazy'
    PROVE  Overlaps'
<1> SUFFICES ASSUME NEW x \in Procs, NEW y \in Procs, NEW k \in Keys \ hazy',
                    x # y, k \in KeysOf(call'[x]), k \in KeysOf(call'[y])
             PROVE  IsPut(call'[x]) /\ IsPut(call'[y])
  BY DEF Overlaps, KeysOf, IsPut
<1>1. ASSUME NEW z \in Procs, k \in KeysOf(call'[z])
      PROVE  k \in KeysOf(call[z]) /\ (IsPut(call[z]) => IsPut(call'[z]))
  <2>1. CASE z = c
    BY <1>1, <2>1 DEF Goes, KeysOf
  <2>2. CASE z # c
    BY <1>1, <2>2 DEF OthersWait, SameCall, KeysOf, IsPut
  <2> QED
    BY <2>1, <2>2
<1> QED
  BY <1>1 DEF Overlaps

(* The reaper waits while others step. *)
LEMMA ReaperWaits ==
    ASSUME HistoryInv, NEW c \in Procs, c # Reaper, OthersWait(c), hazy \subseteq hazy',
           \A k \in Keys \ hazy' : Fine(c, k)
    PROVE  ReaperFits'
<1>1. /\ Reaper \in Procs \ {c} /\ TypeInv
      /\ call'[Reaper].pc = call[Reaper].pc /\ call'[Reaper].todo = call[Reaper].todo
  BY DEF Procs, OthersWait, SameCall, HistoryInv, SettledInv
<1>2. KeysOf(call[Reaper])' = KeysOf(call[Reaper]) /\ KeysOf(call[Reaper]) \subseteq Keys
  <2>1. call[Reaper].todo \in Seq(Write)
    BY <1>1, CallProps DEF CallType
  <2>2. \A w \in ToSet(call[Reaper].todo) : w.key \in Keys
    BY <2>1, ToSetType, WriteIs
  <2> QED
    BY <1>1, <2>2 DEF KeysOf
<1>3. ASSUME NEW k \in KeysOf(call[Reaper]) \ hazy'
      PROVE  last'[k] \in Expired \cup {NoItem}
  <2>1. Fine(c, k) /\ last[k] \in Expired \cup {NoItem}
    BY <1>2 DEF HistoryInv, ReaperFits
  <2>2. ~Alone(c, k)
    BY <1>1 DEF Alone, HistoryInv, ReaperFits
  <2> QED
    BY <2>1, <2>2 DEF Fine, Keeps
<1> QED
  BY <1>1, <1>2, <1>3 DEF HistoryInv, ReaperFits

LEMMA HistoryStep ==
    ASSUME HistoryInv, LocksInv', SettledInv', HazyKnows', Overlaps', CountFits',
           NEW c \in Procs, c # Reaper \/ ReaperFits', OthersWait(c), MapStays,
           hazy \subseteq hazy', \A k \in Keys \ hazy' : Fine(c, k)
    PROVE  HistoryInv'
<1>1. AllFit' /\ ReaperFits'
  BY AllFitStep, ReaperWaits
<1> QED
  BY <1>1 DEF HistoryInv

(* A call that keeps the table's lock, after a step. *)
LEMMA WrittenGoes ==
    ASSUME TypeInv, NEW c \in Procs, call[c].pc \in Tabled, NEW p,
           NEW recounts \in BOOLEAN, Written(c, p, recounts)
    PROVE  OthersWait(c) /\ Goes(c) /\ call'[c].pc \in {"tx", "idle", "tally"}
<1>1. /\ OthersWait(c) /\ ToSet(call'[c].todo) \subseteq ToSet(call[c].todo)
      /\ call'[c].pc \in {"tx", "idle", "tally"}
  BY WrittenMoves
<1> QED
  BY <1>1 DEF Goes, IsPut, Tabled

LEMMA DoneGoes ==
    ASSUME TypeInv, NEW c \in Procs, call[c].pc \in Tabled, Done(c)
    PROVE  OthersWait(c) /\ Goes(c) /\ call'[c].pc \in {"tx", "idle"}
<1>1. /\ OthersWait(c) /\ ToSet(call'[c].todo) \subseteq ToSet(call[c].todo)
      /\ call'[c].pc \in {"tx", "idle"}
  BY DoneMoves
<1> QED
  BY <1>1 DEF Goes, IsPut, Tabled

(* Only the count of p is raced anew. *)
NewRaces(p) ==
    \A pk \in PKs :
        Raced(pk)' => Raced(pk) \/ (pk = parts'[p].pk /\ parts'[p].raced)

LEMMA RacedAt ==
    ASSUME NEW p,
           \A q \in DOMAIN parts' : q # p /\ parts'[q].raced =>
               q \in DOMAIN parts /\ parts[q].raced /\ parts[q].pk = parts'[q].pk
    PROVE  NewRaces(p)
<1> SUFFICES ASSUME NEW pk \in PKs, NEW q \in DOMAIN parts',
                    parts'[q].pk = pk, parts'[q].raced
             PROVE  Raced(pk) \/ (pk = parts'[p].pk /\ parts'[p].raced)
  BY DEF NewRaces, Raced
<1>1. CASE q # p
  BY <1>1 DEF Raced
<1> QED
  BY <1>1

LEMMA KnowsSame ==
    ASSUME HazyKnows, sure' = sure, hazy \subseteq hazy',
           \A pk \in PKs : Raced(pk)' => Raced(pk)
    PROVE  HazyKnows'
BY DynamoParametersAssumption DEF HazyKnows

LEMMA KnowsLand ==
    ASSUME TypeInv, HazyKnows, NEW c, NEW p, NEW k \in Keys, NEW v, Land(c, p, k, v),
           NewRaces(p)
    PROVE  HazyKnows' /\ hazy \subseteq hazy' /\ (k \notin hazy' => call[c].calm)
<1>1. /\ sure' = IF call[c].calm THEN sure \cup {k} ELSE sure \ {k}
      /\ hazy' = hazy \cup (IF call[c].calm THEN {} ELSE {k})
                     \cup RacedKeys(parts', p)
  BY DEF Land
<1>2. ASSUME NEW j \in Keys \ hazy'
      PROVE  j \in sure' /\ ~Raced(PartOf[j])'
  <2>1. j \in Keys \ hazy /\ j \in sure /\ ~Raced(PartOf[j]) /\ PartOf[j] \in PKs
    BY <1>1, DynamoParametersAssumption DEF HazyKnows
  <2>2. ~(parts'[p].raced /\ PartOf[j] = parts'[p].pk)
    BY <1>1 DEF RacedKeys
  <2>3. j = k => call[c].calm
    BY <1>1
  <2> QED
    BY <1>1, <2>1, <2>2, <2>3 DEF NewRaces
<1> QED
  BY <1>1, <1>2 DEF HazyKnows

LEMMA KnowsDrop ==
    ASSUME HazyKnows, NEW p, NewRaces(p), sure' = sure,
           hazy' = hazy \cup RacedKeys(parts', p)
    PROVE  HazyKnows'
<1> SUFFICES ASSUME NEW j \in Keys \ hazy'
             PROVE  j \in sure' /\ ~Raced(PartOf[j])'
  BY DEF HazyKnows
<1>1. j \in Keys \ hazy /\ j \in sure /\ ~Raced(PartOf[j]) /\ PartOf[j] \in PKs
  BY DynamoParametersAssumption DEF HazyKnows
<1>2. ~(parts'[p].raced /\ PartOf[j] = parts'[p].pk)
  BY DEF RacedKeys
<1> QED
  BY <1>1, <1>2 DEF NewRaces

(* A write in a partition that was there, or is made empty. *)
LEMMA WriteFlags ==
    ASSUME NEW all \in Seq(PartitionType), NEW p \in 1 .. Len(all),
           NEW k \in Keys, NEW v, Rewritten(parts', all, p, k, v),
           parts \in Seq(PartitionType), Len(all) >= Len(parts),
           \A q \in 1 .. Len(parts) : all[q] = parts[q],
           \A q \in 1 .. Len(all) : q > Len(parts) => ~all[q].raced
    PROVE  NewRaces(p)
<1>1. Len(parts) \in Nat /\ Len(all) \in Nat /\ DOMAIN parts = 1 .. Len(parts)
      /\ DOMAIN parts' = 1 .. Len(all)
  BY DEF Rewritten
<1>2. ASSUME NEW q \in DOMAIN parts', q # p, parts'[q].raced
      PROVE  q \in DOMAIN parts /\ parts[q].raced /\ parts[q].pk = parts'[q].pk
  <2>1. parts'[q] = all[q] /\ q \in 1 .. Len(all)
    BY <1>1, <1>2 DEF Rewritten
  <2> QED
    BY <1>1, <1>2, <2>1
<1> QED
  BY <1>2, RacedAt

(* What a write that replaces old by new adds to the count. *)
Counted(old, new) ==
    (IF new = NoItem THEN 0 ELSE 1) - (IF old = NoItem THEN 0 ELSE 1)

LEMMA CountLand ==
    ASSUME TypeInv, CountFits, NEW k \in Keys, NEW v, last' = [last EXCEPT ![k] = v],
           hazy \subseteq hazy', hazy' = {} => count' = count + Counted(last[k], v)
    PROVE  CountFits'
<1> SUFFICES ASSUME hazy' = {}
             PROVE  count' = Cardinality({j \in Keys : last'[j] # NoItem})
  BY DEF CountFits
<1> DEFINE S == {j \in Keys : last[j] # NoItem}
           T == {j \in Keys : last'[j] # NoItem}
<1>1. count = Cardinality(S) /\ count' = count + Counted(last[k], v)
  BY DEF CountFits
<1>2. IsFiniteSet(S) /\ Cardinality(S) \in Nat
  BY DynamoParametersAssumption, FS_Subset, FS_CardinalityType
<1>3. /\ last'[k] = v
      /\ \A j \in Keys \ {k} : last'[j] = last[j]
  BY DEF TypeInv, TypeOK
<1>4. T = IF v = NoItem THEN S \ {k} ELSE S \cup {k}
  BY <1>3
<1>5. k \in S <=> last[k] # NoItem
  OBVIOUS
<1> HIDE DEF S, T
<1>6. /\ Cardinality(S \cup {k}) = IF k \in S THEN Cardinality(S) ELSE Cardinality(S) + 1
      /\ Cardinality(S \ {k}) = IF k \in S THEN Cardinality(S) - 1 ELSE Cardinality(S)
  BY <1>2, FS_AddElement, FS_RemoveElement
<1>7. Cardinality(T) = Cardinality(S) + Counted(last[k], v)
  BY <1>2, <1>4, <1>5, <1>6 DEF Counted
<1> QED
  BY <1>1, <1>7 DEF T

LEMMA CountSame ==
    ASSUME CountFits, hazy \subseteq hazy', UNCHANGED <<count, last>>
    PROVE  CountFits'
BY DEF CountFits

(* What the reaper's own steps do. *)
LEMMA ReaperSteps ==
    ASSUME TypeInv, ReaperFits, Goes(Reaper), call'[Reaper].pc \in {"tx",
           "idle", "tally"},
           hazy \subseteq hazy', \A j \in Keys : last'[j] \in {last[j], NoItem}
    PROVE  ReaperFits'
<1>1. call[Reaper].todo \in Seq(Write)
  BY CallProps DEF CallType, Procs
<1>2. \A w \in ToSet(call[Reaper].todo) : w.key \in Keys
  BY <1>1, ToSetType, WriteIs
<1>3. /\ KeysOf(call'[Reaper]) \subseteq KeysOf(call[Reaper])
      /\ KeysOf(call[Reaper]) \subseteq Keys
  BY <1>2 DEF Goes, KeysOf
<1>4. \A w \in ToSet(call'[Reaper].todo) : w.to = NoItem
  BY DEF Goes, ReaperFits
<1>5. \A k \in KeysOf(call'[Reaper]) \ hazy' : last'[k] \in Expired \cup {NoItem}
  BY <1>3 DEF ReaperFits
<1> QED
  BY <1>4, <1>5 DEF ReaperFits


-----------------------------------------------------------------------------
(* A call starts.                                                          *)

LEMMA StartOverlaps ==
    ASSUME Overlaps, NEW c \in Procs, NEW r, Start(c, r), OthersWait(c),
           call'[c].pc = r.pc, call'[c].todo = r.todo
    PROVE  Overlaps'
<1>1. hazy' = hazy \cup
          {k \in KeysOf(r) : \E y \in Procs \ {c} :
              k \in KeysOf(call[y]) /\ ~(IsPut(r) /\ IsPut(call[y]))}
  BY DEF Start
<1>2. KeysOf(call'[c]) = KeysOf(r) /\ (IsPut(call'[c]) <=> IsPut(r))
  BY DEF KeysOf, IsPut
<1>3. ASSUME NEW x \in Procs \ {c}
      PROVE  KeysOf(call'[x]) = KeysOf(call[x]) /\ (IsPut(call'[x]) <=> IsPut(call[x]))
  BY DEF OthersWait, SameCall, KeysOf, IsPut
<1>4. ASSUME NEW x \in Procs, NEW y \in Procs, NEW k \in Keys \ hazy',
             x # y, k \in KeysOf(call'[x]), k \in KeysOf(call'[y])
      PROVE  IsPut(call'[x]) /\ IsPut(call'[y])
  <2>1. ASSUME NEW z \in Procs \ {c}, k \in KeysOf(call'[c]), k \in KeysOf(call'[z])
        PROVE  IsPut(call'[c]) /\ IsPut(call'[z])
    BY <1>1, <1>2, <1>3, <2>1
  <2>2. CASE x # c /\ y # c
    BY <1>1, <1>3, <1>4, <2>2 DEF Overlaps
  <2> QED
    BY <1>4, <2>1, <2>2
<1> QED
  BY <1>4 DEF Overlaps, KeysOf, IsPut

LEMMA StartHistory ==
    ASSUME HistoryInv, LocksInv', SettledInv', NEW c \in Procs,
           c # Reaper \/ ReaperFits',
           NEW n \in Nat, n >= Len(parts), NEW r \in CallType(n), Start(c, r),
           call[c].pc = "idle", r.pc \in {"lock", "remove", "update", "tx"},
           r.pc = "update" => r.old = GetItem(r.todo[1].key),
           MapStays, \A pk \in PKs : Raced(pk)' => Raced(pk),
           UNCHANGED <<index, count, records, last, sure>>
    PROVE  HistoryInv'
<1>1. call \in [Procs -> CallType(n)]
  <2>1. call \in [Procs -> CallType(Len(parts))] /\ Len(parts) \in Nat
    BY TypesOf DEF HistoryInv, SettledInv, TypeInv
  <2> QED
    BY <2>1 DEF CallType
<1>2. /\ OthersWait(c) /\ hazy \subseteq hazy'
      /\ call'[c].pc = r.pc /\ call'[c].todo = r.todo /\ call'[c].old = r.old
  BY <1>1, StartWaits
<1>3. Overlaps'
  BY <1>2, StartOverlaps DEF HistoryInv
<1>4. HazyKnows' /\ CountFits'
  BY <1>2, KnowsSame, CountSame DEF HistoryInv
<1>5. ASSUME NEW k \in Keys \ hazy'
      PROVE  Fine(c, k)
  <2>1. GetItem(k) = last[k]
    BY <1>2, ReadsLast
  <2>2. CallFits(c, k)'
    BY <1>2, <2>1 DEF CallFits, LandedFits, ReadFits, Unlogged, Landed
  <2>3. Keeps(k) /\ ~Unlogged(c, k)
    BY DEF Keeps, Unlogged, Landed
  <2> QED
    BY <2>2, <2>3 DEF Fine
<1> QED
  BY <1>2, <1>3, <1>4, <1>5, HistoryStep

LEMMA PutItemHistory ==
    ASSUME HistoryInv, LocksInv', SettledInv', NEW c \in Clients,
           NEW w \in Requests, PutItem(c, w)
    PROVE  HistoryInv'
<1>1. PICK pk, f, r : /\ pk = PartOf[w.key] /\ f = GetOrCreate(pk)
                      /\ r = [Idle EXCEPT !.pc = "lock", !.todo = <<w>>, !.part = f.id]
  BY Zenon
<1>2. /\ TypeInv /\ c \in Procs /\ c # Reaper /\ call[c].pc = "idle"
      /\ w \in Write /\ pk \in PKs
  BY <1>1, DynamoParametersAssumption, WriteIs
     DEF PutItem, Request, HistoryInv, SettledInv, Procs
<1>3. /\ parts' = f.all /\ live' = [live EXCEPT ![pk] = f.id]
      /\ Start(c, r) /\ UNCHANGED <<index, count, records, last, sure>>
  BY <1>1 DEF PutItem
<1>4. /\ f.all \in Seq(PartitionType)
      /\ f.id \in 1 .. Len(f.all) /\ f.all[f.id].pk = pk
      /\ Len(parts) \in Nat /\ Len(f.all) >= Len(parts)
      /\ \A p \in 1 .. Len(parts) : f.all[p] = parts[p]
      /\ live[pk] # 0 => f.all = parts /\ f.id = live[pk]
      /\ live[pk] = 0 => Len(f.all) = Len(parts) + 1 /\ f.id = Len(parts) + 1
                         /\ f.all[f.id] = EmptyPartition(pk)
  BY <1>1, <1>2, Found DEF TypeInv
<1>5. live \in [PKs -> 0 .. Len(parts)] /\ parts \in Seq(PartitionType)
  BY <1>2, TypesOf DEF TypeInv, TypeOK
<1>6. MapStays
  BY <1>3, <1>4, <1>5 DEF MapStays
<1>7. ASSUME NEW q \in DOMAIN parts', parts'[q].raced
      PROVE  q \in DOMAIN parts /\ parts[q] = parts'[q]
  <2>1. CASE live[pk] # 0
    BY <1>3, <1>4, <1>7, <2>1
  <2>2. CASE live[pk] = 0
    <3>1. ~f.all[f.id].raced
      BY <1>4, <2>2 DEF EmptyPartition
    <3> QED
      BY <1>3, <1>4, <1>5, <1>7, <2>2, <3>1
  <2> QED
    BY <2>1, <2>2
<1>8. \A k \in PKs : Raced(k)' => Raced(k)
  BY <1>7 DEF Raced
<1>9. PICK n : n = Len(f.all)
  OBVIOUS
<1>10. /\ r \in CallType(n) /\ r.pc = "lock" /\ n \in Nat /\ n >= Len(parts)
  <2>1. n \in Nat /\ f.id \in 0 .. n /\ <<w>> \in Seq(Write)
    BY <1>2, <1>4, <1>9, Single
  <2> QED
    BY <1>1, <1>4, <1>9, <2>1, IdleType DEF CallType
<1> QED
  BY <1>2, <1>3, <1>6, <1>8, <1>10, StartHistory

(* A start that makes no partition. *)
LEMMA QuietStartHistory ==
    ASSUME HistoryInv, LocksInv', SettledInv', NEW c \in Procs,
           c # Reaper \/ ReaperFits',
           NEW r \in CallType(Len(parts)), Start(c, r), call[c].pc = "idle",
           r.pc \in {"remove", "update", "tx"},
           r.pc = "update" => r.old = GetItem(r.todo[1].key),
           UNCHANGED <<parts, live, index, count, records, last, sure>>
    PROVE  HistoryInv'
<1>1. Len(parts) \in Nat
  BY TypesOf DEF HistoryInv, SettledInv, TypeInv
<1>2. MapStays /\ \A pk \in PKs : Raced(pk)' => Raced(pk)
  BY DEF MapStays, Raced
<1> QED
  BY <1>1, <1>2, StartHistory

LEMMA DeleteItemHistory ==
    ASSUME HistoryInv, LocksInv', SettledInv', NEW c \in Clients, NEW w \in Requests,
           DeleteItem(c, w)
    PROVE  HistoryInv'
<1>1. PICK p, r : /\ p = live[PartOf[w.key]]
                  /\ r = [Idle EXCEPT !.pc = "remove", !.todo = <<w>>, !.part = p]
  BY Zenon
<1>2. /\ TypeInv /\ c \in Procs /\ c # Reaper /\ call[c].pc = "idle"
      /\ w \in Write /\ PartOf[w.key] \in PKs
  BY DynamoParametersAssumption, WriteIs
     DEF DeleteItem, Request, HistoryInv, SettledInv, Procs
<1>3. Start(c, r) /\ UNCHANGED <<parts, live, index, count, records, last, sure>>
  BY <1>1 DEF DeleteItem
<1>4. r \in CallType(Len(parts)) /\ r.pc = "remove"
  <2>1. p \in 0 .. Len(parts) /\ Len(parts) \in Nat /\ <<w>> \in Seq(Write)
    BY <1>1, <1>2, Single, TypesOf DEF TypeInv, TypeOK
  <2> QED
    BY <1>1, <2>1, IdleType DEF CallType
<1> QED
  BY <1>2, <1>3, <1>4, QuietStartHistory

LEMMA UpdateItemHistory ==
    ASSUME HistoryInv, LocksInv', SettledInv', NEW c \in Clients, NEW w \in Requests,
           UpdateItem(c, w)
    PROVE  HistoryInv'
<1>1. PICK g, r : /\ g = GetItem(w.key)
                  /\ r = [Idle EXCEPT !.pc = "update", !.todo = <<w>>, !.old = g]
  BY Zenon
<1>2. /\ TypeInv /\ c \in Procs /\ c # Reaper /\ call[c].pc = "idle"
      /\ w \in Write /\ w.key \in Keys
  BY DynamoParametersAssumption, WriteIs
     DEF UpdateItem, Request, HistoryInv, SettledInv, Procs
<1>3. Start(c, r) /\ UNCHANGED <<parts, live, index, count, records, last, sure>>
  BY <1>1 DEF UpdateItem
<1>4. r \in CallType(Len(parts)) /\ r.pc = "update" /\ r.old = g /\ r.todo = <<w>>
  <2>1. g \in Values \cup {NoItem} /\ Len(parts) \in Nat /\ <<w>> \in Seq(Write)
    BY <1>1, <1>2, GetItemType, Single, TypesOf DEF TypeInv
  <2> QED
    BY <1>1, <2>1, IdleType DEF CallType
<1>5. r.old = GetItem(r.todo[1].key)
  <2>1. r.todo[1] = w
    BY <1>4
  <2> QED
    BY <1>1, <1>4, <2>1
<1> QED
  BY <1>2, <1>3, <1>4, <1>5, QuietStartHistory

(* A transaction, or the writes of the reaper. *)
LEMMA TxHistory ==
    ASSUME HistoryInv, LocksInv', SettledInv', NEW c \in Procs,
           c # Reaper \/ ReaperFits',
           call[c].pc = "idle", NEW t \in Seq(Write),
           Start(c, [Idle EXCEPT !.pc = "tx", !.todo = t]),
           UNCHANGED <<parts, live, index, count, records, last, sure>>
    PROVE  HistoryInv'
<1>1. PICK r : r = [Idle EXCEPT !.pc = "tx", !.todo = t]
  OBVIOUS
<1>2. r \in CallType(Len(parts)) /\ r.pc = "tx"
  <2>1. Len(parts) \in Nat
    BY TypesOf DEF HistoryInv, SettledInv, TypeInv
  <2> QED
    BY <1>1, <2>1, IdleType DEF CallType
<1>3. Start(c, r)
  BY <1>1
<1> QED
  BY <1>2, <1>3, QuietStartHistory

LEMMA TransactHistory ==
    ASSUME HistoryInv, LocksInv', SettledInv', NEW c \in Clients,
           NEW t \in Transactions,
           TransactWriteItems(c, t)
    PROVE  HistoryInv'
<1>1. c \in Procs /\ c # Reaper /\ t.writes \in Seq(Write) /\ call[c].pc = "idle"
  BY DynamoParametersAssumption DEF Procs, TransactWriteItems, Request, Transaction
<1>2. /\ Start(c, [Idle EXCEPT !.pc = "tx", !.todo = t.writes])
      /\ UNCHANGED <<parts, live, index, count, records, last, sure>>
  BY DEF TransactWriteItems
<1> QED
  BY <1>1, <1>2, TxHistory, Zenon

LEMMA ScanHistory ==
    ASSUME HistoryInv, LocksInv', SettledInv', NEW t \in ExpiredKeys,
           ScanExpired(Reaper, t)
    PROVE  HistoryInv'
<1>1. PICK todo : todo = [i \in DOMAIN t |->
                             [key |-> t[i], to |-> NoItem, cond |-> "none",
                              update |-> FALSE]]
  OBVIOUS
<1>2. t \in Seq(Keys) /\ \A i \in DOMAIN t : GetItem(t[i]) \in Expired
  <2>1. t \in Seq(Keys)
    BY ExpiredKeysType
  <2>2. PICK n, E : E = {k \in Keys : GetItem(k) \in Expired} /\ t \in [1 .. n -> E]
    BY DEF ExpiredKeys, SetToSeqs
  <2> QED
    BY <2>1, <2>2
<1>3. /\ todo \in Seq(Write)
      /\ \A w \in ToSet(todo) : w.to = NoItem /\ \E i \in DOMAIN t : w.key = t[i]
  <2>1. \A k \in Keys : [key |-> k, to |-> NoItem, cond |-> "none",
                        update |-> FALSE] \in Write
    BY DEF Write
  <2>2. todo \in Seq(Write)
    BY <1>1, <1>2, <2>1
  <2>3. DOMAIN todo = DOMAIN t
    BY <1>1
  <2> QED
    BY <1>1, <2>2, <2>3 DEF ToSet
<1>4. /\ Reaper \in Procs /\ call[Reaper].pc = "idle"
      /\ Start(Reaper, [Idle EXCEPT !.pc = "tx", !.todo = todo])
      /\ UNCHANGED <<parts, live, index, count, records, last, sure>>
  BY <1>1 DEF ScanExpired, Procs
<1>5. ReaperFits'
  <2>1. PICK r : r = [Idle EXCEPT !.pc = "tx", !.todo = todo]
    OBVIOUS
  <2>2. Len(parts) \in Nat /\ call \in [Procs -> CallType(Len(parts))]
    BY TypesOf DEF HistoryInv, SettledInv, TypeInv
  <2>3. r \in CallType(Len(parts)) /\ r.pc = "tx" /\ r.todo = todo
    BY <1>3, <2>1, <2>2, IdleType DEF CallType
  <2>4. Start(Reaper, r)
    BY <1>4, <2>1
  <2>5. call'[Reaper].pc = "tx" /\ call'[Reaper].todo = todo /\ hazy \subseteq hazy'
    BY <1>4, <2>2, <2>3, <2>4, StartWaits
  <2>6. ASSUME NEW k \in KeysOf(call'[Reaper]) \ hazy'
        PROVE  last'[k] \in Expired
    <3>1. PICK i \in DOMAIN t : k = t[i]
      BY <1>3, <2>5 DEF KeysOf
    <3>2. k \in Keys \ hazy
      BY <1>2, <2>5, <3>1
    <3>3. GetItem(k) = last[k]
      BY <3>2, ReadsLast
    <3> QED
      BY <1>2, <1>4, <3>1, <3>3
  <2> QED
    BY <1>3, <2>5, <2>6 DEF ReaperFits
<1> QED
  BY <1>3, <1>4, <1>5, TxHistory, Zenon


-----------------------------------------------------------------------------
(* A call goes on, or returns.                                             *)

(* The index after old was replaced by new under k.                        *)
Reindexed(k, old, new) ==
    /\ Shows(index, k, old) => Shows(index', k, new)
    /\ \A j \in Keys \ {k} : \A u : Shows(index, j, u) => Shows(index', j, u)

LEMMA ReindexPut ==
    ASSUME NEW k \in Keys, NEW old \in Values \cup {NoItem}, NEW v \in Values,
           index' = IndexItem(DeindexItem(index, k, old), k, v)
    PROVE  Reindexed(k, old, v)
<1>1. PICK ix : ix = index
  OBVIOUS
<1>2. ASSUME Shows(ix, k, old)
      PROVE  Shows(IndexItem(DeindexItem(ix, k, old), k, v), k, v)
  BY <1>2, ShowsOwn
<1>3. ASSUME NEW j \in Keys \ {k}, NEW u, Shows(ix, j, u)
      PROVE  Shows(IndexItem(DeindexItem(ix, k, old), k, v), j, u)
  BY <1>3, ShowsOther
<1> QED
  BY <1>1, <1>2, <1>3 DEF Reindexed

LEMMA ReindexDelete ==
    ASSUME NEW k \in Keys, NEW old \in Values \cup {NoItem},
           index' = DeindexItem(index, k, old)
    PROVE  Reindexed(k, old, NoItem)
<1>1. PICK ix : ix = index
  OBVIOUS
<1>2. ASSUME Shows(ix, k, old)
      PROVE  Shows(DeindexItem(ix, k, old), k, NoItem)
  BY <1>2, ShowsOwn
<1>3. ASSUME NEW j \in Keys \ {k}, NEW u, Shows(ix, j, u)
      PROVE  Shows(DeindexItem(ix, k, old), j, u)
  BY <1>3, ShowsOther
<1> QED
  BY <1>1, <1>2, <1>3 DEF Reindexed

(* The records after new was written over old under k. *)
Told(k, old, new) ==
    /\ Tells(records, k, old) => Tells(records', k, new)
    /\ \A j \in Keys \ {k} : \A u : Tells(records, j, u) => Tells(records', j, u)

LEMMA RecordTells ==
    ASSUME TypeInv, NEW k \in Keys, NEW old \in Values \cup {NoItem},
           NEW new \in Values \cup {NoItem},
           records' = Append(records, Record(k, old, new))
    PROVE  Told(k, old, new)
<1>1. PICK e, rs : e = Record(k, old, new) /\ rs = records
  OBVIOUS
<1>2. e \in RecordType /\ rs \in Seq(RecordType)
  BY <1>1, RecordIs, TypesOf DEF TypeInv
<1>3. e.key = k /\ e.old = old /\ e.new = new
  BY <1>1 DEF Record
<1>4. ASSUME Tells(rs, k, old)
      PROVE  Tells(Append(rs, e), k, new)
  BY <1>2, <1>3, <1>4, TellsMore
<1>5. ASSUME NEW j \in Keys \ {k}, NEW u, Tells(rs, j, u)
      PROVE  Tells(Append(rs, e), j, u)
  BY <1>2, <1>3, <1>5, TellsMore
<1> QED
  BY <1>1, <1>4, <1>5 DEF Told

LEMMA NotReaper ==
    ASSUME HistoryInv, NEW c, call[c].pc \notin {"idle", "tx", "tally"}
    PROVE  c # Reaper
BY DEF HistoryInv, ReaperFits

(* A step that writes no item. *)
LEMMA QuietHistory ==
    ASSUME HistoryInv, LocksInv', SettledInv', NEW c \in Procs, c # Reaper,
           OthersWait(c), Goes(c), MapStays,
           \A pk \in PKs : Raced(pk)' => Raced(pk),
           UNCHANGED <<count, last, sure, hazy>>,
           \A k \in Keys \ hazy : Fine(c, k)
    PROVE  HistoryInv'
<1>1. HazyKnows' /\ CountFits' /\ Overlaps'
  BY KnowsSame, CountSame, OverlapsStep DEF HistoryInv
<1> QED
  BY <1>1, HistoryStep

(* One that returns without having written. *)
LEMMA IdleFine ==
    ASSUME NEW c \in Procs, call[c].pc \notin Landed,
           call' = [call EXCEPT ![c] = Idle], TypeInv,
           UNCHANGED <<records, index, last>>
    PROVE  /\ OthersWait(c) /\ Goes(c) /\ call'[c].pc = "idle"
           /\ \A k \in Keys \ hazy : Fine(c, k)
<1>1. OthersWait(c) /\ call'[c] = Idle
  BY CallStep
<1>2. Idle.pc = "idle" /\ ToSet(Idle.todo) = {}
  <2>1. Len(parts) \in Nat
    BY TypesOf DEF TypeInv
  <2> QED
    BY <2>1, IdleRests
<1>3. Goes(c)
  BY <1>1, <1>2 DEF Goes
<1>4. ASSUME NEW k \in Keys \ hazy
      PROVE  Fine(c, k)
  <2>1. CallFits(c, k)'
    BY <1>1, <1>2 DEF CallFits, LandedFits, ReadFits, Unlogged, Landed
  <2>2. Keeps(k) /\ ~Unlogged(c, k)
    BY DEF Keeps, Unlogged
  <2> QED
    BY <2>1, <2>2 DEF Fine
<1> QED
  BY <1>1, <1>2, <1>3, <1>4

LEMMA PutCheckHistory ==
    ASSUME HistoryInv, LocksInv', SettledInv', NEW c \in Procs, PutCheck(c)
    PROVE  HistoryInv'
<1>1. PICK w, p, r : /\ w = call[c].todo[1] /\ p = call[c].part
                     /\ r = [call[c] EXCEPT !.pc = "write"]
  OBVIOUS
<1>2. /\ TypeInv /\ CalmIsLive /\ call[c].pc = "lock" /\ parts[p].mu = Nobody
      /\ UNCHANGED <<live, index, count, records, last, sure, hazy>>
  BY <1>1 DEF PutCheck, HistoryInv, SettledInv
<1>3. /\ p \in 1 .. Len(parts) /\ call[c] \in CallType(Len(parts))
      /\ call \in [Procs -> CallType(Len(parts))]
  BY <1>1, <1>2, CallProps, TypesOf DEF Puts, TypeInv
<1>4. c # Reaper /\ MapStays
  BY <1>2, NotReaper DEF MapStays
<1>5. CASE /\ Holds(w.cond, parts[p].items[w.key])
           /\ parts' = [parts EXCEPT ![p].mu = c]
           /\ call' = [call EXCEPT ![c] = r]
  <2>1. r.pc = "write" /\ r.todo = call[c].todo /\ r.part = p /\ r.calm = call[c].calm
    BY <1>1, <1>3 DEF CallType
  <2>2. OthersWait(c) /\ call'[c] = r
    BY <1>2, <1>5, CallStep
  <2>3. Goes(c)
    BY <2>1, <2>2 DEF Goes, IsPut
  <2>4. \A pk \in PKs : Raced(pk)' => Raced(pk)
    BY <1>2, <1>3, <1>5, LockFlags
  <2>5. ASSUME NEW k \in Keys \ hazy
        PROVE  Fine(c, k)
    <3>1. ASSUME call[c].calm, w.key = k
          PROVE  Holds(w.cond, last[k])
      <4>1. p = live[PartOf[k]]
        BY <1>1, <1>2, <3>1 DEF CalmIsLive
      <4>2. GetItem(k) = parts[p].items[k]
        BY <1>3, <4>1 DEF GetItem
      <4>3. GetItem(k) = last[k]
        BY ReadsLast
      <4> QED
        BY <1>5, <3>1, <4>2, <4>3
    <3>2. CallFits(c, k)'
      BY <1>1, <1>2, <2>1, <2>2, <3>1
         DEF CallFits, LandedFits, ReadFits, Unlogged, Landed
    <3>3. Keeps(k) /\ ~Unlogged(c, k)
      BY <1>2 DEF Keeps, Unlogged, Landed
    <3> QED
      BY <3>2, <3>3 DEF Fine
  <2> QED
    BY <1>2, <1>4, <2>2, <2>3, <2>4, <2>5, QuietHistory
<1>6. CASE call' = [call EXCEPT ![c] = Idle] /\ UNCHANGED parts
  <2>1. /\ OthersWait(c) /\ Goes(c) /\ call'[c].pc = "idle"
        /\ \A k \in Keys \ hazy : Fine(c, k)
    BY <1>2, <1>6, IdleFine DEF Landed
  <2>2. \A pk \in PKs : Raced(pk)' => Raced(pk)
    BY <1>6 DEF Raced
  <2> QED
    BY <1>2, <1>4, <2>1, <2>2, QuietHistory
<1>7. \/ /\ Holds(w.cond, parts[p].items[w.key])
         /\ parts' = [parts EXCEPT ![p].mu = c]
         /\ call' = [call EXCEPT ![c] = r]
      \/ call' = [call EXCEPT ![c] = Idle] /\ UNCHANGED parts
  BY <1>1, <1>3 DEF PutCheck
<1> QED
  BY <1>5, <1>6, <1>7

(* The index is brought up to what c has written. *)
LEMMA IndexFine ==
    ASSUME HistoryInv, NEW c \in Procs, NEW k, k = call[c].todo[1].key,
           \/ call[c].pc = "index" /\ call'[c].pc = "stream"
           \/ call[c].pc = "drop" /\ call'[c].pc = "log",
           call'[c].todo = call[c].todo, call'[c].old = call[c].old,
           call[c].pc = "index" => call'[c].part = call[c].part /\ live' = live,
           Reindexed(k, call[c].old, call[c].todo[1].to),
           UNCHANGED <<records, last>>
    PROVE  Goes(c) /\ \A j \in Keys \ hazy : Fine(c, j)
<1>1. TypeInv /\ k \in KeysOf(call[c])
  BY OnKey DEF HistoryInv, SettledInv, Puts, Removals
<1>2. Goes(c)
  BY DEF Goes, IsPut
<1>3. ASSUME NEW j \in Keys \ hazy, j # k
      PROVE  Fine(c, j)
  <2>1. Keeps(j)
    BY <1>3 DEF Keeps, Reindexed
  <2>2. CallFits(c, j)' /\ ~Unlogged(c, j)
    BY <1>3 DEF CallFits, LandedFits, ReadFits, Unlogged
  <2> QED
    BY <2>1, <2>2 DEF Fine
<1>4. ASSUME k \in Keys \ hazy
      PROVE  Fine(c, k)
  <2>1. Alone(c, k)
    BY <1>1, <1>4, IsAlone
  <2>2. Unlogged(c, k) /\ Unlogged(c, k)'
    BY DEF Unlogged, Landed
  <2>3. LandedFits(c, k)
    BY <1>4 DEF HistoryInv, AllFit, CallFits
  <2>4. /\ call[c].todo[1].to = last[k] /\ Tells(records, k, call[c].old)
        /\ Shows(index, k, call[c].old)
        /\ call[c].pc = "index" => call[c].part = live[PartOf[k]]
    BY <2>2, <2>3 DEF LandedFits, Puts
  <2>5. Shows(index', k, last[k])
    BY <2>4 DEF Reindexed
  <2>6. CallFits(c, k)'
    BY <2>4, <2>5 DEF CallFits, LandedFits, ReadFits, Unlogged, Puts
  <2> QED
    BY <2>1, <2>2, <2>6 DEF Fine
<1> QED
  BY <1>2, <1>3, <1>4

(* A count is written. *)
LEMMA CountFine ==
    ASSUME HistoryInv, NEW c \in Procs, NEW r, r = [call[c] EXCEPT !.pc = r.pc],
           \/ call[c].pc = "count" /\ r.pc = "index"
           \/ call[c].pc = "uncount" /\ r.pc = "drop",
           call' = [call EXCEPT ![c] = r], UNCHANGED <<live, index, records, last>>
    PROVE  OthersWait(c) /\ Goes(c) /\ \A j \in Keys \ hazy : Fine(c, j)
<1>1. TypeInv /\ call[c] \in CallType(Len(parts))
  BY TypesOf DEF HistoryInv, SettledInv, TypeInv
<1>2. OthersWait(c) /\ call'[c] = r
  BY <1>1, CallStep
<1>3. r.todo = call[c].todo /\ r.part = call[c].part /\ r.old = call[c].old
  BY <1>1 DEF CallType
<1>4. Goes(c)
  BY <1>2, <1>3 DEF Goes, IsPut
<1>5. ASSUME NEW j \in Keys \ hazy
      PROVE  Fine(c, j)
  <2>1. Keeps(j) /\ (Unlogged(c, j)' <=> Unlogged(c, j))
    BY <1>2, <1>3 DEF Keeps, Unlogged, Landed
  <2>2. LandedFits(c, j)
    BY DEF HistoryInv, AllFit, CallFits
  <2>3. LandedFits(c, j)'
    BY <1>2, <1>3, <2>1, <2>2 DEF LandedFits, Puts
  <2>4. ReadFits(c, j)'
    BY <1>2 DEF ReadFits
  <2> QED
    BY <2>1, <2>3, <2>4 DEF Fine, CallFits
<1> QED
  BY <1>2, <1>4, <1>5

LEMMA PutCountHistory ==
    ASSUME HistoryInv, LocksInv', SettledInv', NEW c \in Procs, PutCount(c)
    PROVE  HistoryInv'
<1>1. PICK r : r = [call[c] EXCEPT !.pc = "index"]
  OBVIOUS
<1>2. /\ TypeInv /\ call[c].pc = "count" /\ call[c] \in CallType(Len(parts))
      /\ call \in [Procs -> CallType(Len(parts))]
  BY TypesOf DEF PutCount, HistoryInv, SettledInv, TypeInv
<1>3. UNCHANGED <<parts, live, index, count, records, last, sure, hazy>>
  BY DEF PutCount
<1>4. call' = [call EXCEPT ![c] = r]
  BY <1>1, <1>2 DEF PutCount
<1>5. r.pc = "index" /\ r = [call[c] EXCEPT !.pc = r.pc]
  BY <1>1, <1>2 DEF CallType
<1>6. OthersWait(c) /\ Goes(c) /\ \A j \in Keys \ hazy : Fine(c, j)
  BY <1>2, <1>3, <1>4, <1>5, CountFine
<1>7. c # Reaper /\ MapStays /\ \A pk \in PKs : Raced(pk)' => Raced(pk)
  BY <1>2, <1>3, NotReaper DEF MapStays, Raced
<1> QED
  BY <1>3, <1>6, <1>7, QuietHistory

LEMMA DeleteCountHistory ==
    ASSUME HistoryInv, LocksInv', SettledInv', NEW c \in Procs, DeleteCount(c)
    PROVE  HistoryInv'
<1>1. PICK p, r : p = call[c].part /\ r = [call[c] EXCEPT !.pc = "drop"]
  OBVIOUS
<1>2. /\ TypeInv /\ call[c].pc = "uncount" /\ call[c] \in CallType(Len(parts))
      /\ call \in [Procs -> CallType(Len(parts))]
  BY TypesOf DEF DeleteCount, HistoryInv, SettledInv, TypeInv
<1>3. /\ UNCHANGED <<live, index, count, records, last, sure, hazy>>
      /\ parts' = [parts EXCEPT ![p].mu = Nobody]
  BY <1>1 DEF DeleteCount
<1>4. call' = [call EXCEPT ![c] = r]
  BY <1>1, <1>2 DEF DeleteCount
<1>5. r.pc = "drop" /\ r = [call[c] EXCEPT !.pc = r.pc] /\ p \in 1 .. Len(parts)
  BY <1>1, <1>2, CallProps DEF CallType, Removals
<1>6. OthersWait(c) /\ Goes(c) /\ \A j \in Keys \ hazy : Fine(c, j)
  BY <1>2, <1>3, <1>4, <1>5, CountFine
<1>7. c # Reaper /\ MapStays /\ \A pk \in PKs : Raced(pk)' => Raced(pk)
  BY <1>2, <1>3, <1>5, NotReaper, LockFlags DEF MapStays
<1> QED
  BY <1>3, <1>6, <1>7, QuietHistory

(* What c has written is logged. *)
LEMMA LogFine ==
    ASSUME HistoryInv, NEW c \in Procs, NEW k, k = call[c].todo[1].key,
           call[c].pc \in {"stream", "log"}, call'[c] = Idle,
           Told(k, call[c].old, call[c].todo[1].to), UNCHANGED <<index, last>>
    PROVE  Goes(c) /\ call'[c].pc = "idle" /\ \A j \in Keys \ hazy : Fine(c, j)
<1>1. TypeInv /\ k \in KeysOf(call[c])
  BY OnKey DEF HistoryInv, SettledInv, Puts, Removals
<1>2. Idle.pc = "idle" /\ ToSet(Idle.todo) = {}
  <2>1. Len(parts) \in Nat
    BY <1>1, TypesOf DEF TypeInv
  <2> QED
    BY <2>1, IdleRests
<1>3. Goes(c)
  BY <1>2 DEF Goes
<1>4. ASSUME NEW j \in Keys \ hazy
      PROVE  CallFits(c, j)'
  BY <1>2 DEF CallFits, LandedFits, ReadFits, Unlogged, Landed
<1>5. ASSUME NEW j \in Keys \ hazy, j # k
      PROVE  Fine(c, j)
  <2>1. Keeps(j) /\ ~Unlogged(c, j)
    BY <1>5 DEF Keeps, Told, Unlogged
  <2> QED
    BY <1>4, <2>1 DEF Fine
<1>6. ASSUME k \in Keys \ hazy
      PROVE  Fine(c, k)
  <2>1. Alone(c, k)
    BY <1>1, <1>6, IsAlone
  <2>2. LandedFits(c, k)
    BY <1>6 DEF HistoryInv, AllFit, CallFits
  <2>3. /\ call[c].todo[1].to = last[k] /\ Tells(records, k, call[c].old)
        /\ Shows(index, k, last[k])
    BY <2>2 DEF LandedFits, Unlogged, Landed
  <2>4. Agrees(k)'
    BY <2>3 DEF Agrees, Told
  <2> QED
    BY <1>4, <1>6, <2>1, <2>4 DEF Fine
<1> QED
  BY <1>2, <1>3, <1>5, <1>6

LEMMA PutIndexHistory ==
    ASSUME HistoryInv, LocksInv', SettledInv', NEW c \in Procs, PutIndex(c)
    PROVE  HistoryInv'
<1>1. PICK k, v, old, r : /\ k = call[c].todo[1].key /\ v = call[c].todo[1].to
                          /\ old = call[c].old /\ r = [call[c] EXCEPT !.pc = "stream"]
  OBVIOUS
<1>2. /\ TypeInv /\ call[c].pc = "index" /\ call[c] \in CallType(Len(parts))
      /\ call \in [Procs -> CallType(Len(parts))]
  BY TypesOf DEF PutIndex, HistoryInv, SettledInv, TypeInv
<1>3. UNCHANGED <<parts, live, count, records, last, sure, hazy>>
  BY DEF PutIndex
<1>4. call' = [call EXCEPT ![c] = r]
  BY <1>1, <1>2 DEF PutIndex
<1>5. /\ r.pc = "stream" /\ r.todo = call[c].todo /\ r.part = call[c].part
      /\ r.old = old /\ old \in Values \cup {NoItem}
  BY <1>1, <1>2 DEF CallType
<1>6. OthersWait(c) /\ call'[c] = r
  BY <1>2, <1>4, CallStep
<1>7. k \in Keys /\ v \in Values
  BY <1>1, <1>2, CallProps DEF Puts
<1>8. index' = IndexItem(DeindexItem(index, k, old), k, v)
  BY <1>1, Zenon DEF PutIndex
<1>9. Reindexed(k, old, v)
  BY <1>5, <1>7, <1>8, ReindexPut
<1>10. Goes(c) /\ \A j \in Keys \ hazy : Fine(c, j)
  BY <1>1, <1>2, <1>3, <1>5, <1>6, <1>9, IndexFine
<1>11. MapStays /\ \A pk \in PKs : Raced(pk)' => Raced(pk)
  BY <1>3 DEF MapStays, Raced
<1> QED
  BY <1>2, <1>3, <1>6, <1>10, <1>11, NotReaper, QuietHistory

(* A partition is dropped, or not. *)
LEMMA DropHistory ==
    ASSUME TypeInv, HazyKnows, NEW c \in Procs, NEW p \in 1 .. Len(parts),
           NEW pk \in PKs, DropIfEmpty(c, p, pk), sure' = sure
    PROVE  MapStays /\ HazyKnows' /\ hazy \subseteq hazy'
<1>1. /\ parts' \in Seq(PartitionType) /\ Len(parts') = Len(parts)
      /\ \A q \in 1 .. Len(parts) :
            /\ parts'[q].pk = parts[q].pk
            /\ parts'[q].raced = (parts[q].raced \/ (q = p /\ Races(c, p)))
      /\ live' = live \/ live' = [live EXCEPT ![pk] = 0]
      /\ hazy' = hazy \cup RacedKeys(parts', p)
  BY DropType
<1>2. parts \in Seq(PartitionType) /\ live \in [PKs -> 0 .. Len(parts)]
  BY TypesOf DEF TypeInv, TypeOK
<1>3. MapStays
  BY <1>1, <1>2 DEF MapStays
<1>4. NewRaces(p)
  <2>1. DOMAIN parts' = 1 .. Len(parts) /\ DOMAIN parts = 1 .. Len(parts)
    BY <1>1, <1>2
  <2> QED
    BY <1>1, <2>1, RacedAt
<1> QED
  BY <1>1, <1>3, <1>4, KnowsDrop

LEMMA DeleteDropHistory ==
    ASSUME HistoryInv, LocksInv', SettledInv', NEW c \in Procs, DeleteDrop(c)
    PROVE  HistoryInv'
<1>1. PICK k, p, old, r : /\ k = call[c].todo[1].key /\ p = call[c].part
                          /\ old = call[c].old /\ r = [call[c] EXCEPT !.pc = "log"]
  OBVIOUS
<1>2. /\ TypeInv /\ call[c].pc = "drop" /\ call[c] \in CallType(Len(parts))
      /\ call \in [Procs -> CallType(Len(parts))]
      /\ live \in [PKs -> 0 .. Len(parts)]
  BY TypesOf DEF DeleteDrop, HistoryInv, SettledInv, TypeInv, TypeOK
<1>3. /\ UNCHANGED <<count, records, last, sure>>
      /\ DropIfEmpty(c, p, PartOf[k])
  BY <1>1, Zenon DEF DeleteDrop
<1>4. call' = [call EXCEPT ![c] = r]
  BY <1>1, <1>2 DEF DeleteDrop
<1>5. /\ r.pc = "log" /\ r.todo = call[c].todo
      /\ r.old = old /\ old \in Values \cup {NoItem}
  BY <1>1, <1>2 DEF CallType
<1>6. OthersWait(c) /\ call'[c] = r
  BY <1>2, <1>4, CallStep
<1>7. /\ k \in Keys /\ PartOf[k] \in PKs /\ call[c].todo[1].to = NoItem
      /\ p \in 1 .. Len(parts) /\ parts[p].pk = PartOf[k]
  BY <1>1, <1>2, CallProps DEF Removals
<1>8. index' = DeindexItem(index, k, old)
  BY <1>1, Zenon DEF DeleteDrop
<1>9. Reindexed(k, old, NoItem)
  BY <1>5, <1>7, <1>8, ReindexDelete
<1>10. Goes(c) /\ \A j \in Keys \ hazy : Fine(c, j)
  BY <1>1, <1>2, <1>3, <1>5, <1>6, <1>7, <1>9, IndexFine
<1>11. MapStays /\ HazyKnows' /\ hazy \subseteq hazy'
  BY <1>2, <1>3, <1>7, DropHistory DEF HistoryInv
<1>12. Overlaps' /\ CountFits'
  BY <1>3, <1>6, <1>10, <1>11, OverlapsStep, CountSame DEF HistoryInv
<1> QED
  BY <1>2, <1>6, <1>10, <1>11, <1>12, NotReaper, HistoryStep

LEMMA PutStreamHistory ==
    ASSUME HistoryInv, LocksInv', SettledInv', NEW c \in Procs, PutStream(c)
    PROVE  HistoryInv'
<1>1. PICK k, v, old, p : /\ k = call[c].todo[1].key /\ v = call[c].todo[1].to
                          /\ old = call[c].old /\ p = call[c].part
  OBVIOUS
<1>2. /\ TypeInv /\ call[c].pc = "stream"
      /\ call[c] \in CallType(Len(parts))
  BY TypesOf DEF PutStream, HistoryInv, SettledInv, TypeInv
<1>3. /\ UNCHANGED <<live, index, count, last, sure, hazy>>
      /\ call' = [call EXCEPT ![c] = Idle] /\ parts' = [parts EXCEPT ![p].mu = Nobody]
  BY <1>1 DEF PutStream
<1>4. OthersWait(c) /\ call'[c] = Idle
  BY <1>2, <1>3, CallStep
<1>5. k \in Keys /\ v \in Values /\ p \in 1 .. Len(parts) /\ old \in Values \cup {NoItem}
  BY <1>1, <1>2, CallProps DEF Puts, CallType
<1>6. Told(k, old, v)
  <2>1. records' = Append(records, Record(k, old, v))
    BY <1>1, Zenon DEF PutStream
  <2> QED
    BY <1>2, <1>5, <2>1, RecordTells
<1>7. Goes(c) /\ call'[c].pc = "idle" /\ \A j \in Keys \ hazy : Fine(c, j)
  BY <1>1, <1>2, <1>3, <1>4, <1>6, LogFine
<1>8. MapStays /\ \A pk \in PKs : Raced(pk)' => Raced(pk)
  BY <1>2, <1>3, <1>5, LockFlags DEF MapStays
<1> QED
  BY <1>2, <1>3, <1>4, <1>7, <1>8, NotReaper, QuietHistory

LEMMA DeleteStreamHistory ==
    ASSUME HistoryInv, LocksInv', SettledInv', NEW c \in Procs, DeleteStream(c)
    PROVE  HistoryInv'
<1>1. PICK k, old, v : /\ k = call[c].todo[1].key /\ old = call[c].old
                       /\ v = call[c].todo[1].to
  OBVIOUS
<1>2. /\ TypeInv /\ call[c].pc = "log" /\ call[c] \in CallType(Len(parts))
  BY TypesOf DEF DeleteStream, HistoryInv, SettledInv, TypeInv
<1>3. /\ UNCHANGED <<parts, live, index, count, last, sure, hazy>>
      /\ call' = [call EXCEPT ![c] = Idle]
  BY DEF DeleteStream
<1>4. OthersWait(c) /\ call'[c] = Idle
  BY <1>2, <1>3, CallStep
<1>5. k \in Keys /\ v = NoItem /\ old \in Values \cup {NoItem}
  BY <1>1, <1>2, CallProps DEF Removals, CallType
<1>6. Told(k, old, v)
  <2>1. records' = Append(records, Record(k, old, v))
    BY <1>1, <1>5, Zenon DEF DeleteStream
  <2> QED
    BY <1>2, <1>5, <2>1, RecordTells
<1>7. Goes(c) /\ call'[c].pc = "idle" /\ \A j \in Keys \ hazy : Fine(c, j)
  BY <1>1, <1>2, <1>3, <1>4, <1>6, LogFine
<1>8. MapStays /\ \A pk \in PKs : Raced(pk)' => Raced(pk)
  BY <1>3 DEF MapStays, Raced
<1> QED
  BY <1>2, <1>3, <1>4, <1>7, <1>8, NotReaper, QuietHistory


-----------------------------------------------------------------------------
(* A call writes.                                                          *)

LEMMA WriteFlagsHere ==
    ASSUME parts \in Seq(PartitionType), NEW p \in 1 .. Len(parts),
           NEW k \in Keys, NEW v, Rewritten(parts', parts, p, k, v)
    PROVE  NewRaces(p)
<1>1. Len(parts) \in Nat
  OBVIOUS
<1>2. /\ Len(parts) >= Len(parts)
      /\ \A q \in 1 .. Len(parts) : q > Len(parts) => ~parts[q].raced
  BY <1>1
<1>3. \A q \in 1 .. Len(parts) : parts[q] = parts[q]
  OBVIOUS
<1> QED
  BY <1>2, <1>3, WriteFlags

(* c is about to write v over old under k in p, and will then be at pc.    *)
Lands(c, pc, p, k, v, old) ==
    /\ \/ call[c].pc = "write" /\ pc \in {"count", "index"} /\ v # NoItem
       \/ call[c].pc = "remove" /\ pc = "uncount" /\ v = NoItem /\ old # NoItem
    /\ p = call[c].part /\ k = call[c].todo[1].key /\ v = call[c].todo[1].to
    /\ old = parts[p].items[k]

(* PutItem or DeleteItem writes v over old; index and records come later.  *)
LEMMA LandHistory ==
    ASSUME HistoryInv, LocksInv', SettledInv', NEW c \in Procs,
           NEW p, NEW k, NEW v, NEW old, NEW pc, Lands(c, pc, p, k, v, old),
           NewRaces(p),
           call' = [call EXCEPT ![c] = [call[c] EXCEPT !.pc = pc, !.old = old]],
           count' = count + Counted(old, v), Land(c, p, k, v),
           UNCHANGED <<live, index, records>>
    PROVE  HistoryInv'
<1>1. PICK r : r = [call[c] EXCEPT !.pc = pc, !.old = old]
  OBVIOUS
<1>2. /\ TypeInv /\ CalmIsLive /\ call[c] \in CallType(Len(parts))
      /\ parts \in Seq(PartitionType) /\ Len(parts) \in Nat
  BY TypesOf DEF HistoryInv, SettledInv, TypeInv
<1>3. /\ k \in Keys /\ PartOf[k] \in PKs /\ v \in Values \cup {NoItem}
      /\ p \in 1 .. Len(parts) /\ parts[p].pk = PartOf[k] /\ k \in KeysOf(call[c])
  BY <1>2, CallProps, OnKey, Zenon DEF Lands, Puts, Removals
<1>4. /\ r.pc = pc /\ r.todo = call[c].todo /\ r.part = p /\ r.old = old
  BY <1>1, <1>2, Zenon DEF CallType, Lands
<1>5. OthersWait(c) /\ call'[c] = r
  BY <1>1, <1>2, CallStep, Zenon
<1>6. Goes(c)
  BY <1>4, <1>5, Zenon DEF Goes, IsPut, Lands
<1>7. /\ HazyKnows' /\ hazy \subseteq hazy' /\ (k \notin hazy' => call[c].calm)
  BY <1>2, <1>3, KnowsLand DEF HistoryInv
<1>8. Overlaps'
  BY <1>5, <1>6, <1>7, OverlapsStep DEF HistoryInv
<1>9. ASSUME k \notin hazy'
       PROVE  old = last[k] /\ p = live[PartOf[k]] /\ Alone(c, k)
  <2>1. call[c].calm /\ k \in Keys \ hazy
    BY <1>3, <1>7, <1>9
  <2>2. p = live[PartOf[k]]
    BY <1>2, <2>1, Zenon DEF CalmIsLive, Lands
  <2>3. GetItem(k) = old
    <3>1. p # 0
      BY <1>3
    <3>2. old = parts[p].items[k]
      BY Zenon DEF Lands
    <3> QED
      BY <2>2, <3>1, <3>2 DEF GetItem
  <2>4. Alone(c, k)
    BY <1>3, <2>1, IsAlone, Zenon DEF Lands
  <2> QED
    BY <2>1, <2>2, <2>3, <2>4, ReadsLast
<1>10. last' = [last EXCEPT ![k] = v] /\ last \in [Keys -> Values \cup {NoItem}]
  BY <1>2 DEF Land, TypeInv, TypeOK
<1>11. CountFits'
  <2>1. hazy' = {} => count' = count + Counted(last[k], v)
    BY <1>9
  <2> QED
    BY <1>2, <1>3, <1>7, <1>10, <2>1, CountLand DEF HistoryInv
<1>12. k = call'[c].todo[1].key /\ v = call'[c].todo[1].to
  BY <1>4, <1>5, Zenon DEF Lands
<1>13. ASSUME NEW j \in Keys \ hazy', j # k
       PROVE  Fine(c, j)
  <2>1. Keeps(j)
    BY <1>10, <1>13 DEF Keeps
  <2>2. CallFits(c, j)' /\ ~Unlogged(c, j)
    BY <1>12, <1>13, Zenon DEF CallFits, LandedFits, ReadFits, Unlogged, Lands
  <2> QED
    BY <2>1, <2>2 DEF Fine
<1>14. ASSUME k \notin hazy'
       PROVE  Fine(c, k)
  <2>1. Alone(c, k) /\ old = last[k] /\ p = live[PartOf[k]]
    BY <1>9, <1>14
  <2>2. Agrees(k)
    <3>1. ~Unlogged(c, k)
      BY Zenon DEF Unlogged, Landed, Lands
    <3> QED
      BY <1>3, <1>7, <1>14, <2>1, <3>1, AloneAgrees
  <2>3. call'[c].pc \in {"count", "index", "uncount"} /\ Unlogged(c, k)'
    BY <1>4, <1>5, <1>12, Zenon DEF Unlogged, Landed, Lands
  <2>4. last'[k] = v /\ Tells(records', k, old) /\ Shows(index', k, old)
    BY <1>3, <1>10, <2>1, <2>2 DEF Agrees
  <2>5. LandedFits(c, k)'
    <3>1. call'[c].old = old /\ call'[c].part = live'[PartOf[k]]
      BY <1>4, <1>5, <2>1, Zenon
    <3> QED
      BY <1>12, <2>3, <2>4, <3>1 DEF LandedFits
  <2>6. ReadFits(c, k)'
    BY <2>3 DEF ReadFits
  <2> QED
    BY <2>1, <2>3, <2>5, <2>6 DEF Fine, CallFits
<1>15. MapStays /\ c # Reaper
  BY NotReaper, Zenon DEF MapStays, Lands
<1> QED
  BY <1>3, <1>5, <1>7, <1>8, <1>11, <1>13, <1>14, <1>15, HistoryStep

LEMMA PutWriteHistory ==
    ASSUME HistoryInv, LocksInv', SettledInv', NEW c \in Procs, PutWrite(c)
    PROVE  HistoryInv'
<1>1. PICK k, v, p, old, pc :
         /\ k = call[c].todo[1].key /\ v = call[c].todo[1].to
         /\ p = call[c].part /\ old = parts[p].items[k]
         /\ pc = IF old = NoItem THEN "count" ELSE "index"
  BY Zenon
<1>2. /\ call[c].pc = "write" /\ parts' = WriteItem(parts, c, p, k, v)
      /\ count' = count + (IF old = NoItem THEN 1 ELSE 0)
      /\ Land(c, p, k, v) /\ UNCHANGED <<live, index, records>>
  BY <1>1, Zenon DEF PutWrite
<1>3. call' = [call EXCEPT ![c] = [call[c] EXCEPT !.pc = pc, !.old = old]]
  <2>1. call \in [Procs -> CallType(Len(parts))]
    BY TypesOf DEF HistoryInv, SettledInv, TypeInv
  <2> QED
    BY <1>1, <2>1, Zenon DEF PutWrite
<1>4. /\ v \in Values /\ v # NoItem /\ k \in Keys /\ p \in 1 .. Len(parts)
      /\ parts \in Seq(PartitionType)
  <2>1. TypeInv /\ parts \in Seq(PartitionType)
    BY TypesOf DEF HistoryInv, SettledInv, TypeInv
  <2> QED
    BY <1>1, <1>2, <2>1, CallProps, DynamoParametersAssumption, Zenon DEF Puts
<1>5. NewRaces(p)
  <2>1. Rewritten(parts', parts, p, k, v)
    BY <1>2, <1>4, Rewrites
  <2> QED
    BY <1>4, <2>1, WriteFlagsHere
<1>6. count' = count + Counted(old, v)
  BY <1>2, <1>4 DEF Counted
<1>7. Lands(c, pc, p, k, v, old)
  BY <1>1, <1>2, <1>4 DEF Lands
<1> QED
  BY <1>2, <1>3, <1>5, <1>6, <1>7, LandHistory, Zenon

LEMMA DeleteWriteHistory ==
    ASSUME HistoryInv, LocksInv', SettledInv', NEW c \in Procs, DeleteWrite(c)
    PROVE  HistoryInv'
<1>1. PICK k, v, p, old : /\ k = call[c].todo[1].key /\ v = call[c].todo[1].to
                          /\ p = call[c].part /\ old = parts[p].items[k]
  BY Zenon
<1>2. /\ TypeInv /\ call[c].pc = "remove" /\ UNCHANGED <<live, index, records>>
      /\ call \in [Procs -> CallType(Len(parts))]
  BY TypesOf DEF DeleteWrite, HistoryInv, SettledInv, TypeInv
<1>3. v = NoItem
  BY <1>1, <1>2, CallProps DEF Removals
<1>4. CASE /\ old # NoItem
           /\ parts' = [WriteItem(parts, c, p, k, NoItem) EXCEPT ![p].mu = c]
           /\ count' = count - 1
           /\ call' = [call EXCEPT ![c] = [call[c] EXCEPT !.pc = "uncount", !.old = old]]
           /\ Land(c, p, k, NoItem)
  <2>1. count' = count + Counted(old, v)
    <3>1. count \in Int
      BY <1>2 DEF TypeInv, TypeOK
    <3> QED
      BY <1>3, <1>4, <3>1 DEF Counted
  <2>2. NewRaces(p) /\ Land(c, p, k, v)
    <3>1. /\ k \in Keys /\ p \in 1 .. Len(parts) /\ parts \in Seq(PartitionType)
          /\ v \in Values \cup {NoItem}
      BY <1>1, <1>2, <1>3, CallProps, TypesOf DEF Removals, TypeInv
    <3>2. PICK w : w = WriteItem(parts, c, p, k, v)
      OBVIOUS
    <3>3. parts' = [w EXCEPT ![p].mu = c]
      BY <1>3, <1>4, <3>2
    <3>4. Rewritten(parts', parts, p, k, v)
      BY <1>2, <3>1, <3>2, <3>3, LockedWrite, Zenon
    <3> QED
      BY <1>3, <1>4, <3>1, <3>4, WriteFlagsHere
  <2>3. PICK pc : pc = "uncount" /\ Lands(c, pc, p, k, v, old)
    BY <1>1, <1>2, <1>3, <1>4, Zenon DEF Lands
  <2> QED
    BY <1>2, <1>4, <2>1, <2>2, <2>3, LandHistory, Zenon
<1>5. CASE call' = [call EXCEPT ![c] = Idle] /\ UNCHANGED <<parts, count, last, sure, hazy>>
  <2>1. /\ OthersWait(c) /\ Goes(c) /\ call'[c].pc = "idle"
        /\ \A j \in Keys \ hazy : Fine(c, j)
    BY <1>2, <1>5, IdleFine DEF Landed
  <2>2. MapStays /\ \A pk \in PKs : Raced(pk)' => Raced(pk)
    BY <1>2, <1>5 DEF MapStays, Raced
  <2> QED
    BY <1>2, <1>5, <2>1, <2>2, NotReaper, QuietHistory
<1>6. \/ /\ old # NoItem
         /\ parts' = [WriteItem(parts, c, p, k, NoItem) EXCEPT ![p].mu = c]
         /\ count' = count - 1
         /\ call' = [call EXCEPT ![c] = [call[c] EXCEPT !.pc = "uncount", !.old = old]]
         /\ Land(c, p, k, NoItem)
      \/ call' = [call EXCEPT ![c] = Idle] /\ UNCHANGED <<parts, count, last, sure, hazy>>
  BY <1>1, <1>2, Zenon DEF DeleteWrite
<1> QED
  BY <1>4, <1>5, <1>6

(* A write under the table lock indexes and logs at once. *)
LEMMA WriteHistory ==
    ASSUME HistoryInv, LocksInv', SettledInv', NEW c \in Procs,
           call[c].pc \in {"update", "tx"}, NEW p, NEW k \in Keys,
           k \in KeysOf(call[c]), NEW v, NEW old,
           OthersWait(c), Goes(c), call'[c].pc \in {"idle", "tx", "tally"},
           NewRaces(p), MapStays, Land(c, p, k, v),
           k \notin hazy' => old = last[k],
           Reindexed(k, old, v), Told(k, old, v),
           hazy' = {} => count' = count + Counted(last[k], v),
           c # Reaper \/ v = NoItem
    PROVE  HistoryInv'
<1>1. TypeInv
  BY DEF HistoryInv, SettledInv
<1>2. /\ HazyKnows' /\ hazy \subseteq hazy'
  BY <1>1, KnowsLand DEF HistoryInv
<1>3. Overlaps'
  BY <1>2, OverlapsStep DEF HistoryInv
<1>4. last' = [last EXCEPT ![k] = v] /\ last \in [Keys -> Values \cup {NoItem}]
  BY <1>1 DEF Land, TypeInv, TypeOK
<1>5. CountFits'
  BY <1>1, <1>2, <1>4, CountLand DEF HistoryInv
<1>6. \A j : ~Unlogged(c, j) /\ CallFits(c, j)'
  BY DEF CallFits, LandedFits, ReadFits, Unlogged, Landed
<1>7. ASSUME NEW j \in Keys \ hazy', j # k
      PROVE  Fine(c, j)
  <2>1. Keeps(j)
    BY <1>4, <1>7 DEF Keeps, Reindexed, Told
  <2> QED
    BY <1>6, <2>1 DEF Fine
<1>8. ASSUME k \notin hazy'
      PROVE  Fine(c, k)
  <2>1. k \in Keys \ hazy
    BY <1>2, <1>8
  <2>2. Alone(c, k)
    BY <2>1, IsAlone
  <2>3. Agrees(k)
    BY <1>6, <2>1, <2>2, AloneAgrees
  <2>4. Agrees(k)'
    BY <1>4, <1>8, <2>3 DEF Agrees, Reindexed, Told
  <2> QED
    BY <1>6, <2>2, <2>4 DEF Fine
<1>9. c # Reaper \/ ReaperFits'
  <2>1. CASE c = Reaper
    <3>1. v = NoItem
      BY <2>1
    <3>2. \A j \in Keys : last'[j] \in {last[j], NoItem}
      BY <1>4, <3>1
    <3> QED
      BY <1>1, <1>2, <2>1, <3>2, ReaperSteps DEF HistoryInv
  <2> QED
    BY <2>1
<1> QED
  BY <1>2, <1>3, <1>5, <1>7, <1>8, <1>9, HistoryStep

(* The partition it writes in was there or is made, and what it replaces   *)
(* is what GetItem found.                                                  *)
LEMMA FindFlags ==
    ASSUME TypeInv, NEW c \in Procs, NEW k \in Keys, NEW v \in Values \cup {NoItem},
           NEW f, f = GetOrCreate(PartOf[k]),
           parts' = WriteItem(f.all, c, f.id, k, v),
           live' = [live EXCEPT ![PartOf[k]] = f.id]
    PROVE  NewRaces(f.id) /\ MapStays /\ f.all[f.id].items[k] = GetItem(k)
<1>1. PICK all, p, pk : all = f.all /\ p = f.id /\ pk = PartOf[k]
  OBVIOUS
<1>2. pk \in PKs /\ parts \in Seq(PartitionType)
      /\ live \in [PKs -> 0 .. Len(parts)] /\ live' = [live EXCEPT ![pk] = p]
  BY <1>1, TypesOf, DynamoParametersAssumption DEF TypeInv, TypeOK
<1>3. /\ all \in Seq(PartitionType) /\ p \in 1 .. Len(all) /\ all[p].pk = pk
      /\ Len(parts) \in Nat /\ Len(all) \in Nat /\ Len(all) >= Len(parts)
      /\ \A q \in 1 .. Len(parts) : all[q] = parts[q]
      /\ live[pk] # 0 => all = parts /\ p = live[pk]
      /\ live[pk] = 0 => /\ p = Len(parts) + 1 /\ Len(all) = Len(parts) + 1
                         /\ all[p] = EmptyPartition(pk)
  <2>1. TypeOK /\ LiveOK /\ f = GetOrCreate(pk)
    BY <1>1 DEF TypeInv
  <2>2. /\ f.all \in Seq(PartitionType) /\ f.id \in 1 .. Len(f.all) /\ f.all[f.id].pk = pk
        /\ Len(parts) \in Nat /\ Len(f.all) >= Len(parts)
        /\ \A q \in 1 .. Len(parts) : f.all[q] = parts[q]
        /\ live[pk] # 0 => f.all = parts /\ f.id = live[pk]
        /\ live[pk] = 0 => /\ f.id = Len(parts) + 1 /\ Len(f.all) = Len(parts) + 1
                           /\ f.all[f.id] = EmptyPartition(pk)
    BY ONLY <1>2, <2>1, Found
  <2> QED
    BY ONLY <1>1, <2>2
<1>4. \A q \in 1 .. Len(all) : q > Len(parts) => ~all[q].raced
  BY <1>3 DEF EmptyPartition
<1>5. Rewritten(parts', all, p, k, v)
  BY <1>1, <1>3, Rewrites
<1>6. NewRaces(p)
  BY <1>2, <1>3, <1>4, <1>5, WriteFlags
<1>7. MapStays
  BY <1>2, <1>3 DEF MapStays
<1>8. all[p].items[k] = GetItem(k)
  BY <1>1, <1>3 DEF GetItem, EmptyPartition
<1> QED
  BY <1>1, <1>6, <1>7, <1>8

(* What is put over old in a partition that is looked up or made. *)
LEMMA FoundWriteHistory ==
    ASSUME HistoryInv, LocksInv', SettledInv', NEW c \in Procs,
           call[c].pc \in {"update", "tx"},
           NEW k, k = call[c].todo[1].key, NEW v, v = call[c].todo[1].to, v # NoItem,
           NEW old \in Values \cup {NoItem}, k \in Keys \ hazy => old = last[k],
           NEW f, f = GetOrCreate(PartOf[k]),
           parts' = WriteItem(f.all, c, f.id, k, v),
           live' = [live EXCEPT ![PartOf[k]] = f.id], Land(c, f.id, k, v),
           count' = count + (IF f.all[f.id].items[k] = NoItem THEN 1 ELSE 0),
           index' = IndexItem(DeindexItem(index, k, old), k, v),
           records' = Append(records, Record(k, old, v)),
           NEW recounts \in BOOLEAN, Written(c, f.id, recounts)
    PROVE  HistoryInv'
<1>1. PICK p, was : p = f.id /\ was = f.all[f.id].items[k]
  BY Zenon
<1>2. TypeInv /\ call[c].pc \in Tabled
  BY Zenon DEF HistoryInv, SettledInv, Tabled
<1>3. /\ OthersWait(c) /\ Goes(c) /\ call'[c].pc \in {"tx", "idle", "tally"}
  BY <1>2, WrittenGoes, Zenon
<1>4. /\ call[c].todo[1] \in Write /\ call[c].todo[1] \in ToSet(call[c].todo)
      /\ k \in Keys /\ v \in Values /\ k \in KeysOf(call[c])
  <2>1. call[c].todo[1] \in Write /\ call[c].todo[1] \in ToSet(call[c].todo)
    BY <1>2, CallProps, Zenon
  <2> QED
    BY <2>1, WriteIs, Zenon DEF KeysOf
<1>5. NewRaces(p) /\ MapStays /\ was = GetItem(k)
  <2>1. /\ TypeInv /\ k \in Keys /\ v \in Values \cup {NoItem}
        /\ f = GetOrCreate(PartOf[k])
    BY <1>2, <1>4, Zenon
  <2>2. /\ parts' = WriteItem(f.all, c, f.id, k, v)
        /\ live' = [live EXCEPT ![PartOf[k]] = f.id]
    BY Zenon
  <2>3. NewRaces(f.id) /\ MapStays /\ f.all[f.id].items[k] = GetItem(k)
    BY ONLY <2>1, <2>2, c \in Procs, FindFlags, Zenon
  <2> QED
    BY <1>1, <2>3, Zenon
<1>6. Reindexed(k, old, v) /\ Told(k, old, v)
  <2>1. Reindexed(k, old, v)
    BY <1>4, ReindexPut, Zenon
  <2>2. Told(k, old, v)
    BY <1>2, <1>4, RecordTells, Zenon
  <2> QED
    BY <2>1, <2>2, Zenon
<1>7. c # Reaper
  BY <1>4, Zenon DEF HistoryInv, ReaperFits
<1>8. ASSUME k \notin hazy'
      PROVE  old = last[k] /\ was = last[k]
  <2>1. k \in Keys \ hazy
    BY <1>4, <1>8, Zenon DEF Land
  <2> QED
    BY <1>5, <2>1, ReadsLast, Zenon
<1>9. ASSUME hazy' = {}
      PROVE  count' = count + Counted(last[k], v)
  <2>1. count' = count + (IF was = NoItem THEN 1 ELSE 0) /\ v # NoItem
    BY <1>1, Zenon
  <2>2. was = last[k]
    BY <1>8, <1>9, Zenon
  <2>3. TypeInv
    BY <1>2, Zenon
  <2>4. count \in Int
    BY ONLY <2>3 DEF TypeInv, TypeOK
  <2> QED
    BY ONLY <2>1, <2>2, <2>4 DEF Counted
<1>10. Land(c, p, k, v)
  BY <1>1, Zenon
<1> QED
  BY <1>3, <1>4, <1>5, <1>6, <1>7, <1>8, <1>9, <1>10, WriteHistory, Zenon

LEMMA UpdateWriteHistory ==
    ASSUME HistoryInv, LocksInv', SettledInv', NEW c \in Procs, UpdateWrite(c)
    PROVE  HistoryInv'
<1>1. PICK k, v, f : /\ k = Head(call[c].todo).key /\ v = Head(call[c].todo).to
                     /\ f = GetOrCreate(PartOf[k])
  BY Zenon
<1>2. PICK old : old = call[c].old
  OBVIOUS
<1>3. PICK recounts \in BOOLEAN : recounts = (f.all[f.id].items[k] = NoItem)
  OBVIOUS
<1>4. /\ call[c].pc = "update" /\ parts' = WriteItem(f.all, c, f.id, k, v)
      /\ live' = [live EXCEPT ![PartOf[k]] = f.id] /\ Written(c, f.id, recounts)
      /\ count' = count + (IF f.all[f.id].items[k] = NoItem THEN 1 ELSE 0)
      /\ index' = IndexItem(DeindexItem(index, k, old), k, v)
      /\ records' = Append(records, Record(k, old, v)) /\ Land(c, f.id, k, v)
  BY <1>1, <1>2, <1>3, Zenon DEF UpdateWrite
<1>5. TypeInv /\ call[c] \in CallType(Len(parts)) /\ call[c].pc \in Tabled
  BY <1>4, TypesOf DEF HistoryInv, SettledInv, TypeInv, Tabled
<1>6. k = call[c].todo[1].key /\ v = call[c].todo[1].to /\ v # NoItem
  <2>1. Head(call[c].todo) = call[c].todo[1] /\ call[c].todo[1].to \in Values
    BY <1>4, <1>5, CallProps DEF Tabled
  <2> QED
    BY <1>1, <2>1, DynamoParametersAssumption
<1>7. old \in Values \cup {NoItem}
  BY <1>2, <1>5 DEF CallType
<1>8. k \in Keys \ hazy => old = last[k]
  BY <1>2, <1>4, <1>6, Zenon DEF HistoryInv, AllFit, CallFits, ReadFits
<1> QED
  BY <1>1, <1>4, <1>6, <1>7, <1>8, FoundWriteHistory, Zenon

LEMMA PutInTableHistory ==
    ASSUME HistoryInv, LocksInv', SettledInv', NEW c \in Procs, PutInTable(c)
    PROVE  HistoryInv'
<1>1. PICK k, v, f : /\ k = Head(call[c].todo).key /\ v = Head(call[c].todo).to
                     /\ f = GetOrCreate(PartOf[k])
  BY Zenon
<1>2. PICK old : old = f.all[f.id].items[k]
  OBVIOUS
<1>3. PICK recounts \in BOOLEAN : recounts = (old = NoItem)
  OBVIOUS
<1>4. /\ call[c].pc = "tx" /\ v # NoItem /\ parts' = WriteItem(f.all, c, f.id, k, v)
      /\ live' = [live EXCEPT ![PartOf[k]] = f.id] /\ Written(c, f.id, recounts)
      /\ count' = count + (IF f.all[f.id].items[k] = NoItem THEN 1 ELSE 0)
      /\ index' = IndexItem(DeindexItem(index, k, old), k, v)
      /\ records' = Append(records, Record(k, old, v)) /\ Land(c, f.id, k, v)
  BY <1>1, <1>2, <1>3, Zenon DEF PutInTable
<1>5. TypeInv /\ call[c].pc \in Tabled
  BY <1>4 DEF HistoryInv, SettledInv, Tabled
<1>6. k = call[c].todo[1].key /\ v = call[c].todo[1].to
      /\ k \in Keys /\ v \in Values \cup {NoItem}
  BY <1>1, <1>5, TxNext, WriteIs
<1>7. old = GetItem(k)
  <2>1. /\ parts' = WriteItem(f.all, c, f.id, k, v)
        /\ live' = [live EXCEPT ![PartOf[k]] = f.id]
    BY <1>4
  <2>2. /\ TypeInv /\ k \in Keys /\ v \in Values \cup {NoItem}
        /\ f = GetOrCreate(PartOf[k])
    BY <1>1, <1>5, <1>6
  <2>3. f.all[f.id].items[k] = GetItem(k)
    BY ONLY <2>1, <2>2, c \in Procs, FindFlags
  <2> QED
    BY <1>2, <2>3
<1>8. old \in Values \cup {NoItem}
  BY <1>5, <1>6, <1>7, GetItemType DEF TypeInv
<1>9. k \in Keys \ hazy => old = last[k]
  BY <1>7, ReadsLast
<1> QED
  BY <1>1, <1>4, <1>6, <1>8, <1>9, FoundWriteHistory, Zenon

(* A step of a call that keeps the table's lock, and writes no item. *)
LEMMA TabledFine ==
    ASSUME HistoryInv, NEW c \in Procs, call[c].pc \in Tabled,
           call'[c].pc \in {"tx", "idle", "tally"}, UNCHANGED <<index, records, last>>
    PROVE  \A k \in Keys \ hazy : Fine(c, k)
<1> SUFFICES ASSUME NEW k \in Keys \ hazy
             PROVE  Fine(c, k)
  OBVIOUS
<1>1. CallFits(c, k)'
  BY DEF CallFits, LandedFits, ReadFits, Unlogged, Landed
<1>2. Keeps(k) /\ ~Unlogged(c, k)
  BY DEF Keeps, Unlogged, Landed, Tabled
<1> QED
  BY <1>1, <1>2 DEF Fine

LEMMA ReadInTableHistory ==
    ASSUME HistoryInv, LocksInv', SettledInv', NEW c \in Procs, ReadInTable(c)
    PROVE  HistoryInv'
<1>1. PICK w, old, r : /\ w = Head(call[c].todo) /\ old = GetItem(w.key)
                       /\ r = [call[c] EXCEPT !.pc = "update", !.old = old]
  BY Zenon
<1>2. /\ TypeInv /\ call[c].pc = "tx" /\ call[c].pc \in Tabled /\ w.update
      /\ UNCHANGED <<parts, live, index, count, records, last, sure, hazy>>
      /\ call \in [Procs -> CallType(Len(parts))]
  BY <1>1, TypesOf DEF ReadInTable, Tabled, HistoryInv, SettledInv, TypeInv
<1>3. call' = [call EXCEPT ![c] = r]
  BY <1>1, <1>2 DEF ReadInTable
<1>4. OthersWait(c) /\ call'[c] = r
  BY <1>2, <1>3, CallStep
<1>5. r.pc = "update" /\ r.todo = call[c].todo /\ r.old = old
  BY <1>1, <1>2 DEF CallType
<1>6. w = call[c].todo[1] /\ w \in ToSet(call[c].todo) /\ w.to # NoItem
  BY <1>1, <1>2, TxNext, CallProps, WriteIs
<1>7. c # Reaper
  BY <1>6 DEF HistoryInv, ReaperFits
<1>8. Goes(c)
  BY <1>2, <1>4, <1>5 DEF Goes, IsPut
<1>9. ASSUME NEW k \in Keys \ hazy
      PROVE  Fine(c, k)
  <2>1. w.key = k => old = last[k]
    BY <1>1, ReadsLast
  <2>2. LandedFits(c, k)' /\ ReadFits(c, k)'
    BY <1>2, <1>4, <1>5, <1>6, <2>1 DEF LandedFits, ReadFits, Unlogged, Landed
  <2>3. Keeps(k) /\ ~Unlogged(c, k)
    BY <1>2 DEF Keeps, Unlogged, Landed
  <2> QED
    BY <2>2, <2>3 DEF Fine, CallFits
<1>10. MapStays /\ \A pk \in PKs : Raced(pk)' => Raced(pk)
  BY <1>2 DEF MapStays, Raced
<1> QED
  BY <1>2, <1>4, <1>7, <1>8, <1>9, <1>10, QuietHistory

LEMMA DeleteFromTableHistory ==
    ASSUME HistoryInv, LocksInv', SettledInv', NEW c \in Procs, DeleteFromTable(c)
    PROVE  HistoryInv'
<1>1. PICK w, k, p, old : /\ w = Head(call[c].todo) /\ k = w.key
                          /\ p = live[PartOf[k]] /\ old = GetItem(k)
  OBVIOUS
<1>2. PICK recounts \in BOOLEAN : recounts = (old # NoItem)
  OBVIOUS
<1>3. /\ TypeInv /\ call[c].pc = "tx" /\ call[c].pc \in Tabled /\ w.to = NoItem
      /\ Written(c, p, recounts) /\ live' = live
  BY <1>1, <1>2, Zenon DEF DeleteFromTable, HistoryInv, SettledInv, Tabled
<1>4. OthersWait(c) /\ Goes(c) /\ call'[c].pc \in {"tx", "idle", "tally"}
  BY <1>3, WrittenGoes
<1>5. /\ w \in ToSet(call[c].todo) /\ k \in Keys /\ PartOf[k] \in PKs
      /\ k \in KeysOf(call[c])
  <2>1. w \in Write /\ w \in ToSet(call[c].todo)
    BY <1>1, <1>3, CallProps
  <2> QED
    BY <1>1, <2>1, WriteIs DEF KeysOf
<1>6. MapStays
  BY <1>3 DEF MapStays
<1>7. CASE old = NoItem
  <2>1. UNCHANGED <<parts, index, count, records, last, sure, hazy>>
    BY <1>1, <1>7, Zenon DEF DeleteFromTable
  <2>2. \A j \in Keys \ hazy : Fine(c, j)
    BY <1>3, <1>4, <2>1, TabledFine
  <2>3. \A pk \in PKs : Raced(pk)' => Raced(pk)
    BY <2>1 DEF Raced
  <2>4. HazyKnows' /\ CountFits' /\ Overlaps'
    BY <1>4, <2>1, <2>3, KnowsSame, CountSame, OverlapsStep DEF HistoryInv
  <2>5. c # Reaper \/ ReaperFits'
    BY <1>3, <1>4, <2>1, ReaperSteps DEF HistoryInv
  <2> QED
    BY <1>4, <1>6, <2>1, <2>2, <2>4, <2>5, HistoryStep
<1>8. CASE old # NoItem
  <2>1. PICK v \in Values \cup {NoItem} : v = NoItem
    OBVIOUS
  <2>2. /\ p \in 1 .. Len(parts) /\ parts \in Seq(PartitionType)
    <3>1. live \in [PKs -> 0 .. Len(parts)]
          /\ parts \in Seq(PartitionType) /\ Len(parts) \in Nat
      BY <1>3, TypesOf, Zenon DEF TypeInv, TypeOK
    <3>2. p # 0
      BY <1>1, <1>8, Zenon DEF GetItem
    <3> QED
      BY <1>1, <1>5, <3>1, <3>2
  <2>3. /\ parts' = WriteItem(parts, c, p, k, v) /\ count' = count - 1
        /\ index' = DeindexItem(index, k, old)
        /\ records' = Append(records, Record(k, old, v)) /\ Land(c, p, k, v)
    BY <1>1, <1>8, <2>1, Zenon DEF DeleteFromTable
  <2>4. NewRaces(p)
    <3>1. Rewritten(parts', parts, p, k, v)
      BY <1>5, <2>2, <2>3, Rewrites
    <3> QED
      BY <1>5, <2>2, <3>1, WriteFlagsHere
  <2>5. old \in Values \cup {NoItem}
    BY <1>1, <1>3, <1>5, GetItemType DEF TypeInv
  <2>6. Reindexed(k, old, v) /\ Told(k, old, v)
    <3>1. Reindexed(k, old, v)
      BY <1>5, <2>1, <2>3, <2>5, ReindexDelete
    <3>2. Told(k, old, v)
      BY <1>3, <1>5, <2>3, <2>5, RecordTells
    <3> QED
      BY <3>1, <3>2
  <2>7. k \notin hazy' => old = last[k]
    <3>1. k \notin hazy' => k \in Keys \ hazy
      BY <1>5, <2>3 DEF Land
    <3> QED
      BY <1>1, <3>1, ReadsLast
  <2>8. hazy' = {} => count' = count + Counted(last[k], v)
    <3>1. count \in Int
      BY <1>3 DEF TypeInv, TypeOK
    <3> QED
      BY <1>8, <2>1, <2>3, <2>7, <3>1 DEF Counted
  <2> QED
    BY <1>3, <1>4, <1>5, <1>6, <2>1, <2>3, <2>4, <2>6, <2>7, <2>8, WriteHistory
<1> QED
  BY <1>7, <1>8

LEMMA CountInTableHistory ==
    ASSUME HistoryInv, LocksInv', SettledInv', NEW c \in Procs, CountInTable(c)
    PROVE  HistoryInv'
<1>1. PICK w, p, pk : w = Head(call[c].todo) /\ p = call[c].part /\ pk = PartOf[w.key]
  OBVIOUS
<1>2. /\ TypeInv /\ HazyKnows /\ call[c].pc = "tally" /\ call[c].pc \in Tabled
      /\ Done(c) /\ UNCHANGED <<index, count, records, last, sure>>
      /\ \/ DropIfEmpty(c, p, pk)
         \/ UNCHANGED <<parts, live, hazy>>
  BY <1>1 DEF CountInTable, HistoryInv, SettledInv, Tabled
<1>3. pk \in PKs /\ p \in 1 .. Len(parts)
  BY <1>1, <1>2, CallProps
<1>4. OthersWait(c) /\ Goes(c) /\ call'[c].pc \in {"tx", "idle"}
  BY <1>2, DoneGoes
<1>5. MapStays /\ HazyKnows' /\ hazy \subseteq hazy'
  <2>1. CASE DropIfEmpty(c, p, pk)
    BY <1>2, <1>3, <2>1, DropHistory
  <2>2. CASE UNCHANGED <<parts, live, hazy>>
    BY <1>2, <2>2, KnowsSame DEF MapStays, Raced
  <2> QED
    BY <1>2, <2>1, <2>2
<1>6. Overlaps' /\ CountFits'
  BY <1>2, <1>4, <1>5, OverlapsStep, CountSame DEF HistoryInv
<1>7. \A k \in Keys \ hazy' : Fine(c, k)
  BY <1>2, <1>4, <1>5, TabledFine
<1>8. c # Reaper \/ ReaperFits'
  BY <1>2, <1>4, <1>5, ReaperSteps DEF HistoryInv
<1> QED
  BY <1>4, <1>5, <1>6, <1>7, <1>8, HistoryStep

LEMMA HistoryNext ==
    ASSUME HistoryInv, [Next]_vars
    PROVE  HistoryInv'
<1>1. LocksInv' /\ SettledInv'
  BY LocksNext, SettledNext DEF HistoryInv
<1>2. CASE UNCHANGED vars
  <2>1. UNCHANGED <<parts, live, index, count, records, call, last, sure, hazy>>
    BY <1>2 DEF vars
  <2>2. Overlaps' /\ HazyKnows' /\ CountFits' /\ ReaperFits'
    BY <2>1 DEF HistoryInv, Overlaps, HazyKnows, CountFits, ReaperFits,
       KeysOf, IsPut, Raced
  <2>3. AllFit'
    BY <2>1 DEF HistoryInv, AllFit, KeyFits, Agrees, CallFits, LandedFits, ReadFits,
       Unlogged
  <2> QED
    BY <1>1, <2>2, <2>3 DEF HistoryInv
<1>3. ASSUME NEW c \in Clients, NEW w \in Requests,
             PutItem(c, w) \/ DeleteItem(c, w) \/ UpdateItem(c, w)
      PROVE  HistoryInv'
  BY <1>1, <1>3, PutItemHistory, DeleteItemHistory, UpdateItemHistory
<1>4. ASSUME NEW c \in Clients, NEW t \in Transactions, TransactWriteItems(c, t)
      PROVE  HistoryInv'
  BY <1>1, <1>4, TransactHistory
<1>5. ASSUME NEW t \in ExpiredKeys, ScanExpired(Reaper, t)
      PROVE  HistoryInv'
  BY <1>1, <1>5, ScanHistory
<1>6. ASSUME NEW c \in Procs, Step(c)
      PROVE  HistoryInv'
  BY <1>1, <1>6, PutCheckHistory, PutWriteHistory, PutCountHistory,
     PutIndexHistory, PutStreamHistory, DeleteWriteHistory, DeleteCountHistory,
     DeleteDropHistory, DeleteStreamHistory, ReadInTableHistory,
     UpdateWriteHistory, PutInTableHistory, DeleteFromTableHistory,
     CountInTableHistory DEF Step
<1> QED
  BY <1>2, <1>3, <1>4, <1>5, <1>6 DEF Next


-----------------------------------------------------------------------------
(* The first state.                                                        *)

LEMMA LoadedIs ==
    ASSUME NEW t \in Loads, NEW k
    PROVE  /\ \A i \in DOMAIN t : t[i].key = k => Loaded(t, k) = t[i].val
           /\ (\A i \in DOMAIN t : t[i].key # k) => Loaded(t, k) = NoItem
           /\ \A i, j \in DOMAIN t : t[i].key = t[j].key => i = j
<1>1. \A i, j \in DOMAIN t : t[i].key = t[j].key => i = j
  BY DynamoParametersAssumption DEF IsLoad
<1>2. ASSUME NEW i \in DOMAIN t, t[i].key = k
      PROVE  Loaded(t, k) = t[i].val
  <2>1. PICK j \in DOMAIN t : t[j].key = k /\ j = CHOOSE m \in DOMAIN t : t[m].key = k
    BY <1>2
  <2>2. j = i
    BY <1>1, <1>2, <2>1
  <2> QED
    BY <1>2, <2>1, <2>2 DEF Loaded
<1>3. (\A i \in DOMAIN t : t[i].key # k) => Loaded(t, k) = NoItem
  BY DEF Loaded
<1> QED
  BY <1>1, <1>2, <1>3

LEMMA LoadShows ==
    ASSUME NEW t \in Loads, NEW k \in Keys, NEW ix,
           ix = [i \in IndexKeys |->
                   IF \E j \in DOMAIN t : IndexKeyOf(t[j]) = i
                   THEN t[CHOOSE j \in DOMAIN t : IndexKeyOf(t[j]) = i]
                   ELSE NoItem]
    PROVE  Shows(ix, k, Loaded(t, k))
<1>1. PICK v : v = Loaded(t, k)
  OBVIOUS
<1>2. \A i \in DOMAIN t : t[i] \in Item /\ t[i].val \in Values /\ t[i].key \in Keys
  BY LoadType
<1>3. ASSUME NEW i \in IndexKeys, ix[i] # NoItem
      PROVE  \E j \in DOMAIN t : ix[i] = t[j] /\ IndexKey[t[j].key][t[j].val] = i
  <2>1. PICK m \in DOMAIN t : IndexKeyOf(t[m]) = i
    BY <1>3
  <2>2. PICK j \in DOMAIN t : /\ IndexKeyOf(t[j]) = i
                              /\ j = CHOOSE n \in DOMAIN t : IndexKeyOf(t[n]) = i
    BY <2>1
  <2>3. ix[i] = t[j]
    BY <2>1, <2>2
  <2> QED
    BY <2>2, <2>3, Zenon DEF IndexKeyOf
<1>4. ASSUME NEW i \in IndexKeys, ix[i] # NoItem, ix[i].key = k
      PROVE  v # NoItem /\ IndexKey[k][v] = i /\ ix[i].val = v
  <2>1. PICK j \in DOMAIN t : ix[i] = t[j] /\ IndexKey[t[j].key][t[j].val] = i
    BY <1>3, <1>4
  <2>2. v = t[j].val
    BY <1>1, <1>4, <2>1, LoadedIs
  <2>3. v # NoItem
    BY <1>2, <2>2, DynamoParametersAssumption
  <2> QED
    BY <1>4, <2>1, <2>2, <2>3
<1>5. ASSUME NEW i \in IndexKeys, v # NoItem, IndexKey[k][v] = i,
             \A j \in Keys \ {k}, u \in Values : IndexKey[j][u] # i
      PROVE  ix[i] = [key |-> k, val |-> v]
  <2>1. PICK m \in DOMAIN t : t[m].key = k /\ t[m].val = v
    BY <1>1, <1>5, LoadedIs
  <2>2. IndexKeyOf(t[m]) = i
    BY <1>5, <2>1 DEF IndexKeyOf
  <2>3. PICK j \in DOMAIN t : /\ IndexKeyOf(t[j]) = i
                              /\ j = CHOOSE n \in DOMAIN t : IndexKeyOf(t[n]) = i
    BY <2>2
  <2>4. ix[i] = t[j]
    BY <2>2, <2>3
  <2>5. IndexKey[t[j].key][t[j].val] = i
    BY <2>3, Zenon DEF IndexKeyOf
  <2>6. t[j].key = k
    BY <1>2, <1>5, <2>5
  <2>7. j = m
    BY <2>1, <2>6, LoadedIs
  <2>8. t[m] = [key |-> k, val |-> v]
    BY <1>2, <2>1 DEF Item
  <2> QED
    BY <2>4, <2>7, <2>8
<1> QED
  BY <1>1, <1>4, <1>5 DEF Shows

LEMMA LoadTells ==
    ASSUME NEW t \in Loads, NEW k, NEW rs,
           rs = [i \in DOMAIN t |-> Record(t[i].key, NoItem, t[i].val)]
    PROVE  Tells(rs, k, Loaded(t, k))
<1>1. PICK n : n = Len(t) /\ n \in Nat /\ DOMAIN t = 1 .. n
  BY LoadType
<1>2. DOMAIN rs = 1 .. n /\ Len(rs) = n
  BY <1>1
<1>3. \A i \in 1 .. n : /\ rs[i].key = t[i].key /\ rs[i].old = NoItem
                        /\ rs[i].new = t[i].val
  BY <1>1 DEF Record
<1>4. \A i, j \in 1 .. n : t[i].key = t[j].key => i = j
  BY <1>1, LoadedIs
<1>5. ASSUME NEW i \in 1 .. n, rs[i].key = k
      PROVE  Leaves(rs, i - 1, k, rs[i].old)
  <2>1. \A j \in 1 .. i - 1 : j \in 1 .. n /\ j # i
    BY <1>1
  <2>2. \A j \in 1 .. i - 1 : rs[j].key # k
    BY <1>3, <1>5, <1>4, <2>1
  <2> QED
    BY <1>3, <2>2 DEF Leaves
<1>6. Leaves(rs, n, k, Loaded(t, k))
  <2>1. CASE \A i \in 1 .. n : t[i].key # k
    BY <1>1, <1>3, <2>1, LoadedIs DEF Leaves
  <2>2. ASSUME NEW i \in 1 .. n, t[i].key = k
        PROVE  Leaves(rs, n, k, Loaded(t, k))
    <3>1. rs[i].key = k /\ rs[i].new = Loaded(t, k)
      BY <1>1, <1>3, <2>2, LoadedIs
    <3>2. \A j \in i + 1 .. n : j \in 1 .. n /\ j # i
      BY <1>1
    <3>3. \A j \in i + 1 .. n : rs[j].key # k
      BY <1>3, <1>4, <2>2, <3>2
    <3> QED
      BY <3>1, <3>3 DEF Leaves
  <2> QED
    BY <2>1, <2>2
<1> QED
  BY <1>2, <1>5, <1>6 DEF Tells

LEMMA LoadCount ==
    ASSUME NEW t \in Loads
    PROVE  Len(t) = Cardinality({k \in Keys : Loaded(t, k) # NoItem})
<1> DEFINE S == {k \in Keys : Loaded(t, k) # NoItem}
           f == [i \in 1 .. Len(t) |-> t[i].key]
<1>1. Len(t) \in Nat /\ DOMAIN t = 1 .. Len(t)
      /\ \A i \in DOMAIN t : t[i].key \in Keys /\ t[i].val \in Values
  BY LoadType
<1>2. \A i \in 1 .. Len(t) : f[i] \in S
  BY <1>1, LoadedIs, DynamoParametersAssumption
<1>3. \A k \in S : \E i \in 1 .. Len(t) : f[i] = k
  BY <1>1, LoadedIs
<1>4. \A i, j \in 1 .. Len(t) : f[i] = f[j] => i = j
  BY <1>1, LoadedIs
<1>5. f \in [1 .. Len(t) -> S]
  BY <1>2
<1> HIDE DEF S, f
<1>6. f \in Bijection(1 .. Len(t), S)
  BY <1>3, <1>4, <1>5 DEF Bijection, Injection, Surjection, IsInjective
<1>7. Cardinality(S) = Len(t)
  BY <1>1, <1>6, FS_CountingElements DEF ExistsBijection
<1> QED
  BY <1>7 DEF S

LEMMA HistoryInit ==
    ASSUME Init
    PROVE  HistoryInv
<1>1. LocksInv /\ SettledInv
  BY LocksInit, SettledInit
<1>2. PICK t \in Loads :
        /\ parts = IF t = <<>> THEN <<>> ELSE <<FirstPartition(t)>>
        /\ index = [i \in IndexKeys |->
                      IF \E j \in DOMAIN t : IndexKeyOf(t[j]) = i
                      THEN t[CHOOSE j \in DOMAIN t : IndexKeyOf(t[j]) = i]
                      ELSE NoItem]
        /\ count = Len(t)
        /\ records = [i \in DOMAIN t |-> Record(t[i].key, NoItem, t[i].val)]
        /\ call = [c \in Procs |-> Idle]
        /\ last = [k \in Keys |-> Loaded(t, k)]
        /\ sure = Keys
        /\ hazy = {}
  BY DEF Init, FirstPartition
<1>3. ASSUME NEW c \in Procs
      PROVE  call[c].pc = "idle" /\ ToSet(call[c].todo) = {}
  <2>1. Len(parts) \in Nat
    BY <1>1, TypesOf DEF SettledInv, TypeInv
  <2> QED
    BY <1>2, <2>1, IdleRests
<1>4. Overlaps
  BY <1>3 DEF Overlaps, KeysOf
<1>5. HazyKnows
  <2>1. ASSUME NEW p \in DOMAIN parts
        PROVE  ~parts[p].raced
    <3>1. CASE t = <<>>
      BY <1>2, <3>1
    <3>2. CASE t # <<>>
      <4>1. PICK e : e = FirstPartition(t) /\ e.raced = FALSE
        BY <3>2, FirstPartitionType
      <4>2. parts = <<e>>
        BY <1>2, <3>2, <4>1
      <4> QED
        BY <4>1, <4>2
    <3> QED
      BY <3>1, <3>2
  <2> QED
    BY <1>2, <2>1 DEF HazyKnows, Raced
<1>6. ASSUME NEW k \in Keys
      PROVE  Agrees(k)
  <2>1. last[k] = Loaded(t, k)
    BY <1>2
  <2>2. Shows(index, k, Loaded(t, k))
    BY <1>2, LoadShows
  <2>3. Tells(records, k, Loaded(t, k))
    BY <1>2, LoadTells
  <2> QED
    BY <2>1, <2>2, <2>3 DEF Agrees
<1>7. AllFit
  BY <1>3, <1>6 DEF AllFit, KeyFits, CallFits, LandedFits, ReadFits, Unlogged, Landed
<1>8. CountFits
  <2>1. {k \in Keys : last[k] # NoItem} = {k \in Keys : Loaded(t, k) # NoItem}
    BY <1>2
  <2> QED
    BY <1>2, <2>1, LoadCount DEF CountFits
<1>9. ReaperFits
  <2>1. Reaper \in Procs
    BY DEF Procs
  <2> QED
    BY <1>3, <2>1 DEF ReaperFits, KeysOf
<1> QED
  BY <1>1, <1>4, <1>5, <1>7, <1>8, <1>9 DEF HistoryInv

LEMMA HistoryAlways == Spec => []HistoryInv
<1>1. Init => HistoryInv
  BY HistoryInit
<1>2. HistoryInv /\ [Next]_vars => HistoryInv'
  BY HistoryNext
<1> QED
  BY <1>1, <1>2, PTL DEF Spec

-----------------------------------------------------------------------------
(* The properties of a key's history.                                      *)

LEMMA QuietAgrees ==
    ASSUME HistoryInv, NEW k \in Keys \ hazy, Quiet(k)
    PROVE  Tells(records, k, GetItem(k)) /\ Shows(index, k, GetItem(k))
<1>1. ASSUME NEW c \in Procs
      PROVE  ~Unlogged(c, k)
  <2>1. TypeInv
    BY DEF HistoryInv, SettledInv
  <2>2. call[c].pc \in Landed => (k \in KeysOf(call[c]) <=> call[c].todo[1].key = k)
    BY <2>1, OnKey DEF Landed, Puts, Removals
  <2> QED
    BY <2>2 DEF Quiet, Unlogged
<1>2. Agrees(k)
  BY <1>1 DEF HistoryInv, AllFit, KeyFits
<1> QED
  BY <1>2, ReadsLast DEF Agrees

(* However many items share an index key and whatever the calls do: the    *)
(* index holds the item of an undisturbed key where it belongs, and no     *)
(* other entry of that key.                                                *)
THEOREM IndexHolds == Spec => []IndexAgrees
<1>1. HistoryInv => IndexAgrees
  BY QuietAgrees DEF IndexAgrees, Undisturbed
<1> QED
  BY <1>1, HistoryAlways, PTL

(* The stream's records of an undisturbed key chain, and end in the item.  *)
THEOREM StreamHolds == Spec => []StreamTellsHistory
<1>1. ASSUME HistoryInv, NEW k \in Keys \ hazy
      PROVE  /\ \A i \in DOMAIN records :
                   records[i].key = k => Leaves(records, i - 1, k, records[i].old)
             /\ Quiet(k) => Leaves(records, Len(records), k, GetItem(k))
  <2>1. PICK v : Tells(records, k, v)
    <3>1. CASE \A c \in Procs : ~Unlogged(c, k)
      BY <1>1, <3>1 DEF HistoryInv, AllFit, KeyFits, Agrees
    <3>2. ASSUME NEW c \in Procs, Unlogged(c, k)
          PROVE  Tells(records, k, call[c].old)
      BY <1>1, <3>2 DEF HistoryInv, AllFit, CallFits, LandedFits
    <3> QED
      BY <3>1, <3>2
  <2> QED
    BY <1>1, <2>1, QuietAgrees DEF Tells
<1>2. HistoryInv => StreamTellsHistory
  BY <1>1 DEF StreamTellsHistory, Undisturbed
<1> QED
  BY <1>2, HistoryAlways, PTL

(* ItemCount is the number of items while every key is undisturbed.        *)
THEOREM CountHolds == Spec => []CountAgrees
<1>1. ASSUME HistoryInv, hazy = {}
      PROVE  count = Cardinality({k \in Keys : GetItem(k) # NoItem})
  <2>1. {k \in Keys : GetItem(k) # NoItem} = {k \in Keys : last[k] # NoItem}
    BY <1>1, ReadsLast
  <2> QED
    BY <1>1, <2>1 DEF HistoryInv, CountFits
<1>2. ASSUME HistoryInv
      PROVE  CountAgrees
  <2>1. hazy \subseteq Keys
    BY <1>2 DEF HistoryInv, SettledInv, TypeInv, TypeOK
  <2>2. Undisturbed = Keys => hazy = {}
    BY <2>1 DEF Undisturbed
  <2> QED
    BY <1>1, <1>2, <2>2 DEF CountAgrees
<1> QED
  BY <1>2, HistoryAlways, PTL

(* A step moves one call; the others stay as they are. *)
LEMMA OneMoves ==
    ASSUME TypeInv, NEW c \in Procs, Step(c), NEW x \in Procs \ {c}
    PROVE  call'[x] = call[x]
<1>1. call \in [Procs -> CallType(Len(parts))]
  BY TypesOf DEF TypeInv
<1>2. \E r : call' = [call EXCEPT ![c] = r]
  <2>1. CASE PutCheck(c) \/ PutWrite(c) \/ PutCount(c) \/ PutIndex(c) \/ PutStream(c)
    BY <1>1, <2>1 DEF PutCheck, PutWrite, PutCount, PutIndex, PutStream
  <2>2. CASE DeleteWrite(c) \/ DeleteCount(c) \/ DeleteDrop(c) \/ DeleteStream(c)
    BY <1>1, <2>2, Zenon DEF DeleteWrite, DeleteCount, DeleteDrop, DeleteStream
  <2>3. CASE ReadInTable(c)
    BY <1>1, <2>3 DEF ReadInTable
  <2>4. ASSUME Done(c)
        PROVE  \E r : call' = [call EXCEPT ![c] = r]
    BY <1>1, <2>4 DEF Done
  <2>5. ASSUME NEW p, NEW recounts, Written(c, p, recounts)
        PROVE  \E r : call' = [call EXCEPT ![c] = r]
    BY <1>1, <2>4, <2>5 DEF Written
  <2>6. CASE UpdateWrite(c)
    <3>1. \E p, recounts : Written(c, p, recounts)
      BY <2>6, Zenon DEF UpdateWrite
    <3> QED
      BY <2>5, <3>1
  <2>7. CASE PutInTable(c)
    <3>1. \E p, recounts : Written(c, p, recounts)
      BY <2>7, Zenon DEF PutInTable
    <3> QED
      BY <2>5, <3>1
  <2>8. CASE DeleteFromTable(c)
    <3>1. \E p, recounts : Written(c, p, recounts)
      BY <2>8, Zenon DEF DeleteFromTable
    <3> QED
      BY <2>5, <3>1
  <2>9. CASE CountInTable(c)
    BY <2>4, <2>9 DEF CountInTable
  <2> QED
    BY <2>1, <2>2, <2>3, <2>6, <2>7, <2>8, <2>9 DEF Step
<1> QED
  BY <1>1, <1>2

(* A step that writes is a step of a call under way. *)
LEMMA StepWrites ==
    ASSUME TypeInv, [Next]_vars
    PROVE  \/ last' = last /\ \A x \in Procs : call[x].pc # "idle" =>
                                  call'[x].pc = call[x].pc
           \/ \E c \in Procs : Step(c)
<1>1. CASE UNCHANGED vars
  BY <1>1 DEF vars
<1>2. ASSUME NEW c, NEW r, Start(c, r), call[c].pc = "idle"
      PROVE  \A x \in Procs : call[x].pc # "idle" => call'[x].pc = call[x].pc
  <2> TAKE x \in Procs
  <2> SUFFICES ASSUME call[x].pc # "idle" PROVE call'[x].pc = call[x].pc
    OBVIOUS
  <2>1. x # c
    BY <1>2
  <2>2. PICK b : call'[x] = [call[x] EXCEPT !.calm = b]
    BY <1>2, <2>1 DEF Start
  <2>3. call[x] \in CallType(Len(parts))
    BY CallProps
  <2> QED
    BY <2>2, <2>3 DEF CallType
<1>3. ASSUME NEW c \in Clients, NEW w \in Requests,
             PutItem(c, w) \/ DeleteItem(c, w) \/ UpdateItem(c, w)
      PROVE  last' = last /\ call[c].pc = "idle" /\ \E r : Start(c, r)
  BY <1>3 DEF PutItem, DeleteItem, UpdateItem, Request
<1>4. ASSUME NEW c \in Clients, NEW t \in Transactions, TransactWriteItems(c, t)
      PROVE  last' = last /\ call[c].pc = "idle" /\ \E r : Start(c, r)
  BY <1>4 DEF TransactWriteItems, Request
<1>5. ASSUME NEW t \in ExpiredKeys, ScanExpired(Reaper, t)
      PROVE  last' = last /\ call[Reaper].pc = "idle" /\ \E r : Start(Reaper, r)
  BY <1>5 DEF ScanExpired
<1> QED
  BY <1>1, <1>2, <1>3, <1>4, <1>5 DEF Next

(* Whatever overlaps it: a conditional create of an undisturbed key writes *)
(* over nothing.                                                           *)
THEOREM CreatesHold == Spec => CreatesOnce
<1> DEFINE A == \A c \in Clients :
                   call[c].pc = "write" /\ call'[c].pc # "write"
                   /\ call[c].todo[1].cond = "absent"
                   /\ call[c].todo[1].key \in Undisturbed'
                   => last[call[c].todo[1].key] = NoItem
<1>1. ASSUME HistoryInv, [Next]_vars
      PROVE  A
  <2> SUFFICES ASSUME NEW c \in Clients, NEW k, k = call[c].todo[1].key,
                      call[c].pc = "write", call'[c].pc # "write",
                      call[c].todo[1].cond = "absent", k \notin hazy'
               PROVE  last[k] = NoItem
    BY DEF Undisturbed
  <2>1. TypeInv /\ c \in Procs
    BY <1>1 DEF HistoryInv, SettledInv, Procs
  <2>2. PutWrite(c)
    <3>1. PICK d \in Procs : Step(d)
      BY <1>1, <2>1, StepWrites
    <3>2. d = c
      BY <2>1, <3>1, OneMoves
    <3> QED
      BY <3>1, <3>2 DEF Step, PutCheck, PutCount, PutIndex, PutStream, DeleteWrite,
         DeleteCount, DeleteDrop, DeleteStream, ReadInTable, UpdateWrite, PutInTable,
         DeleteFromTable, CountInTable
  <2>3. call[c].calm /\ k \in Keys \ hazy
    <3>1. k \in Keys
      BY <2>1, CallProps DEF Puts
    <3>2. PICK p, v : Land(c, p, k, v)
      BY <2>2 DEF PutWrite
    <3> QED
      BY <3>1, <3>2 DEF Land
  <2>4. ReadFits(c, k)
    BY <1>1, <2>1, <2>3 DEF HistoryInv, AllFit, CallFits
  <2> QED
    BY <2>3, <2>4 DEF ReadFits, Holds
<1>2. CreatesOnce <=> [][A]_vars
  BY DEF CreatesOnce
<1>3. HistoryInv /\ [Next]_vars => [A]_vars
  BY <1>1
<1> HIDE DEF A
<1> QED
  BY <1>2, <1>3, HistoryAlways, PTL DEF Spec

(* What the reaper deletes of an undisturbed key had expired.              *)
THEOREM ReaperHolds == Spec => ReapsOnlyExpired
<1> DEFINE A == \A k \in Undisturbed' :
                   call[Reaper].pc = "tx" /\ last[k] # NoItem /\ last'[k] = NoItem
                   /\ tableMu = Reaper /\ call'[Reaper] # call[Reaper]
                   => last[k] \in Expired
<1>1. ASSUME HistoryInv, [Next]_vars
      PROVE  A
  <2> SUFFICES ASSUME NEW k \in Keys \ hazy', call[Reaper].pc = "tx",
                      last[k] # NoItem, last'[k] = NoItem,
                      call'[Reaper] # call[Reaper]
               PROVE  last[k] \in Expired
    BY DEF Undisturbed
  <2>1. TypeInv /\ Reaper \in Procs /\ last \in [Keys -> Values \cup {NoItem}]
    BY <1>1 DEF HistoryInv, SettledInv, TypeInv, TypeOK, Procs
  <2>2. Step(Reaper)
    <3>1. PICK d \in Procs : Step(d)
      BY <1>1, <2>1, StepWrites
    <3> QED
      BY <2>1, <3>1, OneMoves
  <2>3. PutInTable(Reaper) \/ DeleteFromTable(Reaper)
    <3>1. last' # last
      OBVIOUS
    <3> QED
      BY <2>2, <3>1 DEF Step, PutCheck, PutWrite, PutCount, PutIndex, PutStream,
         DeleteWrite, DeleteCount, DeleteDrop, DeleteStream, ReadInTable,
         UpdateWrite, CountInTable
  <2>4. PICK w : w = Head(call[Reaper].todo)
    OBVIOUS
  <2>5. w \in ToSet(call[Reaper].todo) /\ w.to = NoItem
    <3>1. w \in ToSet(call[Reaper].todo)
      BY <2>1, <2>4, CallProps DEF Tabled
    <3> QED
      BY <1>1, <3>1 DEF HistoryInv, ReaperFits
  <2>6. DeleteFromTable(Reaper)
    BY <2>3, <2>4, <2>5 DEF PutInTable
  <2>7. PICK p : Land(Reaper, p, w.key, NoItem)
    BY <2>4, <2>6, Zenon DEF DeleteFromTable
  <2>8. k = w.key /\ k \notin hazy
    BY <2>1, <2>7 DEF Land
  <2>9. k \in KeysOf(call[Reaper]) \ hazy
    BY <2>5, <2>8 DEF KeysOf
  <2> QED
    BY <1>1, <2>9 DEF HistoryInv, ReaperFits
<1>2. ReapsOnlyExpired <=> [][A]_vars
  BY DEF ReapsOnlyExpired
<1>3. HistoryInv /\ [Next]_vars => [A]_vars
  BY <1>1
<1> HIDE DEF A
<1> QED
  BY <1>2, <1>3, HistoryAlways, PTL DEF Spec

=============================================================================
