------------------------- MODULE SqsFifoQueueProofs -------------------------
(***************************************************************************)
(* Proofs about SqsFifoQueue, for any messages, groups and parameters.     *)
(***************************************************************************)
EXTENDS SqsFifoQueue, Iteration

-----------------------------------------------------------------------------
(* Sequences.                                                              *)
NoRepeat(s) == \A i, j \in DOMAIN s : s[i] = s[j] => i = j

LEMMA SeqIs ==
    ASSUME NEW S, NEW s \in Seq(S)
    PROVE  /\ Len(s) \in Nat /\ DOMAIN s = 1 .. Len(s)
           /\ \A i \in 1 .. Len(s) : s[i] \in S
           /\ ToSet(s) \subseteq S
           /\ \A x : x \in ToSet(s) <=> \E i \in 1 .. Len(s) : s[i] = x
<1>1. Len(s) \in Nat /\ DOMAIN s = 1 .. Len(s) /\ \A i \in 1 .. Len(s) : s[i] \in S
  OBVIOUS
<1> QED
  BY <1>1 DEF ToSet

LEMMA AppendIs ==
    ASSUME NEW S, NEW s \in Seq(S), NEW e \in S
    PROVE  /\ Append(s, e) \in Seq(S) /\ Append(s, e) # <<>>
           /\ Len(Append(s, e)) = Len(s) + 1
           /\ \A i \in 1 .. Len(s) : Append(s, e)[i] = s[i]
           /\ Append(s, e)[Len(s) + 1] = e
           /\ ToSet(Append(s, e)) = ToSet(s) \cup {e}
           /\ NoRepeat(s) /\ e \notin ToSet(s) => NoRepeat(Append(s, e))
<1>1. PICK t : t = Append(s, e)
  OBVIOUS
<1>2. /\ t \in Seq(S) /\ Len(t) = Len(s) + 1 /\ Len(s) \in Nat
      /\ DOMAIN t = 1 .. Len(s) + 1 /\ DOMAIN s = 1 .. Len(s)
      /\ \A i \in 1 .. Len(s) : t[i] = s[i]
      /\ t[Len(s) + 1] = e
  BY <1>1
<1>3. \A i \in 1 .. Len(s) + 1 : i \in 1 .. Len(s) \/ i = Len(s) + 1
  BY <1>2
<1>4. ToSet(t) = ToSet(s) \cup {e}
  <2>1. ToSet(t) \subseteq ToSet(s) \cup {e}
    BY <1>2, <1>3 DEF ToSet
  <2>2. ToSet(s) \cup {e} \subseteq ToSet(t)
    <3>1. \A i \in 1 .. Len(s) : i \in 1 .. Len(s) + 1
      BY <1>2
    <3>2. Len(s) + 1 \in 1 .. Len(s) + 1
      BY <1>2
    <3> QED
      BY <1>2, <3>1, <3>2 DEF ToSet
  <2> QED
    BY <2>1, <2>2
<1>5. ASSUME NoRepeat(s), e \notin ToSet(s)
      PROVE  NoRepeat(t)
  <2>1. \A i \in 1 .. Len(s) : s[i] # e
    BY <1>2, <1>5 DEF ToSet
  <2> QED
    BY <1>2, <1>3, <1>5, <2>1 DEF NoRepeat
<1> QED
  BY <1>1, <1>2, <1>4, <1>5

LEMMA PopIs ==
    ASSUME NEW S, NEW s \in Seq(S), s # <<>>
    PROVE  /\ Head(s) \in S /\ Tail(s) \in Seq(S)
           /\ Head(s) = s[1] /\ Len(s) \in Nat \ {0} /\ Len(Tail(s)) = Len(s) - 1
           /\ \A i \in 1 .. Len(s) - 1 : Tail(s)[i] = s[i + 1]
           /\ ToSet(s) = {Head(s)} \cup ToSet(Tail(s))
           /\ NoRepeat(s) => NoRepeat(Tail(s)) /\ Head(s) \notin ToSet(Tail(s))
<1>1. PICK t, x : t = Tail(s) /\ x = Head(s)
  OBVIOUS
<1>2. /\ t \in Seq(S) /\ Len(t) = Len(s) - 1 /\ Len(s) \in Nat \ {0}
      /\ DOMAIN t = 1 .. Len(s) - 1 /\ DOMAIN s = 1 .. Len(s)
      /\ \A i \in 1 .. Len(s) - 1 : t[i] = s[i + 1]
      /\ x = s[1] /\ x \in S
  BY <1>1
<1>3. /\ \A i \in 1 .. Len(s) - 1 : i + 1 \in 1 .. Len(s) /\ i + 1 # 1
      /\ \A i \in 1 .. Len(s) : i # 1 => i - 1 \in 1 .. Len(s) - 1 /\ (i - 1) + 1 = i
      /\ 1 \in 1 .. Len(s)
  BY <1>2
<1>4. ToSet(s) = {x} \cup ToSet(t)
  <2>1. ToSet(s) \subseteq {x} \cup ToSet(t)
    <3>1. ASSUME NEW i \in 1 .. Len(s) PROVE s[i] \in {x} \cup ToSet(t)
      <4>1. CASE i = 1
        BY <1>2, <4>1
      <4>2. CASE i # 1
        <5>1. i - 1 \in DOMAIN t /\ t[i - 1] = s[i]
          BY <1>2, <1>3, <4>2
        <5> QED
          BY <5>1 DEF ToSet
      <4> QED
        BY <4>1, <4>2
    <3> QED
      BY <1>2, <3>1 DEF ToSet
  <2>2. {x} \cup ToSet(t) \subseteq ToSet(s)
    BY <1>2, <1>3 DEF ToSet
  <2> QED
    BY <2>1, <2>2
<1>5. ASSUME NoRepeat(s)
      PROVE  NoRepeat(t) /\ x \notin ToSet(t)
  <2>1. \A i, j \in 1 .. Len(s) - 1 : i + 1 = j + 1 => i = j
    BY <1>2
  <2>2. NoRepeat(t)
    BY <1>2, <1>3, <1>5, <2>1 DEF NoRepeat
  <2>3. x \notin ToSet(t)
    BY <1>2, <1>3, <1>5 DEF NoRepeat, ToSet
  <2> QED
    BY <2>2, <2>3
<1> QED
  BY <1>1, <1>2, <1>4, <1>5

LEMMA EmptyIs ==
    ASSUME NEW S
    PROVE  /\ <<>> \in Seq(S) /\ Len(<<>>) = 0 /\ ToSet(<<>>) = {} /\ NoRepeat(<<>>)
BY DEF ToSet, NoRepeat

-----------------------------------------------------------------------------
(* The record q and its helpers.                                           *)
BufferTypes == UNION {[D -> Seq(Messages)] : D \in SUBSET Groups}
HandleType == [msg : Messages, n : Nat]
EntryType == [value : HandleType, left : Nat]
QType == [messages : BufferTypes, locked : SUBSET Groups, order : Seq(Groups),
          inflight : SUBSET HandleType, heap : SUBSET EntryType,
          count : [Messages -> Nat], redriven : [Messages -> Nat]]

Ready(s, m) == m \in ToSet(Buffer(s, GroupOf[m]))
Flying(s, m) == \E h \in s.inflight : h.msg = m

LEMMA BufferIs ==
    ASSUME NEW s \in QType
    PROVE  /\ DOMAIN s.messages \subseteq Groups
           /\ \A g : Buffer(s, g) \in Seq(Messages)
           /\ \A g : g \notin DOMAIN s.messages => Buffer(s, g) = <<>>
           /\ \A g \in DOMAIN s.messages : Buffer(s, g) = s.messages[g]
<1>1. PICK D \in SUBSET Groups : s.messages \in [D -> Seq(Messages)]
  BY DEF QType, BufferTypes
<1>2. <<>> \in Seq(Messages)
  OBVIOUS
<1> QED
  BY <1>1, <1>2 DEF Buffer

LEMMA PutIs ==
    ASSUME NEW s \in QType, NEW g \in Groups, NEW b \in Seq(Messages)
    PROVE  /\ Put(s, g, b) \in BufferTypes
           /\ DOMAIN Put(s, g, b) = DOMAIN s.messages \cup {g}
           /\ Put(s, g, b)[g] = b
           /\ \A x \in DOMAIN s.messages \ {g} : Put(s, g, b)[x] = s.messages[x]
<1>1. PICK D \in SUBSET Groups : s.messages \in [D -> Seq(Messages)]
  BY DEF QType, BufferTypes
<1>2. Put(s, g, b) \in [D \cup {g} -> Seq(Messages)]
  BY <1>1 DEF Put
<1>3. D \cup {g} \in SUBSET Groups
  BY <1>1
<1>4. Put(s, g, b) \in BufferTypes
  BY <1>2, <1>3 DEF BufferTypes
<1> QED
  BY <1>1, <1>2, <1>4 DEF Put

(* r is s with buffer b for group g. *)
Rebuffered(r, s, g, b) ==
    /\ DOMAIN r.messages = DOMAIN s.messages \cup {g}
    /\ Buffer(r, g) = b
    /\ \A x : x # g => Buffer(r, x) = Buffer(s, x)

LEMMA PutRebuffers ==
    ASSUME NEW s \in QType, NEW g \in Groups, NEW b \in Seq(Messages),
           NEW r, r.messages = Put(s, g, b)
    PROVE  Rebuffered(r, s, g, b)
<1>1. PICK p : p = Put(s, g, b)
  OBVIOUS
<1>2. /\ DOMAIN p = DOMAIN s.messages \cup {g} /\ p[g] = b
      /\ \A x \in DOMAIN s.messages \ {g} : p[x] = s.messages[x]
  BY <1>1 DEF Put
<1>3. r.messages = p
  BY <1>1
<1> QED
  BY <1>2, <1>3 DEF Rebuffered, Buffer

LEMMA PushIs ==
    ASSUME NEW s \in QType, NEW m \in Messages, NEW r, r = PushToGroup(s, m)
    PROVE  /\ r \in QType
           /\ Rebuffered(r, s, GroupOf[m], Append(Buffer(s, GroupOf[m]), m))
           /\ r.order = IF GroupOf[m] \in DOMAIN s.messages THEN s.order
                        ELSE Append(s.order, GroupOf[m])
           /\ r.locked = s.locked /\ r.inflight = s.inflight /\ r.heap = s.heap
           /\ r.count = s.count /\ r.redriven = s.redriven
<1>1. PICK g, b, p, o :
        /\ g = GroupOf[m] /\ b = Append(Buffer(s, g), m) /\ p = Put(s, g, b)
        /\ o = IF g \in DOMAIN s.messages THEN s.order ELSE Append(s.order, g)
  OBVIOUS
<1>2. g \in Groups /\ b \in Seq(Messages) /\ p \in BufferTypes
  <2>1. g \in Groups
    BY <1>1, FifoParametersAssumption
  <2>2. b \in Seq(Messages)
    BY <1>1, BufferIs, AppendIs
  <2> QED
    BY <1>1, <2>1, <2>2, PutIs
<1>3. o \in Seq(Groups)
  BY <1>1, <1>2 DEF QType
<1>4. r = [s EXCEPT !.messages = p, !.order = o]
  BY <1>1 DEF PushToGroup
<1>5. /\ r \in QType /\ r.messages = p /\ r.order = o
      /\ r.locked = s.locked /\ r.inflight = s.inflight /\ r.heap = s.heap
      /\ r.count = s.count /\ r.redriven = s.redriven
  BY <1>2, <1>3, <1>4 DEF QType
<1> QED
  BY <1>1, <1>2, <1>5, PutRebuffers

(* Only the buffer of one group differs. *)
LEMMA SameBuffers ==
    ASSUME NEW s, NEW r, r.messages = s.messages
    PROVE  \A g : Buffer(r, g) = Buffer(s, g)
BY DEF Buffer

-----------------------------------------------------------------------------
(* The invariant, as predicates on the record q: the loops and helpers keep *)
(* each of them while log, removed and delay stay as they are.              *)

(* Message e was sent without a delay, before message l of its group. *)
Precedes(e, l) ==
    \E g \in Groups : \E i, j \in 1 .. Len(log[g]) :
       i < j /\ log[g][i].delay = 0 /\ log[g][i].msg = e /\ log[g][j].msg = l

LogEntries == [msg : Messages, delay : Nat, age : 0 .. Window]

LogInv ==
    /\ log \in [Groups -> Seq(LogEntries)]
    /\ \A g \in Groups : \A i \in 1 .. Len(log[g]) :
          /\ GroupOf[log[g][i].msg] = g
          /\ log[g][i].delay = 0 => delay[log[g][i].msg] = 0
    /\ \A g \in Groups : \A i, j \in 1 .. Len(log[g]) :
          log[g][i].msg = log[g][j].msg => i = j

(* The record is well formed; it knows only messages that were sent. *)
Formed(s) ==
    /\ s \in QType
    /\ \A g : \A m \in ToSet(Buffer(s, g)) : GroupOf[m] = g
    /\ s.locked \subseteq DOMAIN s.messages
    /\ ToSet(s.order) = DOMAIN s.messages /\ NoRepeat(s.order)
    /\ IsFiniteSet(s.inflight)
    /\ \A h \in s.inflight : 1 <= h.n /\ h.n <= s.count[h.msg]

Known(s) == \A m \in Messages : Ready(s, m) \/ s.count[m] > 0 => m \in Sent

Scheduled(s) == \A h \in s.inflight : \E e \in s.heap : e.value = h

(* e is in sequence b, before each occurrence of l. *)
Ahead(b, e, l) ==
    \E i \in 1 .. Len(b) : b[i] = e /\ \A j \in 1 .. Len(b) : b[j] = l => i < j

(* A message that was never delivered is ready, unless it was removed, and  *)
(* those of its group sent after it have not been delivered and are behind. *)
InTurn(s) ==
    /\ \A m \in Sent \ removed : s.count[m] = 0 => Ready(s, m)
    /\ \A e, l : Precedes(e, l) /\ s.count[e] = 0 /\ e \notin removed =>
          s.count[l] = 0 /\ Ahead(Buffer(s, GroupOf[e]), e, l)

(* Every message is in one place; those in got were taken by the receive    *)
(* at work.                                                                 *)
Placed(s, got) ==
    /\ \A g : NoRepeat(Buffer(s, g))
    /\ \A g, h \in s.inflight : g.msg = h.msg => g = h
    /\ \A m \in Messages :
          /\ s.redriven[m] <= 1
          /\ Ready(s, m) => ~ Flying(s, m) /\ s.redriven[m] = 0 /\ m \notin got
          /\ Flying(s, m) => s.redriven[m] = 0 /\ m \notin got
          /\ m \in got => s.redriven[m] = 0
          /\ m \in Sent \ removed <=>
                Ready(s, m) \/ Flying(s, m) \/ m \in got \/ s.redriven[m] > 0

(* One message of a group is in flight at a time, and locks the group. *)
Held(s) ==
    /\ \A h \in s.inflight : GroupOf[h.msg] \in s.locked
    /\ \A g, h \in s.inflight : GroupOf[g.msg] = GroupOf[h.msg] => g = h

Single == Batches \subseteq {1}

SentIn(L) == {e.msg : e \in UNION {ToSet(L[g]) : g \in Groups}}

LEMMA SentOf ==
    ASSUME NEW L \in [Groups -> Seq(LogEntries)]
    PROVE  \A m : m \in SentIn(L) <=> \E g \in Groups : \E i \in 1 .. Len(L[g]) : L[g][i].msg = m
<1>1. PICK Y : Y = UNION {ToSet(L[g]) : g \in Groups}
  OBVIOUS
<1>2. \A e : e \in Y <=> \E g \in Groups : e \in ToSet(L[g])
  BY <1>1, Zenon
<1>3. \A g \in Groups : \A e : e \in ToSet(L[g]) <=> \E i \in 1 .. Len(L[g]) : L[g][i] = e
  BY SeqIs
<1>4. SentIn(L) = {e.msg : e \in Y}
  BY <1>1 DEF SentIn
<1>5. \A m : m \in SentIn(L) <=> \E e \in Y : e.msg = m
  BY <1>4
<1> QED
  BY <1>2, <1>3, <1>5

LEMMA SentIs ==
    ASSUME LogInv
    PROVE  /\ \A m : m \in Sent <=>
                 \E g \in Groups : \E i \in 1 .. Len(log[g]) : log[g][i].msg = m
           /\ Sent \subseteq Messages
<1>1. \A m : m \in Sent <=> \E g \in Groups : \E i \in 1 .. Len(log[g]) : log[g][i].msg = m
  <2>1. log \in [Groups -> Seq(LogEntries)]
    BY DEF LogInv
  <2>2. Sent = SentIn(log)
    BY DEF Sent, Sends, SentIn
  <2> QED
    BY <2>1, <2>2, SentOf
<1>2. \A g \in Groups : \A i \in 1 .. Len(log[g]) : log[g][i].msg \in Messages
  <2>1. \A g \in Groups : \A i \in 1 .. Len(log[g]) : log[g][i] \in LogEntries
    BY DEF LogInv
  <2> QED
    BY <2>1 DEF LogEntries
<1> QED
  BY <1>1, <1>2

LEMMA PrecedesIs ==
    ASSUME LogInv, NEW e, NEW l, Precedes(e, l)
    PROVE  /\ e \in Messages /\ l \in Messages /\ e # l
           /\ GroupOf[e] = GroupOf[l] /\ GroupOf[e] \in Groups
           /\ e \in Sent /\ l \in Sent /\ delay[e] = 0
<1>0. PICK g \in Groups : \E i, j \in 1 .. Len(log[g]) :
        i < j /\ log[g][i].delay = 0 /\ log[g][i].msg = e /\ log[g][j].msg = l
  BY DEF Precedes
<1>1. PICK i, j \in 1 .. Len(log[g]) :
        i < j /\ log[g][i].delay = 0 /\ log[g][i].msg = e /\ log[g][j].msg = l
  BY <1>0
<1>2. Len(log[g]) \in Nat /\ i # j
  BY <1>1 DEF LogInv
<1>3. e \in Sent /\ l \in Sent /\ e \in Messages /\ l \in Messages
  BY <1>1, SentIs
<1>4. GroupOf[e] = g /\ GroupOf[l] = g /\ delay[e] = 0 /\ e # l
  BY <1>1, <1>2 DEF LogInv
<1> QED
  BY <1>3, <1>4

LEMMA AheadAppend ==
    ASSUME NEW b \in Seq(Messages), NEW e, NEW l, NEW x \in Messages,
           Ahead(b, e, l)
    PROVE  Ahead(Append(b, x), e, l)
<1>1. PICK i \in 1 .. Len(b) : b[i] = e /\ \A j \in 1 .. Len(b) : b[j] = l => i < j
  BY DEF Ahead
<1>2. PICK t : t = Append(b, x)
  OBVIOUS
<1>3. Len(b) \in Nat /\ Len(t) = Len(b) + 1 /\ \A k \in 1 .. Len(b) : t[k] = b[k]
  BY <1>2
<1>4. /\ i \in 1 .. Len(t) /\ t[i] = e /\ i < Len(b) + 1
      /\ \A j \in 1 .. Len(t) : j \in 1 .. Len(b) \/ j = Len(b) + 1
  BY <1>1, <1>3
<1>5. Ahead(t, e, l)
  BY <1>1, <1>3, <1>4 DEF Ahead
<1> QED
  BY <1>2, <1>5

(* The end of b is behind whatever b holds. *)
LEMMA AheadEnd ==
    ASSUME NEW b \in Seq(Messages), NEW e \in ToSet(b), NEW l \in Messages,
           l \notin ToSet(b)
    PROVE  Ahead(Append(b, l), e, l)
<1>1. PICK i \in 1 .. Len(b) : b[i] = e
  BY SeqIs
<1>2. \A j \in 1 .. Len(b) : b[j] # l
  BY SeqIs
<1>3. Ahead(b, e, l)
  BY <1>1, <1>2 DEF Ahead
<1> QED
  BY <1>3, AheadAppend

(* What is ahead of l stays ahead when the head is taken, unless it is the *)
(* head itself.                                                            *)
LEMMA AheadTail ==
    ASSUME NEW b \in Seq(Messages), b # <<>>, NEW e, NEW l, Ahead(b, e, l),
           e # Head(b)
    PROVE  Ahead(Tail(b), e, l)
<1>1. PICK i \in 1 .. Len(b) : b[i] = e /\ \A j \in 1 .. Len(b) : b[j] = l => i < j
  BY DEF Ahead
<1>2. PICK t : t = Tail(b)
  OBVIOUS
<1>3. /\ Len(b) \in Nat /\ Len(t) = Len(b) - 1 /\ Head(b) = b[1]
      /\ \A k \in 1 .. Len(b) - 1 : t[k] = b[k + 1]
  BY <1>2, PopIs
<1>4. i # 1
  BY <1>1, <1>3
<1>5. i - 1 \in 1 .. Len(t) /\ t[i - 1] = e
  BY <1>1, <1>3, <1>4
<1>6. ASSUME NEW j \in 1 .. Len(t), t[j] = l PROVE i - 1 < j
  <2>1. j + 1 \in 1 .. Len(b) /\ b[j + 1] = l
    BY <1>3, <1>6
  <2>2. i < j + 1
    BY <1>1, <2>1
  <2> QED
    BY <1>3, <2>2
<1>7. Ahead(t, e, l)
  BY <1>5, <1>6 DEF Ahead
<1> QED
  BY <1>2, <1>7

(* The head has nothing ahead of it. *)
LEMMA HeadFirst ==
    ASSUME NEW b \in Seq(Messages), b # <<>>, NEW e
    PROVE  ~ Ahead(b, e, Head(b))
<1>1. Len(b) \in Nat \ {0} /\ 1 \in 1 .. Len(b) /\ Head(b) = b[1]
  BY PopIs
<1> QED
  BY <1>1 DEF Ahead

-----------------------------------------------------------------------------
(* What the helpers keep.                                                  *)

(* r holds the buffers and counts of s, and no more in flight or locked. *)
Reduced(r, s) ==
    /\ r \in QType
    /\ r.messages = s.messages /\ r.order = s.order /\ r.count = s.count
    /\ r.locked \subseteq s.locked /\ r.inflight \subseteq s.inflight

LEMMA ReducedKeeps ==
    ASSUME NEW s, NEW r, Reduced(r, s), Formed(s)
    PROVE  /\ Formed(r)
           /\ Known(s) => Known(r)
           /\ InTurn(s) => InTurn(r)
           /\ Held(s) /\ r.locked = s.locked => Held(r)
<1>1. \A g : Buffer(r, g) = Buffer(s, g)
  BY DEF Reduced, Buffer
<1>2. Formed(r)
  <2>1. IsFiniteSet(r.inflight)
    BY FS_Subset DEF Reduced, Formed
  <2> QED
    BY <1>1, <2>1 DEF Reduced, Formed
<1>3. \A m \in Messages : Ready(r, m) <=> Ready(s, m)
  BY <1>1 DEF Ready
<1>4. Known(s) => Known(r)
  BY <1>3 DEF Known, Reduced
<1>5. ASSUME InTurn(s)
      PROVE  InTurn(r)
  <2>1. \A m : Ready(r, m) <=> Ready(s, m)
    BY <1>1 DEF Ready
  <2> QED
    BY <1>1, <1>5, <2>1 DEF InTurn, Reduced
<1>6. Held(s) /\ r.locked = s.locked => Held(r)
  BY DEF Held, Reduced
<1> QED
  BY <1>2, <1>4, <1>5, <1>6

(* r is s with message m appended to its group. *)
Pushed(r, s, m) ==
    /\ r \in QType
    /\ Rebuffered(r, s, GroupOf[m], Append(Buffer(s, GroupOf[m]), m))
    /\ r.order = IF GroupOf[m] \in DOMAIN s.messages THEN s.order
                 ELSE Append(s.order, GroupOf[m])
    /\ r.locked \subseteq s.locked /\ r.inflight \subseteq s.inflight
    /\ r.count = s.count

LEMMA PushedReady ==
    ASSUME NEW s, Formed(s), NEW m \in Messages, NEW r, Pushed(r, s, m)
    PROVE  /\ \A x \in Messages : Ready(r, x) <=> x = m \/ Ready(s, x)
           /\ \A g : Buffer(r, g) = IF g = GroupOf[m] THEN Append(Buffer(s, g), m)
                                    ELSE Buffer(s, g)
<1>1. PICK g, b, c : /\ g = GroupOf[m] /\ b = Buffer(s, g) /\ c = Append(b, m)
  OBVIOUS
<1>2. b \in Seq(Messages) /\ ToSet(c) = ToSet(b) \cup {m}
  <2>1. b \in Seq(Messages)
    BY <1>1, BufferIs DEF Formed
  <2> QED
    BY <1>1, <2>1, AppendIs
<1>3. Buffer(r, g) = c /\ \A x : x # g => Buffer(r, x) = Buffer(s, x)
  BY <1>1 DEF Pushed, Rebuffered
<1>4. \A x \in Messages : Ready(r, x) <=> x = m \/ Ready(s, x)
  <2>1. ASSUME NEW x \in Messages PROVE Ready(r, x) <=> x = m \/ Ready(s, x)
    <3>1. CASE GroupOf[x] = g
      BY <1>1, <1>2, <1>3, <3>1 DEF Ready
    <3>2. CASE GroupOf[x] # g
      BY <1>1, <1>3, <3>2 DEF Ready
    <3> QED
      BY <3>1, <3>2
  <2> QED
    BY <2>1
<1>5. \A x : Buffer(r, x) = IF x = GroupOf[m] THEN Append(Buffer(s, x), m)
                            ELSE Buffer(s, x)
  BY <1>1, <1>3
<1> QED
  BY <1>4, <1>5

LEMMA PushedKeeps ==
    ASSUME NEW s, Formed(s), NEW m \in Messages, NEW r, Pushed(r, s, m)
    PROVE  /\ Formed(r)
           /\ Known(s) /\ m \in Sent => Known(r)
           /\ LogInv /\ InTurn(s) /\ s.count[m] > 0 => InTurn(r)
<1>1. PICK g, b, c : /\ g = GroupOf[m] /\ b = Buffer(s, g) /\ c = Append(b, m)
  OBVIOUS
<1>2. /\ b \in Seq(Messages) /\ c \in Seq(Messages) /\ g \in Groups
      /\ ToSet(c) = ToSet(b) \cup {m}
  <2>1. b \in Seq(Messages) /\ g \in Groups
    BY <1>1, BufferIs, FifoParametersAssumption DEF Formed
  <2> QED
    BY <1>1, <2>1, AppendIs
<1>3. /\ DOMAIN r.messages = DOMAIN s.messages \cup {g}
      /\ Buffer(r, g) = c /\ \A x : x # g => Buffer(r, x) = Buffer(s, x)
  BY <1>1 DEF Pushed, Rebuffered
<1>4. Formed(r)
  <2>1. \A x : \A y \in ToSet(Buffer(r, x)) : GroupOf[y] = x
    BY <1>1, <1>2, <1>3 DEF Formed
  <2>2. r.locked \subseteq DOMAIN r.messages
    BY <1>3 DEF Pushed, Formed
  <2>3. ToSet(r.order) = DOMAIN r.messages /\ NoRepeat(r.order)
    <3>1. CASE g \in DOMAIN s.messages
      BY <1>1, <1>3, <3>1 DEF Pushed, Formed
    <3>2. CASE g \notin DOMAIN s.messages
      <4>1. r.order = Append(s.order, g) /\ s.order \in Seq(Groups)
        BY <1>1, <3>2 DEF Pushed, Formed, QType
      <4>2. ToSet(r.order) = ToSet(s.order) \cup {g}
            /\ (NoRepeat(s.order) /\ g \notin ToSet(s.order) => NoRepeat(r.order))
        BY <1>2, <4>1, AppendIs
      <4> QED
        BY <1>3, <3>2, <4>2 DEF Formed
    <3> QED
      BY <3>1, <3>2
  <2>4. IsFiniteSet(r.inflight)
    BY FS_Subset DEF Pushed, Formed
  <2>5. \A h \in r.inflight : 1 <= h.n /\ h.n <= r.count[h.msg]
    BY DEF Pushed, Formed
  <2> QED
    BY <2>1, <2>2, <2>3, <2>4, <2>5 DEF Pushed, Formed
<1>5. ASSUME Known(s), m \in Sent
      PROVE  Known(r)
  BY <1>5, PushedReady DEF Known, Pushed
<1>6. ASSUME LogInv, InTurn(s), s.count[m] > 0
      PROVE  InTurn(r)
  <2>0. r.count = s.count
    BY DEF Pushed
  <2>1. \A x \in Sent \ removed : r.count[x] = 0 => Ready(r, x)
    BY <1>6, <2>0, PushedReady, SentIs DEF InTurn
  <2>2. ASSUME NEW e, NEW l, Precedes(e, l), r.count[e] = 0, e \notin removed
        PROVE  r.count[l] = 0 /\ Ahead(Buffer(r, GroupOf[e]), e, l)
    <3>1. s.count[l] = 0 /\ Ahead(Buffer(s, GroupOf[e]), e, l)
      BY <1>6, <2>0, <2>2 DEF InTurn
    <3>2. CASE GroupOf[e] = g
      <4>1. Ahead(Append(b, m), e, l)
        BY <1>1, <1>2, <3>1, <3>2, AheadAppend
      <4> QED
        BY <1>1, <1>3, <2>0, <3>1, <3>2, <4>1
    <3>3. CASE GroupOf[e] # g
      BY <1>3, <2>0, <3>1, <3>3
    <3> QED
      BY <3>2, <3>3
  <2> QED
    BY <2>1, <2>2 DEF InTurn
<1> QED
  BY <1>4, <1>5, <1>6

LEMMA FlyingIs ==
    ASSUME NEW s, Formed(s)
    PROVE  \A h \in s.inflight : h \in HandleType /\ h.msg \in Messages
                                 /\ h.n \in Nat /\ s.count[h.msg] \in Nat \ {0}
                                 /\ Flying(s, h.msg)
<1>1. ASSUME NEW h \in s.inflight
      PROVE  h \in HandleType /\ h.msg \in Messages /\ h.n \in Nat
             /\ s.count[h.msg] \in Nat \ {0} /\ Flying(s, h.msg)
  <2>1. h \in HandleType /\ s.count \in [Messages -> Nat]
    BY DEF Formed, QType
  <2>2. h.msg \in Messages /\ h.n \in Nat
    BY <2>1 DEF HandleType
  <2>3. s.count[h.msg] \in Nat /\ 1 <= h.n /\ h.n <= s.count[h.msg]
    BY <2>1, <2>2 DEF Formed
  <2> QED
    BY <2>1, <2>2, <2>3 DEF Flying
<1> QED
  BY <1>1

(* Handle h is taken out of flight and its group is unlocked. *)
Landed(r, s, h) ==
    /\ r.inflight = s.inflight \ {h}
    /\ r.locked = s.locked \ {GroupOf[h.msg]}

LEMMA LandedHeld ==
    ASSUME NEW s, NEW r, NEW h \in s.inflight, Landed(r, s, h), Held(s)
    PROVE  Held(r)
BY DEF Held, Landed

LEMMA LandedFlying ==
    ASSUME NEW s, NEW r, NEW h \in s.inflight, Landed(r, s, h),
           \A x, y \in s.inflight : x.msg = y.msg => x = y
    PROVE  /\ \A m : Flying(r, m) <=> Flying(s, m) /\ m # h.msg
           /\ Flying(s, h.msg)
           /\ \A x, y \in r.inflight : x.msg = y.msg => x = y
BY DEF Flying, Landed

(* A message in flight returns to its group. *)
LEMMA ReturnedPlaced ==
    ASSUME NEW s, Formed(s), NEW h \in s.inflight, Placed(s, {}),
           NEW r, Pushed(r, s, h.msg), Landed(r, s, h), r.redriven = s.redriven
    PROVE  Placed(r, {})
<1>1. PICK m : m = h.msg
  OBVIOUS
<1>2. m \in Messages
  BY <1>1, FlyingIs
<1>3. /\ \A x : Flying(r, x) <=> Flying(s, x) /\ x # m
      /\ Flying(s, m)
      /\ \A x, y \in r.inflight : x.msg = y.msg => x = y
  BY <1>1, LandedFlying DEF Placed
<1>4. /\ \A x \in Messages : Ready(r, x) <=> x = m \/ Ready(s, x)
      /\ \A g : Buffer(r, g) = IF g = GroupOf[m] THEN Append(Buffer(s, g), m)
                               ELSE Buffer(s, g)
  BY <1>1, <1>2, PushedReady
<1>5. ~ Ready(s, m) /\ s.redriven[m] = 0
  BY <1>2, <1>3 DEF Placed
<1>6. \A g : NoRepeat(Buffer(r, g))
  <2>1. Buffer(s, GroupOf[m]) \in Seq(Messages) /\ NoRepeat(Buffer(s, GroupOf[m]))
    BY BufferIs DEF Placed, Formed
  <2>2. NoRepeat(Append(Buffer(s, GroupOf[m]), m))
    BY <1>2, <1>5, <2>1, AppendIs DEF Ready
  <2> QED
    BY <1>4, <2>2 DEF Placed
<1>7. ASSUME NEW x \in Messages
      PROVE  /\ r.redriven[x] <= 1
             /\ Ready(r, x) => ~ Flying(r, x) /\ r.redriven[x] = 0
             /\ Flying(r, x) => r.redriven[x] = 0
             /\ x \in Sent \ removed <=>
                   Ready(r, x) \/ Flying(r, x) \/ r.redriven[x] > 0
  BY <1>3, <1>4, <1>5 DEF Placed
<1> QED
  BY <1>3, <1>6, <1>7 DEF Placed

(* A message in flight is redriven. *)
LEMMA RedrivenPlaced ==
    ASSUME NEW s, Formed(s), NEW h \in s.inflight, Placed(s, {}),
           NEW r, r.messages = s.messages, Landed(r, s, h),
           r.redriven = Plus1(s.redriven, h.msg)
    PROVE  Placed(r, {})
<1>1. PICK m : m = h.msg
  OBVIOUS
<1>2. m \in Messages /\ s.redriven \in [Messages -> Nat]
  BY <1>1, FlyingIs DEF Formed, QType
<1>3. /\ \A x : Flying(r, x) <=> Flying(s, x) /\ x # m
      /\ Flying(s, m)
      /\ \A x, y \in r.inflight : x.msg = y.msg => x = y
  BY <1>1, LandedFlying DEF Placed
<1>4. \A g : Buffer(r, g) = Buffer(s, g)
  BY SameBuffers
<1>5. ~ Ready(s, m) /\ s.redriven[m] = 0
  BY <1>2, <1>3 DEF Placed
<1>6. \A x \in Messages : r.redriven[x] = IF x = m THEN 1 ELSE s.redriven[x]
  BY <1>1, <1>2, <1>5 DEF Plus1
<1>7. ASSUME NEW x \in Messages
      PROVE  /\ r.redriven[x] <= 1
             /\ Ready(r, x) => ~ Flying(r, x) /\ r.redriven[x] = 0
             /\ Flying(r, x) => r.redriven[x] = 0
             /\ x \in Sent \ removed <=>
                   Ready(r, x) \/ Flying(r, x) \/ r.redriven[x] > 0
  <2>1. Ready(r, x) <=> Ready(s, x)
    BY <1>4 DEF Ready
  <2>2. CASE x = m
    BY <1>3, <1>5, <1>6, <2>1, <2>2 DEF Placed
  <2>3. CASE x # m
    BY <1>3, <1>6, <2>1, <2>3 DEF Placed
  <2> QED
    BY <2>2, <2>3
<1> QED
  BY <1>3, <1>4, <1>7 DEF Placed

LEMMA ReclaimOneIs ==
    ASSUME NEW s, Formed(s), NEW h \in s.inflight,
           NEW r, r = ReclaimOne(s, h)
    PROVE  /\ Landed(r, s, h) /\ r.heap = s.heap /\ r.count = s.count
           /\ \/ /\ Reduced(r, s)
                 /\ r.redriven = Plus1(s.redriven, h.msg)
              \/ Pushed(r, s, h.msg) /\ r.redriven = s.redriven
<1>1. PICK m, i, f : /\ m = h.msg /\ i = s.inflight \ {h}
                     /\ f = Unlock([s EXCEPT !.inflight = i], GroupOf[m])
  OBVIOUS
<1>2. m \in Messages /\ s \in QType
  BY <1>1, FlyingIs DEF Formed
<1>3. /\ f \in QType
      /\ f.locked = s.locked \ {GroupOf[m]} /\ f.inflight = s.inflight \ {h}
      /\ f.messages = s.messages /\ f.order = s.order /\ f.heap = s.heap
      /\ f.count = s.count /\ f.redriven = s.redriven
  <2>1. i \in SUBSET s.inflight
    BY <1>1
  <2> QED
    BY <1>1, <1>2, <2>1 DEF Unlock, QType
<1>4. r = IF dlqMax > 0 /\ s.count[m] >= dlqMax
          THEN [f EXCEPT !.redriven = Plus1(f.redriven, m)]
          ELSE PushToGroup(f, m)
  BY <1>1, <1>2 DEF ReclaimOne, QType
<1>5. CASE r = PushToGroup(f, m)
  <2>1. /\ r \in QType
        /\ Rebuffered(r, f, GroupOf[m], Append(Buffer(f, GroupOf[m]), m))
        /\ r.order = IF GroupOf[m] \in DOMAIN f.messages THEN f.order
                     ELSE Append(f.order, GroupOf[m])
        /\ r.locked = f.locked /\ r.inflight = f.inflight /\ r.heap = f.heap
        /\ r.count = f.count /\ r.redriven = f.redriven
    BY <1>2, <1>3, <1>5, PushIs
  <2>2. \A g : Buffer(f, g) = Buffer(s, g)
    BY <1>3 DEF Buffer
  <2>3. Rebuffered(r, s, GroupOf[m], Append(Buffer(s, GroupOf[m]), m))
    BY <1>3, <2>1, <2>2 DEF Rebuffered
  <2> QED
    BY <1>1, <1>3, <2>1, <2>3 DEF Landed, Pushed
<1>6. CASE r = [f EXCEPT !.redriven = Plus1(f.redriven, m)]
  <2>1. PICK d : d = Plus1(f.redriven, m)
    OBVIOUS
  <2>2. d \in [Messages -> Nat]
    BY <1>2, <1>3, <2>1 DEF QType, Plus1
  <2>3. r = [f EXCEPT !.redriven = d]
    BY <1>6, <2>1
  <2>4. /\ r \in QType /\ r.redriven = d
        /\ r.locked = f.locked /\ r.inflight = f.inflight /\ r.heap = f.heap
        /\ r.messages = f.messages /\ r.order = f.order /\ r.count = f.count
    BY <1>3, <2>2, <2>3 DEF QType
  <2> QED
    BY <1>1, <1>3, <2>1, <2>4 DEF Landed, Reduced
<1> QED
  BY <1>4, <1>5, <1>6

LEMMA ReclaimOneKeeps ==
    ASSUME NEW s, Formed(s), NEW h \in s.inflight,
           NEW r, r = ReclaimOne(s, h)
    PROVE  /\ r.inflight = s.inflight \ {h} /\ r.heap = s.heap /\ r.count = s.count
           /\ Formed(r)
           /\ Known(s) => Known(r)
           /\ LogInv /\ InTurn(s) => InTurn(r)
           /\ Placed(s, {}) => Placed(r, {})
           /\ Held(s) => Held(r)
<1>1. PICK m : m = h.msg
  OBVIOUS
<1>2. m \in Messages /\ s.count[m] \in Nat \ {0}
  BY <1>1, FlyingIs
<1>3. Known(s) => m \in Sent
  BY <1>2 DEF Known
<1>4. s.count[m] > 0
  BY <1>2
<1>5. Landed(r, s, h) /\ r.heap = s.heap /\ r.count = s.count
  BY ReclaimOneIs
<1>6. Held(s) => Held(r)
  BY <1>5, LandedHeld
<1>7. CASE Reduced(r, s) /\ r.redriven = Plus1(s.redriven, h.msg)
  <2>1. r.messages = s.messages
    BY <1>7 DEF Reduced
  <2>2. Placed(s, {}) => Placed(r, {})
    BY <1>5, <1>7, <2>1, RedrivenPlaced
  <2> QED
    BY <1>5, <1>6, <1>7, <2>2, ReducedKeeps DEF Landed
<1>8. CASE Pushed(r, s, h.msg) /\ r.redriven = s.redriven
  <2>1. Placed(s, {}) => Placed(r, {})
    BY <1>5, <1>8, ReturnedPlaced
  <2> QED
    BY <1>1, <1>2, <1>3, <1>4, <1>5, <1>6, <1>8, <2>1, PushedKeeps DEF Landed
<1> QED
  BY <1>7, <1>8, ReclaimOneIs

(* What a helper that delivers nothing keeps of s in r. *)
Keeps(r, s) ==
    /\ r.count = s.count
    /\ Formed(r)
    /\ Known(s) => Known(r)
    /\ LogInv /\ InTurn(s) => InTurn(r)
    /\ Placed(s, {}) => Placed(r, {})
    /\ Held(s) => Held(r)

LEMMA OrdersAre ==
    ASSUME NEW S, IsFiniteSet(S), NEW order \in Orders(S)
    PROVE  order \in Seq(S) /\ ToSet(order) = S /\ NoRepeat(order)
<1>1. Cardinality(S) \in Nat
  BY FS_CardinalityType
<1> QED
  BY <1>1 DEF Orders, NoRepeat

(* The states of the queue along the loop of reclaimExpiredLocked. *)
LEMMA ReclaimLoop ==
    ASSUME NEW s, Formed(s), NEW order \in Orders(Expired(s))
    PROVE  \E x : /\ x \in QType /\ Keeps(x, s) /\ x.heap = s.heap
                  /\ x.inflight = s.inflight \ Expired(s)
                  /\ Reclaim(s, order) = [x EXCEPT !.heap = @ \ Due(s.heap)]
<1> DEFINE N == Len(order)
           done(k) == {order[i] : i \in 1 .. k}
           Reached(k) == {x \in QType : /\ Keeps(x, s) /\ x.heap = s.heap
                                        /\ x.inflight = s.inflight \ done(k)}
<1>1. /\ N \in Nat /\ order \in Seq(Expired(s)) /\ NoRepeat(order)
      /\ DOMAIN order = 1 .. N /\ ToSet(order) = Expired(s)
      /\ \A i \in 1 .. N : order[i] \in s.inflight
  <2>1. IsFiniteSet(Expired(s)) /\ Expired(s) \subseteq s.inflight
    BY FS_Subset DEF Formed, Expired
  <2>2. order \in Seq(Expired(s)) /\ ToSet(order) = Expired(s) /\ NoRepeat(order)
    BY <2>1, OrdersAre
  <2> QED
    BY <2>1, <2>2
<1>2. ASSUME NEW k \in 1 .. N, NEW x \in Reached(k - 1)
      PROVE  ReclaimOne(x, order[k]) \in Reached(k)
  <2>1. PICK r, h : r = ReclaimOne(x, order[k]) /\ h = order[k]
    OBVIOUS
  <2>2. h \in x.inflight
    <3>1. h \in s.inflight /\ \A i \in 1 .. k - 1 : order[i] # h
      BY <1>1, <2>1 DEF NoRepeat
    <3> QED
      BY <3>1
  <2>3. Formed(x)
    BY DEF Keeps
  <2>4. /\ r.inflight = x.inflight \ {h} /\ r.heap = x.heap /\ r.count = x.count
        /\ Formed(r)
        /\ Known(x) => Known(r)
        /\ LogInv /\ InTurn(x) => InTurn(r)
        /\ Placed(x, {}) => Placed(r, {})
        /\ Held(x) => Held(r)
    BY <2>1, <2>2, <2>3, ReclaimOneKeeps
  <2>5. Keeps(r, s) /\ r.heap = s.heap /\ r \in QType
    BY <2>4 DEF Keeps, Formed
  <2>6. done(k) = done(k - 1) \cup {h}
    <3>1. \A i \in 1 .. k : i \in 1 .. k - 1 \/ i = k
      OBVIOUS
    <3> QED
      BY <2>1, <3>1
  <2>7. r.inflight = s.inflight \ done(k)
    BY <2>4, <2>6
  <2> QED
    BY <2>1, <2>5, <2>7
<1>3. s \in Reached(0)
  <2>1. Keeps(s, s) /\ s \in QType
    BY DEF Keeps, Formed
  <2>2. done(0) = {}
    OBVIOUS
  <2> QED
    BY <2>1, <2>2
<1> HIDE DEF Reached
<1> DEFINE r[k \in 0 .. N] == IF k = 0 THEN s ELSE ReclaimOne(r[k - 1], order[k])
<1>4. r = [k \in 0 .. N |-> IF k = 0 THEN s ELSE ReclaimOne(r[k - 1], order[k])]
  <2>1. SUFFICES \E f : f = [k \in 0 .. N |->
                          IF k = 0 THEN s ELSE ReclaimOne(f[k - 1], order[k])]
    BY Zenon
  <2> DEFINE S == [k \in 0 .. N |-> Reached(k)]
             step == [k \in 1 .. N |-> [x \in Reached(k - 1) |-> ReclaimOne(x, order[k])]]
  <2>2. \A k \in 1 .. N : k \in 0 .. N /\ k - 1 \in 0 .. N
    BY <1>1
  <2>3. s \in S[0] /\ Leads(step, S, N)
    BY <1>1, <1>2, <1>3, <2>2 DEF Leads
  <2> HIDE DEF S, step
  <2>4. PICK f : IsRun(f, N, s, step, S)
    BY <1>1, <2>3, Iterates
  <2>5. ASSUME NEW k \in 0 .. N, k # 0
        PROVE  f[k] = ReclaimOne(f[k - 1], order[k])
    <3>1. k \in 1 .. N /\ k - 1 \in 0 .. N
      BY <1>1, <2>5
    <3>2. f[k - 1] \in Reached(k - 1)
      BY <2>4, <3>1 DEF S, IsRun
    <3>3. step[k][f[k - 1]] = ReclaimOne(f[k - 1], order[k])
      BY <3>1, <3>2 DEF step
    <3> QED
      BY <2>4, <3>1, <3>3 DEF IsRun
  <2>6. \A k \in 0 .. N : f[k] = IF k = 0 THEN s ELSE ReclaimOne(f[k - 1], order[k])
    BY <2>4, <2>5 DEF IsRun
  <2>7. [k \in 0 .. N |-> f[k]]
          = [k \in 0 .. N |-> IF k = 0 THEN s ELSE ReclaimOne(f[k - 1], order[k])]
    BY <2>6, Zenon
  <2>8. f = [k \in 0 .. N |-> f[k]]
    BY <2>4 DEF IsRun
  <2> QED
    BY <2>7, <2>8, Zenon
<1>5. Reclaim(s, order) = [r[N] EXCEPT !.heap = @ \ Due(s.heap)]
  BY Zenon DEF Reclaim
<1> HIDE DEF r
<1>6. \A k \in 0 .. N : r[k] = IF k = 0 THEN s ELSE ReclaimOne(r[k - 1], order[k])
  BY <1>4
<1> DEFINE P == {k \in 0 .. N : r[k] \in Reached(k)}
<1>7. 0 \in P
  BY <1>1, <1>3, <1>6
<1>8. ASSUME NEW k \in 1 .. N, k - 1 \in P
      PROVE  k \in P
  <2>1. k \in 0 .. N /\ k # 0 /\ r[k] = ReclaimOne(r[k - 1], order[k])
    BY <1>1, <1>6
  <2> QED
    BY <1>2, <1>8, <2>1
<1> HIDE DEF P
<1>9. N \in P
  <2>1. 0 .. N \subseteq P
    BY <1>1, <1>7, <1>8, UpTo
  <2> QED
    BY <1>1, <2>1
<1>10. r[N] \in Reached(N)
  BY <1>9 DEF P
<1>11. done(N) = Expired(s)
  BY <1>1 DEF ToSet
<1> QED
  BY <1>5, <1>10, <1>11 DEF Reached

LEMMA SamePlaced ==
    ASSUME NEW s, NEW r, r.messages = s.messages, r.inflight = s.inflight,
           r.redriven = s.redriven, NEW got
    PROVE  Placed(s, got) => Placed(r, got)
BY SameBuffers DEF Placed, Ready, Flying

LEMMA ReclaimKeeps ==
    ASSUME NEW s, Formed(s), NEW order \in Orders(Expired(s)),
           NEW r, r = Reclaim(s, order)
    PROVE  /\ Keeps(r, s)
           /\ r.inflight = s.inflight \ Expired(s)
           /\ r.heap = s.heap \ Due(s.heap)
           /\ Scheduled(s) => Scheduled(r)
<1>1. PICK x : /\ x \in QType /\ Keeps(x, s) /\ x.heap = s.heap
               /\ x.inflight = s.inflight \ Expired(s)
               /\ r = [x EXCEPT !.heap = @ \ Due(s.heap)]
  BY ReclaimLoop
<1>2. /\ Reduced(r, x) /\ r.messages = x.messages /\ r.inflight = x.inflight
      /\ r.redriven = x.redriven /\ r.locked = x.locked /\ r.count = x.count
      /\ r.heap = s.heap \ Due(s.heap)
  BY <1>1 DEF Reduced, QType
<1>3. Formed(x)
  BY <1>1 DEF Keeps
<1>4. Placed(x, {}) => Placed(r, {})
  BY <1>2, SamePlaced
<1>5. Keeps(r, s)
  BY <1>1, <1>2, <1>3, <1>4, ReducedKeeps DEF Keeps
<1>6. ASSUME Scheduled(s)
      PROVE  Scheduled(r)
  <2>1. ASSUME NEW h \in r.inflight PROVE \E e \in r.heap : e.value = h
    <3>1. h \in s.inflight /\ h \notin Expired(s)
      BY <1>1, <1>2, <2>1
    <3>2. PICK e \in s.heap : e.value = h
      BY <1>6, <3>1 DEF Scheduled
    <3>3. e \notin Due(s.heap)
      BY <3>1, <3>2 DEF Expired
    <3> QED
      BY <1>2, <3>2, <3>3
  <2> QED
    BY <2>1 DEF Scheduled
<1> QED
  BY <1>1, <1>2, <1>5, <1>6

-----------------------------------------------------------------------------
(* One iteration of the inner loop of collectReadyLocked.                  *)
Sane(s) == Formed(s) /\ Known(s) /\ InTurn(s)

(* The visit of group g leaves all but its buffer b as it was. *)
Visited(r, s, g, b) ==
    /\ r \in QType
    /\ Rebuffered(r, s, g, b)
    /\ r.order = s.order /\ r.locked = s.locked
    /\ r.inflight = s.inflight /\ r.heap = s.heap

LEMMA VisitedFormed ==
    ASSUME NEW s, Formed(s), NEW g \in DOMAIN s.messages, NEW b \in Seq(Messages),
           ToSet(b) \subseteq ToSet(Buffer(s, g)),
           NEW r, Visited(r, s, g, b),
           \A m \in Messages : r.count[m] >= s.count[m]
    PROVE  Formed(r) /\ DOMAIN r.messages = DOMAIN s.messages
<1>1. DOMAIN r.messages = DOMAIN s.messages
  BY DEF Visited, Rebuffered
<1>2. \A x : \A m \in ToSet(Buffer(r, x)) : GroupOf[m] = x
  BY DEF Visited, Rebuffered, Formed
<1>3. \A h \in r.inflight : 1 <= h.n /\ h.n <= r.count[h.msg]
  <2>1. ASSUME NEW h \in r.inflight PROVE 1 <= h.n /\ h.n <= r.count[h.msg]
    <3>1. h \in s.inflight /\ h.msg \in Messages /\ h.n \in Nat /\ s.count[h.msg] \in Nat
      BY <2>1, FlyingIs DEF Visited
    <3>2. r.count[h.msg] \in Nat /\ r.count[h.msg] >= s.count[h.msg]
      BY <3>1 DEF Visited, QType
    <3> QED
      BY <3>1, <3>2 DEF Formed
  <2> QED
    BY <2>1
<1> QED
  BY <1>1, <1>2, <1>3 DEF Visited, Formed

(* The group's head is taken and counted. *)
LEMMA PoppedKeeps ==
    ASSUME LogInv, NEW s, Sane(s), NEW g \in DOMAIN s.messages, Buffer(s, g) # <<>>,
           NEW m, m = Head(Buffer(s, g)),
           NEW r, Visited(r, s, g, Tail(Buffer(s, g))), r.count = Plus1(s.count, m)
    PROVE  /\ m \in Messages /\ GroupOf[m] = g /\ Ready(s, m)
           /\ Sane(r) /\ DOMAIN r.messages = DOMAIN s.messages
           /\ \A x \in Messages : Ready(r, x) => Ready(s, x)
           /\ \A x \in Messages : Ready(s, x) => Ready(r, x) \/ x = m
<1>1. PICK b, c : b = Buffer(s, g) /\ c = Tail(b)
  OBVIOUS
<1>2. b \in Seq(Messages)
  BY <1>1, BufferIs DEF Sane, Formed
<1>3. /\ m \in Messages /\ c \in Seq(Messages) /\ ToSet(b) = {m} \cup ToSet(c)
  BY <1>1, <1>2, PopIs
<1>4. GroupOf[m] = g
  BY <1>1, <1>3 DEF Sane, Formed
<1>5. Ready(s, m)
  BY <1>1, <1>3, <1>4 DEF Ready
<1>6. /\ \A x \in Messages : r.count[x] = IF x = m THEN s.count[x] + 1 ELSE s.count[x]
      /\ \A x \in Messages : s.count[x] \in Nat
  BY <1>3 DEF Plus1, Sane, Formed, QType
<1>7. Formed(r) /\ DOMAIN r.messages = DOMAIN s.messages
  <2>1. \A x \in Messages : r.count[x] >= s.count[x]
    BY <1>6
  <2> QED
    BY <1>1, <1>3, <2>1, VisitedFormed DEF Sane
<1>8. Buffer(r, g) = c /\ \A x : x # g => Buffer(r, x) = Buffer(s, x)
  BY <1>1 DEF Visited, Rebuffered
<1>9. /\ \A x \in Messages : Ready(r, x) => Ready(s, x)
      /\ \A x \in Messages : Ready(s, x) => Ready(r, x) \/ x = m
  BY <1>1, <1>3, <1>8 DEF Ready
<1>10. Known(r)
  BY <1>5, <1>6, <1>9 DEF Known, Sane
<1>11. \A x \in Sent \ removed : r.count[x] = 0 => Ready(r, x)
  <2>1. ASSUME NEW x \in Sent \ removed, r.count[x] = 0 PROVE Ready(r, x)
    <3>1. x \in Messages
      BY SentIs
    <3>2. x # m /\ s.count[x] = 0
      BY <1>3, <1>6, <2>1, <3>1
    <3> QED
      BY <1>9, <3>1, <3>2 DEF Sane, InTurn
  <2> QED
    BY <2>1
<1>12. ASSUME NEW e, NEW l, Precedes(e, l), r.count[e] = 0, e \notin removed
       PROVE  r.count[l] = 0 /\ Ahead(Buffer(r, GroupOf[e]), e, l)
  <2>1. e \in Messages /\ l \in Messages /\ GroupOf[e] = GroupOf[l]
    BY <1>12, PrecedesIs
  <2>2. e # m /\ s.count[e] = 0
    BY <1>6, <1>12, <2>1
  <2>3. s.count[l] = 0 /\ Ahead(Buffer(s, GroupOf[e]), e, l)
    BY <1>12, <2>2 DEF Sane, InTurn
  <2>4. CASE GroupOf[e] = g
    <3>1. l # m
      BY <1>1, <1>2, <2>3, <2>4, HeadFirst
    <3>2. Ahead(c, e, l)
      BY <1>1, <1>2, <2>2, <2>3, <2>4, AheadTail
    <3> QED
      BY <1>6, <1>8, <2>1, <2>3, <2>4, <3>1, <3>2
  <2>5. CASE GroupOf[e] # g
    BY <1>4, <1>6, <1>8, <2>1, <2>3, <2>5
  <2> QED
    BY <2>4, <2>5
<1> QED
  BY <1>3, <1>4, <1>5, <1>7, <1>9, <1>10, <1>11, <1>12 DEF Sane, InTurn

(* What was popped is in nobody's hands but the receive's. *)
LEMMA PoppedPlaced ==
    ASSUME NEW s, Formed(s), NEW g \in DOMAIN s.messages, Buffer(s, g) # <<>>,
           NEW m, m = Head(Buffer(s, g)), NEW got, Placed(s, got),
           NEW r, Visited(r, s, g, Tail(Buffer(s, g)))
    PROVE  /\ \A x : NoRepeat(Buffer(r, x))
           /\ \A x \in Messages : Ready(r, x) <=> Ready(s, x) /\ x # m
           /\ ~ Flying(s, m) /\ s.redriven[m] = 0 /\ m \notin got
           /\ \A x : Flying(r, x) <=> Flying(s, x)
<1>1. PICK b, c : b = Buffer(s, g) /\ c = Tail(b)
  OBVIOUS
<1>2. b \in Seq(Messages) /\ NoRepeat(b)
  BY <1>1, BufferIs DEF Formed, Placed
<1>3. /\ m \in Messages /\ ToSet(b) = {m} \cup ToSet(c)
      /\ NoRepeat(c) /\ m \notin ToSet(c)
  BY <1>1, <1>2, PopIs
<1>4. GroupOf[m] = g
  BY <1>1, <1>3 DEF Formed
<1>5. Buffer(r, g) = c /\ \A x : x # g => Buffer(r, x) = Buffer(s, x)
  BY <1>1 DEF Visited, Rebuffered
<1>6. \A x : NoRepeat(Buffer(r, x))
  BY <1>3, <1>5 DEF Placed
<1>7. \A x \in Messages : Ready(r, x) <=> Ready(s, x) /\ x # m
  BY <1>1, <1>3, <1>4, <1>5 DEF Ready
<1>8. Ready(s, m)
  BY <1>1, <1>3, <1>4 DEF Ready
<1>9. \A x : Flying(r, x) <=> Flying(s, x)
  BY DEF Visited, Flying
<1> QED
  BY <1>3, <1>6, <1>7, <1>8, <1>9 DEF Placed

(* A head that is still delayed goes to the end of its group. *)
LEMMA RotatedKeeps ==
    ASSUME LogInv, NEW s, Sane(s), NEW g \in DOMAIN s.messages, Buffer(s, g) # <<>>,
           NEW m, m = Head(Buffer(s, g)), delay[m] > 0,
           NEW r, Visited(r, s, g, Append(Tail(Buffer(s, g)), m)), r.count = s.count,
           r.redriven = s.redriven
    PROVE  /\ Sane(r) /\ DOMAIN r.messages = DOMAIN s.messages
           /\ \A got : Placed(s, got) => Placed(r, got)
<1>1. PICK b, c, d : b = Buffer(s, g) /\ c = Tail(b) /\ d = Append(c, m)
  OBVIOUS
<1>2. b \in Seq(Messages)
  BY <1>1, BufferIs DEF Sane, Formed
<1>3. /\ m \in Messages /\ c \in Seq(Messages) /\ ToSet(b) = {m} \cup ToSet(c)
      /\ NoRepeat(b) => NoRepeat(c) /\ m \notin ToSet(c)
  BY <1>1, <1>2, PopIs
<1>4. /\ d \in Seq(Messages) /\ ToSet(d) = ToSet(b)
      /\ NoRepeat(b) => NoRepeat(d)
  <2>1. /\ Append(c, m) \in Seq(Messages) /\ ToSet(Append(c, m)) = ToSet(c) \cup {m}
        /\ NoRepeat(c) /\ m \notin ToSet(c) => NoRepeat(Append(c, m))
    BY <1>3, AppendIs
  <2>2. d = Append(c, m)
    BY <1>1
  <2> QED
    BY <1>3, <2>1, <2>2
<1>5. Formed(r) /\ DOMAIN r.messages = DOMAIN s.messages
  <2>1. \A x \in Messages : r.count[x] >= s.count[x]
    BY DEF Sane, Formed, QType
  <2>2. Visited(r, s, g, d) /\ ToSet(d) \subseteq ToSet(Buffer(s, g))
    BY <1>1, <1>4
  <2> QED
    BY <1>4, <2>1, <2>2, VisitedFormed DEF Sane
<1>6. Buffer(r, g) = d /\ \A x : x # g => Buffer(r, x) = Buffer(s, x)
  BY <1>1 DEF Visited, Rebuffered
<1>7. \A x : Ready(r, x) <=> Ready(s, x)
  BY <1>1, <1>4, <1>6 DEF Ready
<1>8. Known(r)
  BY <1>7 DEF Known, Sane
<1>9. ASSUME NEW e, NEW l, Precedes(e, l), r.count[e] = 0, e \notin removed
      PROVE  r.count[l] = 0 /\ Ahead(Buffer(r, GroupOf[e]), e, l)
  <2>1. delay[e] = 0 /\ e # m
    BY <1>9, PrecedesIs
  <2>2. s.count[l] = 0 /\ Ahead(Buffer(s, GroupOf[e]), e, l)
    BY <1>9 DEF Sane, InTurn
  <2>3. CASE GroupOf[e] = g
    <3>1. Ahead(c, e, l)
      BY <1>1, <1>2, <2>1, <2>2, <2>3, AheadTail
    <3>2. Ahead(d, e, l)
      BY <1>1, <1>3, <3>1, AheadAppend
    <3> QED
      BY <1>6, <2>2, <2>3, <3>2
  <2>4. CASE GroupOf[e] # g
    BY <1>6, <2>2, <2>4
  <2> QED
    BY <2>3, <2>4
<1>10. InTurn(r)
  BY <1>7, <1>9 DEF InTurn, Sane
<1>11. ASSUME NEW got, Placed(s, got)
       PROVE  Placed(r, got)
  <2>1. \A x : NoRepeat(Buffer(r, x))
    BY <1>1, <1>4, <1>6, <1>11 DEF Placed
  <2>2. \A x : Flying(r, x) <=> Flying(s, x)
    BY DEF Visited, Flying
  <2> QED
    BY <1>7, <1>11, <2>1, <2>2 DEF Placed, Visited
<1> QED
  BY <1>5, <1>8, <1>10, <1>11 DEF Sane

WorkType == [q : QType, result : Seq(Messages), changed : BOOLEAN]

(* The record t at work in a receive of s that asks for max messages. *)
Work(t, s, max) ==
    /\ t \in WorkType
    /\ Sane(t.q)
    /\ DOMAIN t.q.messages = DOMAIN s.messages
    /\ t.q.order = s.order /\ t.q.locked = s.locked
    /\ t.q.inflight = s.inflight /\ t.q.heap = s.heap
    /\ Len(t.result) <= max
    /\ \A m \in ToSet(t.result) : /\ t.q.count[m] > 0
                                  /\ GroupOf[m] \in DOMAIN s.messages \ s.locked
    /\ Placed(s, {}) => Placed(t.q, ToSet(t.result))

(* The cases of a visit: the head m goes to the end, or leaves the group. *)
Rotated(r, t, g, m) ==
    /\ delay[m] > 0
    /\ Visited(r.q, t.q, g, Append(Tail(Buffer(t.q, g)), m))
    /\ r.q.count = t.q.count /\ r.q.redriven = t.q.redriven
    /\ r.result = t.result

Taken(r, t, g, m) ==
    /\ Visited(r.q, t.q, g, Tail(Buffer(t.q, g)))
    /\ r.q.count = Plus1(t.q.count, m)
    /\ \/ r.q.redriven = Plus1(t.q.redriven, m) /\ r.result = t.result
       \/ r.q.redriven = t.q.redriven /\ r.result = Append(t.result, m)

LEMMA VisitIs ==
    ASSUME NEW t \in WorkType, Sane(t.q), NEW g \in DOMAIN t.q.messages, NEW max,
           NEW r, r = Visit(t, g, max), NEW m, m = Head(Buffer(t.q, g)), r # t
    PROVE  /\ ~ (Len(t.result) >= max) /\ g \notin t.q.locked /\ Buffer(t.q, g) # <<>>
           /\ r \in WorkType
           /\ \/ Rotated(r, t, g, m)
              \/ Taken(r, t, g, m)
<1>1. PICK s, b, c : s = t.q /\ b = Buffer(s, g) /\ c = Tail(b)
  OBVIOUS
<1>2. PICK p : p = [s EXCEPT !.messages = Put(s, g, c), !.count = Plus1(s.count, m)]
  OBVIOUS
<1>3. PICK w : w = [s EXCEPT !.messages = Put(s, g, Append(c, m))]
  OBVIOUS
<1>4. PICK d : d = [p EXCEPT !.redriven = Plus1(p.redriven, m)]
  OBVIOUS
<1>5. /\ ~ (Len(t.result) >= max) /\ g \notin s.locked /\ b # <<>>
      /\ r = IF delay[m] > 0 THEN [t EXCEPT !.q = w]
             ELSE IF dlqMax > 0 /\ p.count[m] > dlqMax
             THEN [t EXCEPT !.q = d, !.changed = TRUE]
             ELSE [q |-> p, result |-> Append(t.result, m), changed |-> TRUE]
  BY <1>1, <1>2, <1>3, <1>4, Zenon DEF Visit
<1>6. s \in QType /\ g \in Groups /\ b \in Seq(Messages)
  BY <1>1, BufferIs DEF Sane, Formed
<1>7. m \in Messages /\ c \in Seq(Messages) /\ Append(c, m) \in Seq(Messages)
  <2>1. m \in Messages /\ c \in Seq(Messages)
    BY <1>1, <1>5, <1>6, PopIs
  <2> QED
    BY <2>1
<1>8. /\ Put(s, g, c) \in BufferTypes /\ Put(s, g, Append(c, m)) \in BufferTypes
      /\ Plus1(s.count, m) \in [Messages -> Nat]
      /\ Plus1(s.redriven, m) \in [Messages -> Nat]
  <2>1. s.count \in [Messages -> Nat] /\ s.redriven \in [Messages -> Nat]
    BY <1>6 DEF QType
  <2>2. Plus1(s.count, m) \in [Messages -> Nat] /\ Plus1(s.redriven, m) \in [Messages -> Nat]
    BY <1>7, <2>1 DEF Plus1
  <2>3. Put(s, g, c) \in BufferTypes
    BY <1>6, <1>7, PutIs
  <2>4. Put(s, g, Append(c, m)) \in BufferTypes
    BY <1>6, <1>7, PutIs
  <2> QED
    BY <2>2, <2>3, <2>4
<1>9. /\ Visited(p, s, g, c) /\ p.count = Plus1(s.count, m) /\ p.redriven = s.redriven
  <2>1. /\ p \in QType /\ p.messages = Put(s, g, c) /\ p.count = Plus1(s.count, m)
        /\ p.redriven = s.redriven /\ p.order = s.order /\ p.locked = s.locked
        /\ p.inflight = s.inflight /\ p.heap = s.heap
    BY <1>2, <1>6, <1>8 DEF QType
  <2> QED
    BY <1>6, <1>7, <2>1, PutRebuffers DEF Visited
<1>10. /\ Visited(w, s, g, Append(c, m)) /\ w.count = s.count /\ w.redriven = s.redriven
  <2>1. /\ w \in QType /\ w.messages = Put(s, g, Append(c, m)) /\ w.count = s.count
        /\ w.redriven = s.redriven /\ w.order = s.order /\ w.locked = s.locked
        /\ w.inflight = s.inflight /\ w.heap = s.heap
    BY <1>3, <1>6, <1>8 DEF QType
  <2> QED
    BY <1>6, <1>7, <2>1, PutRebuffers DEF Visited
<1>11. /\ Visited(d, s, g, c) /\ d.count = Plus1(s.count, m)
       /\ d.redriven = Plus1(s.redriven, m)
  <2>1. p \in QType
    BY <1>9 DEF Visited
  <2>2. /\ d \in QType /\ d.messages = p.messages /\ d.count = p.count
        /\ d.redriven = Plus1(s.redriven, m) /\ d.order = p.order
        /\ d.locked = p.locked /\ d.inflight = p.inflight /\ d.heap = p.heap
    BY <1>4, <1>8, <1>9, <2>1 DEF QType
  <2>3. \A x : Buffer(d, x) = Buffer(p, x)
    BY <2>2, SameBuffers
  <2> QED
    BY <1>9, <2>2, <2>3 DEF Visited, Rebuffered
<1>12. w \in QType /\ d \in QType /\ p \in QType
  BY <1>9, <1>10, <1>11 DEF Visited
<1>13. CASE delay[m] > 0
  <2>1. r = [t EXCEPT !.q = w]
    BY <1>5, <1>13
  <2>2. r \in WorkType /\ r.q = w /\ r.result = t.result
    BY <1>12, <2>1 DEF WorkType
  <2> QED
    BY <1>1, <1>5, <1>10, <1>13, <2>2 DEF Rotated
<1>14. CASE ~ (delay[m] > 0) /\ dlqMax > 0 /\ p.count[m] > dlqMax
  <2>1. r = [t EXCEPT !.q = d, !.changed = TRUE]
    BY <1>5, <1>14
  <2>2. r \in WorkType /\ r.q = d /\ r.result = t.result
    BY <1>12, <2>1 DEF WorkType
  <2> QED
    BY <1>1, <1>5, <1>11, <2>2 DEF Taken
<1>15. CASE ~ (delay[m] > 0) /\ ~ (dlqMax > 0 /\ p.count[m] > dlqMax)
  <2>1. r = [q |-> p, result |-> Append(t.result, m), changed |-> TRUE]
    BY <1>5, <1>15
  <2>2. r \in WorkType /\ r.q = p /\ r.result = Append(t.result, m)
    BY <1>7, <1>12, <2>1 DEF WorkType
  <2> QED
    BY <1>1, <1>5, <1>9, <2>2 DEF Taken
<1> QED
  BY <1>13, <1>14, <1>15

LEMMA VisitKeeps ==
    ASSUME LogInv, NEW s, NEW max \in Nat, NEW t, Work(t, s, max),
           NEW g \in DOMAIN s.messages, NEW r, r = Visit(t, g, max)
    PROVE  Work(r, s, max)
<1>1. CASE r = t
  BY <1>1
<1>2. CASE r # t
  <2>1. PICK m : m = Head(Buffer(t.q, g))
    OBVIOUS
  <2>2. t \in WorkType /\ Sane(t.q) /\ g \in DOMAIN t.q.messages
    BY DEF Work
  <2>3. ~ (Len(t.result) >= max) /\ g \notin t.q.locked /\ Buffer(t.q, g) # <<>>
        /\ r \in WorkType
    BY <1>2, <2>1, <2>2, VisitIs
  <2>4. CASE Rotated(r, t, g, m)
    <3>1. /\ Sane(r.q) /\ DOMAIN r.q.messages = DOMAIN t.q.messages
          /\ \A got : Placed(t.q, got) => Placed(r.q, got)
      BY <2>1, <2>2, <2>3, <2>4, RotatedKeeps DEF Rotated
    <3> QED
      BY <2>3, <2>4, <3>1 DEF Work, Visited, Rotated
  <2>5. CASE Taken(r, t, g, m)
    <3>0. /\ Visited(r.q, t.q, g, Tail(Buffer(t.q, g)))
          /\ r.q.count = Plus1(t.q.count, m)
      BY <2>5 DEF Taken
    <3>1. /\ m \in Messages /\ GroupOf[m] = g /\ Ready(t.q, m)
          /\ Sane(r.q) /\ DOMAIN r.q.messages = DOMAIN t.q.messages
      BY <2>1, <2>2, <2>3, <3>0, PoppedKeeps
    <3>2. \A x \in Messages : /\ t.q.count[x] \in Nat
                              /\ r.q.count[x] = IF x = m THEN t.q.count[x] + 1
                                                ELSE t.q.count[x]
      BY <2>2, <3>0, <3>1 DEF WorkType, QType, Plus1
    <3>3. ASSUME NEW got, Placed(t.q, got)
          PROVE  /\ \A x : NoRepeat(Buffer(r.q, x))
                 /\ \A x \in Messages : Ready(r.q, x) <=> Ready(t.q, x) /\ x # m
                 /\ ~ Flying(t.q, m) /\ t.q.redriven[m] = 0 /\ m \notin got
                 /\ \A x : Flying(r.q, x) <=> Flying(t.q, x)
      BY <2>1, <2>2, <2>3, <3>0, <3>3, PoppedPlaced DEF Sane
    <3>4. t.result \in Seq(Messages) /\ ToSet(t.result) \subseteq Messages
          /\ Len(t.result) \in Nat
      BY <2>2, SeqIs DEF WorkType
    <3>5. CASE r.q.redriven = Plus1(t.q.redriven, m) /\ r.result = t.result
      <4>1. \A x \in Messages : r.q.redriven[x] = IF x = m THEN t.q.redriven[x] + 1
                                                  ELSE t.q.redriven[x]
        BY <2>2, <3>1, <3>5 DEF WorkType, QType, Plus1
      <4>2. ASSUME NEW got, Placed(t.q, got)
            PROVE  Placed(r.q, got)
        <5>1. ASSUME NEW x \in Messages
              PROVE  /\ r.q.redriven[x] <= 1
                     /\ Ready(r.q, x) => ~ Flying(r.q, x) /\ r.q.redriven[x] = 0 /\ x \notin got
                     /\ Flying(r.q, x) => r.q.redriven[x] = 0 /\ x \notin got
                     /\ x \in got => r.q.redriven[x] = 0
                     /\ x \in Sent \ removed <=>
                          Ready(r.q, x) \/ Flying(r.q, x) \/ x \in got \/ r.q.redriven[x] > 0
          <6>1. CASE x = m
            BY <3>1, <3>3, <4>1, <4>2, <6>1 DEF Placed
          <6>2. CASE x # m
            BY <3>3, <4>1, <4>2, <6>2 DEF Placed
          <6> QED
            BY <6>1, <6>2
        <5>2. \A x, y \in r.q.inflight : x.msg = y.msg => x = y
          BY <3>0, <4>2 DEF Placed, Visited
        <5> QED
          BY <3>3, <4>2, <5>1, <5>2 DEF Placed
      <4>3. \A x \in ToSet(r.result) : /\ r.q.count[x] > 0
                                       /\ GroupOf[x] \in DOMAIN s.messages \ s.locked
        BY <3>2, <3>4, <3>5 DEF Work
      <4> QED
        BY <2>3, <3>0, <3>1, <3>5, <4>2, <4>3 DEF Work, Visited
    <3>6. CASE r.q.redriven = t.q.redriven /\ r.result = Append(t.result, m)
      <4>1. /\ Len(r.result) = Len(t.result) + 1
            /\ ToSet(r.result) = ToSet(t.result) \cup {m}
        BY <3>1, <3>4, <3>6, AppendIs
      <4>2. Len(r.result) <= max
        BY <2>3, <3>4, <4>1
      <4>3. ASSUME NEW got, Placed(t.q, got)
            PROVE  Placed(r.q, got \cup {m})
        <5>1. ASSUME NEW x \in Messages
              PROVE  /\ r.q.redriven[x] <= 1
                     /\ Ready(r.q, x) => /\ ~ Flying(r.q, x) /\ r.q.redriven[x] = 0
                                         /\ x \notin got \cup {m}
                     /\ Flying(r.q, x) => r.q.redriven[x] = 0 /\ x \notin got \cup {m}
                     /\ x \in got \cup {m} => r.q.redriven[x] = 0
                     /\ x \in Sent \ removed <=>
                          \/ Ready(r.q, x) \/ Flying(r.q, x)
                          \/ x \in got \cup {m} \/ r.q.redriven[x] > 0
          <6>1. CASE x = m
            BY <3>1, <3>3, <3>6, <4>3, <6>1 DEF Placed
          <6>2. CASE x # m
            BY <3>3, <3>6, <4>3, <6>2 DEF Placed
          <6> QED
            BY <6>1, <6>2
        <5>2. \A x, y \in r.q.inflight : x.msg = y.msg => x = y
          BY <3>0, <4>3 DEF Placed, Visited
        <5> QED
          BY <3>3, <4>3, <5>1, <5>2 DEF Placed
      <4>4. \A x \in ToSet(r.result) : /\ r.q.count[x] > 0
                                       /\ GroupOf[x] \in DOMAIN s.messages \ s.locked
        BY <2>3, <3>1, <3>2, <3>4, <4>1 DEF Work
      <4> QED
        BY <2>3, <3>0, <3>1, <4>1, <4>2, <4>3, <4>4 DEF Work, Visited
    <3> QED
      BY <2>5, <3>5, <3>6 DEF Taken
  <2> QED
    BY <1>2, <2>1, <2>2, <2>4, <2>5, VisitIs
<1> QED
  BY <1>1, <1>2

-----------------------------------------------------------------------------
(* The two loops of collectReadyLocked.                                    *)

LEMMA PassKeeps ==
    ASSUME LogInv, NEW s, NEW max \in Nat, NEW t, Work(t, s, max)
    PROVE  Work(Pass(t, max), s, max)
<1> DEFINE order == t.q.order
           N == Len(order)
           t0 == [t EXCEPT !.changed = FALSE]
           Works == {x \in WorkType : Work(x, s, max)}
<1>1. /\ N \in Nat
      /\ \A k \in 1 .. N : order[k] \in DOMAIN s.messages
  <2>1. order \in Seq(Groups) /\ ToSet(order) = DOMAIN s.messages
    BY DEF Work, Sane, Formed, QType
  <2> QED
    BY <2>1, SeqIs
<1>2. t0 \in Works
  <2>1. t0 \in WorkType /\ t0.q = t.q /\ t0.result = t.result
    BY DEF Work, WorkType
  <2> QED
    BY <2>1 DEF Work
<1>3. \A k \in 1 .. N : \A x \in Works : Visit(x, order[k], max) \in Works
  <2>1. ASSUME NEW k \in 1 .. N, NEW x \in Works
        PROVE  Visit(x, order[k], max) \in Works
    <3>1. Work(Visit(x, order[k], max), s, max)
      BY <1>1, VisitKeeps
    <3> QED
      BY <3>1 DEF Work
  <2> QED
    BY <2>1
<1> HIDE DEF Works
<1> DEFINE p[k \in 0 .. N] == IF k = 0 THEN t0 ELSE Visit(p[k - 1], order[k], max)
<1>4. p = [k \in 0 .. N |-> IF k = 0 THEN t0 ELSE Visit(p[k - 1], order[k], max)]
  <2>1. SUFFICES \E f : f = [k \in 0 .. N |->
                          IF k = 0 THEN t0 ELSE Visit(f[k - 1], order[k], max)]
    BY Zenon
  <2> DEFINE S == [k \in 0 .. N |-> Works]
             step == [k \in 1 .. N |-> [x \in Works |-> Visit(x, order[k], max)]]
  <2>2. \A k \in 1 .. N : k \in 0 .. N /\ k - 1 \in 0 .. N
    BY <1>1
  <2>3. t0 \in S[0] /\ Leads(step, S, N)
    BY <1>1, <1>2, <1>3, <2>2 DEF Leads
  <2> HIDE DEF S, step
  <2>4. PICK f : IsRun(f, N, t0, step, S)
    BY <1>1, <2>3, Iterates
  <2>5. ASSUME NEW k \in 0 .. N, k # 0
        PROVE  f[k] = Visit(f[k - 1], order[k], max)
    <3>1. k \in 1 .. N /\ k - 1 \in 0 .. N
      BY <1>1, <2>5
    <3>2. f[k - 1] \in Works
      BY <2>4, <3>1 DEF S, IsRun
    <3>3. step[k][f[k - 1]] = Visit(f[k - 1], order[k], max)
      BY <3>1, <3>2 DEF step
    <3> QED
      BY <2>4, <3>1, <3>3 DEF IsRun
  <2>6. \A k \in 0 .. N : f[k] = IF k = 0 THEN t0 ELSE Visit(f[k - 1], order[k], max)
    BY <2>4, <2>5 DEF IsRun
  <2>7. [k \in 0 .. N |-> f[k]]
          = [k \in 0 .. N |-> IF k = 0 THEN t0 ELSE Visit(f[k - 1], order[k], max)]
    BY <2>6, Zenon
  <2>8. f = [k \in 0 .. N |-> f[k]]
    BY <2>4 DEF IsRun
  <2> QED
    BY <2>7, <2>8, Zenon
<1>5. Pass(t, max) = p[N]
  BY Zenon DEF Pass
<1> HIDE DEF p, t0
<1>6. \A k \in 0 .. N : p[k] = IF k = 0 THEN t0 ELSE Visit(p[k - 1], order[k], max)
  BY <1>4
<1> DEFINE P == {k \in 0 .. N : p[k] \in Works}
<1>7. 0 \in P
  BY <1>1, <1>2, <1>6
<1>8. ASSUME NEW k \in 1 .. N, k - 1 \in P
      PROVE  k \in P
  <2>1. k \in 0 .. N /\ k # 0 /\ p[k] = Visit(p[k - 1], order[k], max)
    BY <1>1, <1>6
  <2> QED
    BY <1>3, <1>8, <2>1
<1> HIDE DEF P
<1>9. 0 .. N \subseteq P
  BY <1>1, <1>7, <1>8, UpTo
<1>10. p[N] \in Works
  BY <1>1, <1>9 DEF P
<1> QED
  BY <1>5, <1>10 DEF Works

LEMMA PassesKeeps ==
    ASSUME LogInv, NEW s, Sane(s), NEW max \in Nat
    PROVE  Work(Passes(s, max), s, max)
<1> DEFINE N == Cardinality(Messages) + 1
           t0 == [q |-> s, result |-> <<>>, changed |-> TRUE]
           Works == {x \in WorkType : Work(x, s, max)}
           Again(t) == IF t.changed /\ Len(t.result) < max THEN Pass(t, max) ELSE t
<1>1. N \in Nat
  BY FifoParametersAssumption, FS_CardinalityType
<1>2. t0 \in Works
  <2>1. t0 \in WorkType /\ t0.q = s /\ t0.result = <<>>
    BY DEF WorkType, Sane, Formed
  <2>2. Len(t0.result) = 0 /\ ToSet(t0.result) = {}
    BY <2>1, EmptyIs
  <2> QED
    BY <2>1, <2>2 DEF Work
<1>3. \A x \in Works : Again(x) \in Works
  <2>1. ASSUME NEW x \in Works PROVE Again(x) \in Works
    <3>1. Work(Pass(x, max), s, max)
      BY PassKeeps
    <3> QED
      BY <3>1 DEF Work
  <2> QED
    BY <2>1
<1> HIDE DEF Works
<1> DEFINE p[k \in 0 .. N] == IF k = 0 THEN t0 ELSE Again(p[k - 1])
<1>4. p = [k \in 0 .. N |-> IF k = 0 THEN t0 ELSE Again(p[k - 1])]
  <2>1. SUFFICES \E f : f = [k \in 0 .. N |-> IF k = 0 THEN t0 ELSE Again(f[k - 1])]
    BY Zenon
  <2> HIDE DEF Again
  <2> DEFINE S == [k \in 0 .. N |-> Works]
             step == [k \in 1 .. N |-> [x \in Works |-> Again(x)]]
  <2>2. \A k \in 1 .. N : k \in 0 .. N /\ k - 1 \in 0 .. N
    BY <1>1
  <2>3. t0 \in S[0] /\ Leads(step, S, N)
    BY <1>1, <1>2, <1>3, <2>2 DEF Leads
  <2> HIDE DEF S, step
  <2>4. PICK f : IsRun(f, N, t0, step, S)
    BY <1>1, <2>3, Iterates
  <2>5. ASSUME NEW k \in 0 .. N, k # 0
        PROVE  f[k] = Again(f[k - 1])
    <3>1. k \in 1 .. N /\ k - 1 \in 0 .. N
      BY <1>1, <2>5
    <3>2. f[k - 1] \in Works
      BY <2>4, <3>1 DEF S, IsRun
    <3>3. step[k][f[k - 1]] = Again(f[k - 1])
      BY <3>1, <3>2 DEF step
    <3> QED
      BY <2>4, <3>1, <3>3 DEF IsRun
  <2>6. \A k \in 0 .. N : f[k] = IF k = 0 THEN t0 ELSE Again(f[k - 1])
    BY <2>4, <2>5 DEF IsRun
  <2>7. [k \in 0 .. N |-> f[k]] = [k \in 0 .. N |-> IF k = 0 THEN t0 ELSE Again(f[k - 1])]
    BY <2>6, Zenon
  <2>8. f = [k \in 0 .. N |-> f[k]]
    BY <2>4 DEF IsRun
  <2> QED
    BY <2>7, <2>8, Zenon
<1>5. Passes(s, max) = p[N]
  BY Zenon DEF Passes
<1> HIDE DEF p, t0
<1>6. \A k \in 0 .. N : p[k] = IF k = 0 THEN t0 ELSE Again(p[k - 1])
  BY <1>4
<1> HIDE DEF Again
<1> DEFINE P == {k \in 0 .. N : p[k] \in Works}
<1>7. 0 \in P
  BY <1>1, <1>2, <1>6
<1>8. ASSUME NEW k \in 1 .. N, k - 1 \in P
      PROVE  k \in P
  <2>1. k \in 0 .. N /\ k # 0 /\ p[k] = Again(p[k - 1])
    BY <1>1, <1>6
  <2> QED
    BY <1>3, <1>8, <2>1
<1> HIDE DEF P
<1>9. 0 .. N \subseteq P
  BY <1>1, <1>7, <1>8, UpTo
<1>10. p[N] \in Works
  BY <1>1, <1>9 DEF P
<1> QED
  BY <1>5, <1>10 DEF Works

-----------------------------------------------------------------------------
(* The end of a receive: what was delivered goes in flight, its groups are *)
(* locked, groups not in use are dropped.                                  *)

LEMMA OnlyIs ==
    ASSUME NEW order \in Seq(Groups), NoRepeat(order), NEW kept
    PROVE  /\ Only(order, kept) \in Seq(Groups)
           /\ ToSet(Only(order, kept)) = ToSet(order) \cap kept
           /\ NoRepeat(Only(order, kept))
<1> DEFINE N == Len(order)
           seen(k) == {order[i] : i \in 1 .. k}
           Fronts(k) == {b \in Seq(Groups) : ToSet(b) = seen(k) \cap kept /\ NoRepeat(b)}
           Longer(b, k) == IF order[k] \in kept THEN Append(b, order[k]) ELSE b
<1>1. N \in Nat /\ \A k \in 1 .. N : order[k] \in Groups
  OBVIOUS
<1>2. <<>> \in Fronts(0)
  <2>1. seen(0) = {}
    OBVIOUS
  <2> QED
    BY <2>1, EmptyIs
<1>3. ASSUME NEW k \in 1 .. N, NEW b \in Fronts(k - 1)
      PROVE  Longer(b, k) \in Fronts(k)
  <2>1. seen(k) = seen(k - 1) \cup {order[k]}
    <3>1. \A i \in 1 .. k : i \in 1 .. k - 1 \/ i = k
      OBVIOUS
    <3> QED
      BY <3>1
  <2>2. order[k] \notin seen(k - 1)
    BY <1>1 DEF NoRepeat
  <2>3. CASE order[k] \in kept
    <3>1. PICK c : c = Append(b, order[k])
      OBVIOUS
    <3>2. /\ c \in Seq(Groups) /\ ToSet(c) = ToSet(b) \cup {order[k]} /\ NoRepeat(c)
      BY <1>1, <2>2, <3>1, AppendIs
    <3>3. ToSet(c) = seen(k) \cap kept
      BY <2>1, <2>3, <3>2
    <3> QED
      BY <2>3, <3>1, <3>2, <3>3
  <2>4. CASE order[k] \notin kept
    BY <2>1, <2>4
  <2> QED
    BY <2>3, <2>4
<1> HIDE DEF Fronts
<1> DEFINE f[k \in 0 .. N] == IF k = 0 THEN <<>> ELSE Longer(f[k - 1], k)
<1>4. f = [k \in 0 .. N |-> IF k = 0 THEN <<>> ELSE Longer(f[k - 1], k)]
  <2>1. SUFFICES \E r : r = [k \in 0 .. N |-> IF k = 0 THEN <<>> ELSE Longer(r[k - 1], k)]
    BY Zenon
  <2> HIDE DEF Longer
  <2> DEFINE S == [k \in 0 .. N |-> Fronts(k)]
             step == [k \in 1 .. N |-> [b \in Fronts(k - 1) |-> Longer(b, k)]]
  <2>2. \A k \in 1 .. N : k \in 0 .. N /\ k - 1 \in 0 .. N
    BY <1>1
  <2>3. <<>> \in S[0] /\ Leads(step, S, N)
    BY <1>1, <1>2, <1>3, <2>2 DEF Leads
  <2> HIDE DEF S, step
  <2>4. PICK r : IsRun(r, N, <<>>, step, S)
    BY <1>1, <2>3, Iterates
  <2>5. ASSUME NEW k \in 0 .. N, k # 0
        PROVE  r[k] = Longer(r[k - 1], k)
    <3>1. k \in 1 .. N /\ k - 1 \in 0 .. N
      BY <1>1, <2>5
    <3>2. r[k - 1] \in Fronts(k - 1)
      BY <2>4, <3>1 DEF S, IsRun
    <3>3. step[k][r[k - 1]] = Longer(r[k - 1], k)
      BY <3>1, <3>2 DEF step
    <3> QED
      BY <2>4, <3>1, <3>3 DEF IsRun
  <2>6. \A k \in 0 .. N : r[k] = IF k = 0 THEN <<>> ELSE Longer(r[k - 1], k)
    BY <2>4, <2>5 DEF IsRun
  <2>7. [k \in 0 .. N |-> r[k]] = [k \in 0 .. N |-> IF k = 0 THEN <<>> ELSE Longer(r[k - 1], k)]
    BY <2>6, Zenon
  <2>8. r = [k \in 0 .. N |-> r[k]]
    BY <2>4 DEF IsRun
  <2> QED
    BY <2>7, <2>8, Zenon
<1>5. Only(order, kept) = f[N]
  BY Zenon DEF Only
<1> HIDE DEF f
<1>6. \A k \in 0 .. N : f[k] = IF k = 0 THEN <<>> ELSE Longer(f[k - 1], k)
  BY <1>4
<1> HIDE DEF Longer
<1> DEFINE P == {k \in 0 .. N : f[k] \in Fronts(k)}
<1>7. 0 \in P
  BY <1>1, <1>2, <1>6
<1>8. ASSUME NEW k \in 1 .. N, k - 1 \in P
      PROVE  k \in P
  <2>1. k \in 0 .. N /\ k # 0 /\ f[k] = Longer(f[k - 1], k)
    BY <1>1, <1>6
  <2> QED
    BY <1>3, <1>8, <2>1
<1> HIDE DEF P
<1>9. 0 .. N \subseteq P
  BY <1>1, <1>7, <1>8, UpTo
<1>10. f[N] \in Fronts(N)
  BY <1>1, <1>9 DEF P
<1>11. seen(N) = ToSet(order)
  BY <1>1 DEF ToSet
<1> QED
  BY <1>5, <1>10, <1>11 DEF Fronts

LEMMA CleanKeeps ==
    ASSUME NEW s, Formed(s), NEW r, r = CleanGroups(s)
    PROVE  /\ Keeps(r, s)
           /\ r.inflight = s.inflight /\ r.heap = s.heap
<1>1. PICK kept, m, o :
        kept = InUse(s) /\ m = [g \in kept |-> s.messages[g]] /\ o = Only(s.order, kept)
  OBVIOUS
<1>2. kept \subseteq DOMAIN s.messages /\ s.locked \subseteq kept /\ kept \subseteq Groups
  BY <1>1, BufferIs DEF InUse, Formed
<1>3. m \in BufferTypes
  <2>1. \A g \in kept : s.messages[g] \in Seq(Messages)
    BY <1>2, BufferIs DEF Formed
  <2>2. m \in [kept -> Seq(Messages)]
    BY <1>1, <2>1
  <2> QED
    BY <1>2, <2>2 DEF BufferTypes
<1>4. o \in Seq(Groups) /\ ToSet(o) = kept /\ NoRepeat(o)
  <2>1. s.order \in Seq(Groups) /\ NoRepeat(s.order) /\ ToSet(s.order) = DOMAIN s.messages
    BY DEF Formed, QType
  <2>2. /\ Only(s.order, kept) \in Seq(Groups) /\ NoRepeat(Only(s.order, kept))
        /\ ToSet(Only(s.order, kept)) = ToSet(s.order) \cap kept
    BY <2>1, OnlyIs
  <2> QED
    BY <1>1, <1>2, <2>1, <2>2
<1>5. r = [s EXCEPT !.messages = m, !.order = o]
  BY <1>1 DEF CleanGroups
<1>6. /\ r \in QType /\ r.messages = m /\ r.order = o /\ r.locked = s.locked
      /\ r.inflight = s.inflight /\ r.heap = s.heap /\ r.count = s.count
      /\ r.redriven = s.redriven
  BY <1>3, <1>4, <1>5 DEF Formed, QType
<1>7. \A g : Buffer(r, g) = Buffer(s, g)
  <2>1. ASSUME NEW g PROVE Buffer(r, g) = Buffer(s, g)
    <3>1. CASE g \in kept
      BY <1>1, <1>2, <1>6, <3>1 DEF Buffer
    <3>2. CASE g \notin kept
      BY <1>1, <1>6, <3>2 DEF Buffer, InUse
    <3> QED
      BY <3>1, <3>2
  <2> QED
    BY <2>1
<1>8. Formed(r)
  BY <1>1, <1>2, <1>4, <1>6, <1>7 DEF Formed
<1>9. \A x : (Ready(r, x) <=> Ready(s, x)) /\ (Flying(r, x) <=> Flying(s, x))
  BY <1>6, <1>7 DEF Ready, Flying
<1>10. (Known(s) => Known(r)) /\ (InTurn(s) => InTurn(r)) /\ (Held(s) => Held(r))
  BY <1>6, <1>7, <1>9 DEF Known, InTurn, Held
<1>11. Placed(s, {}) => Placed(r, {})
  BY <1>6, <1>7, <1>9 DEF Placed
<1> QED
  BY <1>6, <1>8, <1>10, <1>11 DEF Keeps

LEMMA CollectKeeps ==
    ASSUME LogInv, NEW s, Sane(s), NEW max \in Nat, NEW vis \in Nat,
           NEW r, r = Collect(s, max, vis)
    PROVE  /\ Sane(r)
           /\ Scheduled(s) => Scheduled(r)
           /\ Placed(s, {}) => Placed(r, {})
           /\ Placed(s, {}) /\ Held(s) /\ max = 1 => Held(r)
<1>1. PICK t, got, issued, touched :
        /\ t = Passes(s, max) /\ got = ToSet(t.result)
        /\ issued = {Handle(m, t.q.count[m]) : m \in got}
        /\ touched = {GroupOf[m] : m \in got}
  OBVIOUS
<1>2. PICK i, e, l : /\ i = t.q.inflight \cup issued
                     /\ e = t.q.heap \cup {Entry(h, vis) : h \in issued}
                     /\ l = t.q.locked \cup touched
  OBVIOUS
<1>3. PICK d : d = LockGroups([t.q EXCEPT !.inflight = i, !.heap = e], touched)
  OBVIOUS
<1>4. r = CleanGroups(d)
  BY <1>1, <1>2, <1>3, Zenon DEF Collect
<1>5. Work(t, s, max)
  BY <1>1, PassesKeeps
<1>6. /\ t.q \in QType /\ Sane(t.q) /\ t.result \in Seq(Messages)
      /\ got \subseteq Messages /\ IsFiniteSet(got)
  <2>1. t.q \in QType /\ Sane(t.q) /\ t.result \in Seq(Messages)
    BY <1>5 DEF Work, WorkType
  <2>2. got \subseteq Messages
    BY <1>1, <2>1, SeqIs
  <2> QED
    BY <2>1, <2>2, FS_Subset, FifoParametersAssumption
<1>7. \A m \in got : /\ t.q.count[m] \in Nat \ {0}
                     /\ Handle(m, t.q.count[m]) \in HandleType
                     /\ GroupOf[m] \in DOMAIN t.q.messages /\ GroupOf[m] \notin t.q.locked
                     /\ GroupOf[m] \in Groups
  <2>1. ASSUME NEW m \in got
        PROVE  t.q.count[m] \in Nat \ {0} /\ Handle(m, t.q.count[m]) \in HandleType
    <3>1. t.q.count[m] \in Nat /\ t.q.count[m] > 0 /\ m \in Messages
      BY <1>1, <1>5, <1>6 DEF Work, QType
    <3> QED
      BY <3>1 DEF Handle, HandleType
  <2>2. \A m \in got : GroupOf[m] \in DOMAIN t.q.messages /\ GroupOf[m] \notin t.q.locked
    BY <1>1, <1>5 DEF Work
  <2>3. \A m \in got : GroupOf[m] \in Groups
    BY <1>6, FifoParametersAssumption
  <2> QED
    BY <2>1, <2>2, <2>3
<1>8. issued \subseteq HandleType /\ IsFiniteSet(issued)
  <2>1. issued \subseteq HandleType
    BY <1>1, <1>7
  <2>2. IsFiniteSet(issued)
    <3>1. PICK f : f = [m \in got |-> Handle(m, t.q.count[m])]
      OBVIOUS
    <3>2. f \in Surjection(got, issued)
      BY <1>1, <3>1 DEF Surjection
    <3> QED
      BY <1>6, <3>2, FS_Surjection
  <2> QED
    BY <2>1, <2>2
<1>9. \A h \in issued : /\ h.msg \in got /\ h.n = t.q.count[h.msg]
                        /\ h = Handle(h.msg, t.q.count[h.msg])
  BY <1>1 DEF Handle
<1>10. e \subseteq EntryType /\ \A h \in i : h \in t.q.inflight \/ \E x \in e : x.value = h
  <2>1. \A h \in issued : Entry(h, vis) \in EntryType /\ Entry(h, vis).value = h
    BY <1>8 DEF Entry, EntryType
  <2>2. t.q.heap \subseteq EntryType
    BY <1>6 DEF QType
  <2> QED
    BY <1>2, <2>1, <2>2
<1>11. /\ d \in QType /\ d.inflight = i /\ d.heap = e /\ d.locked = l
       /\ d.messages = t.q.messages /\ d.order = t.q.order
       /\ d.count = t.q.count /\ d.redriven = t.q.redriven
  <2>1. PICK b : b = [t.q EXCEPT !.inflight = i, !.heap = e]
    OBVIOUS
  <2>2. i \subseteq HandleType
    BY <1>2, <1>6, <1>8 DEF QType
  <2>3. /\ b \in QType /\ b.inflight = i /\ b.heap = e /\ b.locked = t.q.locked
        /\ b.messages = t.q.messages /\ b.order = t.q.order
        /\ b.count = t.q.count /\ b.redriven = t.q.redriven
    BY <1>6, <1>10, <2>1, <2>2 DEF QType
  <2>4. l \subseteq Groups
    BY <1>1, <1>2, <1>6, <1>7 DEF QType
  <2>5. d = [b EXCEPT !.locked = l]
    BY <1>2, <1>3, <2>1, <2>3 DEF LockGroups
  <2> QED
    BY <2>3, <2>4, <2>5 DEF QType
<1>12. \A g : Buffer(d, g) = Buffer(t.q, g)
  BY <1>11, SameBuffers
<1>13. \A m : Ready(d, m) <=> Ready(t.q, m)
  BY <1>12 DEF Ready
<1>14. Formed(d)
  <2>1. IsFiniteSet(d.inflight)
    <3>1. IsFiniteSet(t.q.inflight) /\ d.inflight = t.q.inflight \cup issued
      BY <1>2, <1>6, <1>11 DEF Sane, Formed
    <3> QED
      BY <1>8, <3>1, FS_Union
  <2>2. d.locked \subseteq DOMAIN d.messages
    BY <1>1, <1>2, <1>6, <1>7, <1>11 DEF Sane, Formed
  <2>3. \A h \in d.inflight : 1 <= h.n /\ h.n <= d.count[h.msg]
    <3>1. \A h \in issued : 1 <= h.n /\ h.n <= t.q.count[h.msg]
      BY <1>7, <1>9
    <3> QED
      BY <1>2, <1>6, <1>11, <3>1 DEF Sane, Formed
  <2> QED
    BY <1>6, <1>11, <1>12, <2>1, <2>2, <2>3 DEF Sane, Formed
<1>15. Known(d) /\ InTurn(d)
  BY <1>6, <1>11, <1>12, <1>13 DEF Sane, Known, InTurn
<1>16. Keeps(r, d) /\ r.inflight = d.inflight /\ r.heap = d.heap
  BY <1>4, <1>14, CleanKeeps
<1>17. Sane(r)
  BY <1>15, <1>16 DEF Sane, Keeps
<1>18. ASSUME Scheduled(s)
       PROVE  Scheduled(r)
  BY <1>2, <1>5, <1>10, <1>11, <1>16, <1>18 DEF Scheduled, Work
<1>19. ASSUME Placed(s, {})
       PROVE  Placed(r, {})
  <2>1. Placed(t.q, got)
    BY <1>1, <1>5, <1>19 DEF Work
  <2>2. \A m : Flying(d, m) <=> Flying(t.q, m) \/ m \in got
    <3>1. \A m \in got : Handle(m, t.q.count[m]) \in issued
                         /\ Handle(m, t.q.count[m]).msg = m
      BY <1>1 DEF Handle
    <3> QED
      BY <1>2, <1>9, <1>11, <3>1 DEF Flying
  <2>3. ASSUME NEW x \in d.inflight, NEW y \in d.inflight, x.msg = y.msg
        PROVE  x = y
    <3>1. \A z \in t.q.inflight : z.msg \notin got
      <4>1. \A z \in t.q.inflight : z.msg \in Messages /\ Flying(t.q, z.msg)
        BY <1>6, FlyingIs DEF Sane
      <4> QED
        BY <2>1, <4>1 DEF Placed
    <3>2. \A z, w \in t.q.inflight : z.msg = w.msg => z = w
      BY <2>1 DEF Placed
    <3> QED
      BY <1>2, <1>9, <1>11, <2>3, <3>1, <3>2
  <2>4. Placed(d, {})
    BY <1>6, <1>11, <1>12, <1>13, <2>1, <2>2, <2>3 DEF Placed
  <2> QED
    BY <1>16, <2>4 DEF Keeps
<1>20. ASSUME Placed(s, {}), Held(s), max = 1
       PROVE  Held(r)
  <2>1. \A x, y \in got : x = y
    <3>1. Len(t.result) <= 1 /\ Len(t.result) \in Nat
      BY <1>5, <1>6, <1>20 DEF Work
    <3>2. \A j \in 1 .. Len(t.result) : j = 1
      BY <3>1
    <3> QED
      BY <1>1, <1>6, <3>2, SeqIs
  <2>2. \A h \in t.q.inflight : GroupOf[h.msg] \in t.q.locked
    BY <1>5, <1>20 DEF Held, Work
  <2>3. \A g, h \in t.q.inflight : GroupOf[g.msg] = GroupOf[h.msg] => g = h
    BY <1>5, <1>20 DEF Held, Work
  <2>4. \A h \in issued : GroupOf[h.msg] \in touched /\ GroupOf[h.msg] \notin t.q.locked
    BY <1>1, <1>7, <1>9
  <2>5. \A g, h \in issued : g = h
    BY <1>9, <2>1
  <2>6. Held(d)
    BY <1>2, <1>11, <2>2, <2>3, <2>4, <2>5 DEF Held
  <2> QED
    BY <1>16, <2>6 DEF Keeps
<1> QED
  BY <1>17, <1>18, <1>19, <1>20

-----------------------------------------------------------------------------
(* The history of sends.                                                   *)

LEMMA LogSend ==
    ASSUME LogInv, delay \in [Messages -> Nat],
           NEW m \in Messages, m \notin Sent, NEW t \in Nat,
           log' = [log EXCEPT ![GroupOf[m]] = Append(@, LogEntry(m, t))],
           delay' = [delay EXCEPT ![m] = t]
    PROVE  /\ LogInv'
           /\ Sent' = Sent \cup {m}
           /\ \A e, l : Precedes(e, l)' =>
                 \/ Precedes(e, l)
                 \/ l = m /\ e \in Sent /\ GroupOf[e] = GroupOf[m]
<1>1. PICK g, x : g = GroupOf[m] /\ x = LogEntry(m, t)
  OBVIOUS
<1>2. g \in Groups /\ x \in LogEntries /\ x.msg = m /\ x.delay = t
  <2>1. Window \in Nat /\ g \in Groups
    BY <1>1, FifoParametersAssumption
  <2> QED
    BY <1>1, <2>1 DEF LogEntry, LogEntries
<1>3. /\ \A h \in Groups : log[h] \in Seq(LogEntries) /\ Len(log[h]) \in Nat
      /\ log \in [Groups -> Seq(LogEntries)]
  BY DEF LogInv
<1>4. log'[g] = Append(log[g], x) /\ \A h \in Groups : h # g => log'[h] = log[h]
  BY <1>1, <1>2, <1>3
<1>5. /\ log'[g] \in Seq(LogEntries) /\ Len(log'[g]) = Len(log[g]) + 1
      /\ \A i \in 1 .. Len(log[g]) : log'[g][i] = log[g][i]
      /\ log'[g][Len(log[g]) + 1] = x
  BY <1>2, <1>3, <1>4, AppendIs
<1>6. log' \in [Groups -> Seq(LogEntries)]
  BY <1>1, <1>2, <1>3
<1>7. ASSUME NEW h \in Groups, NEW i \in 1 .. Len(log'[h])
      PROVE  \/ i \in 1 .. Len(log[h]) /\ log'[h][i] = log[h][i]
             \/ h = g /\ i = Len(log[g]) + 1 /\ log'[h][i] = x
  <2>1. CASE h = g
    BY <1>3, <1>5, <2>1
  <2>2. CASE h # g
    BY <1>4, <2>2
  <2> QED
    BY <2>1, <2>2
<1>8. \A h \in Groups : \A i \in 1 .. Len(log[h]) :
         i \in 1 .. Len(log'[h]) /\ log'[h][i] = log[h][i] /\ log[h][i].msg # m
         /\ log[h][i].msg \in Sent
  <2>1. \A h \in Groups : \A i \in 1 .. Len(log[h]) :
           log[h][i].msg # m /\ log[h][i].msg \in Sent
    BY SentIs
  <2>2. ASSUME NEW h \in Groups, NEW i \in 1 .. Len(log[h])
        PROVE  i \in 1 .. Len(log'[h]) /\ log'[h][i] = log[h][i]
    <3>1. CASE h = g
      BY <1>3, <1>5, <3>1
    <3>2. CASE h # g
      BY <1>4, <3>2
    <3> QED
      BY <3>1, <3>2
  <2> QED
    BY <2>1, <2>2
<1>9. LogInv'
  <2>1. ASSUME NEW h \in Groups, NEW i \in 1 .. Len(log'[h])
        PROVE  /\ GroupOf[log'[h][i].msg] = h
               /\ log'[h][i].delay = 0 => delay'[log'[h][i].msg] = 0
    <3>1. CASE i \in 1 .. Len(log[h]) /\ log'[h][i] = log[h][i]
      <4>1. log[h][i].msg # m /\ log[h][i].msg \in Messages
        BY <1>8, <3>1, SentIs
      <4>2. delay'[log[h][i].msg] = delay[log[h][i].msg]
        BY <4>1
      <4> QED
        BY <3>1, <4>2 DEF LogInv
    <3>2. CASE h = g /\ log'[h][i] = x
      BY <1>1, <1>2, <3>2
    <3> QED
      BY <1>7, <3>1, <3>2
  <2>2. ASSUME NEW h \in Groups, NEW i \in 1 .. Len(log'[h]), NEW j \in 1 .. Len(log'[h]),
               log'[h][i].msg = log'[h][j].msg
        PROVE  i = j
    <3>1. CASE i \in 1 .. Len(log[h]) /\ log'[h][i] = log[h][i]
      <4>1. log'[h][j].msg # m
        BY <1>8, <2>2, <3>1
      <4>2. j \in 1 .. Len(log[h]) /\ log'[h][j] = log[h][j]
        BY <1>2, <1>7, <4>1
      <4> QED
        BY <2>2, <3>1, <4>2 DEF LogInv
    <3>2. CASE h = g /\ i = Len(log[g]) + 1 /\ log'[h][i] = x
      <4>1. log'[h][j].msg = m
        BY <1>2, <2>2, <3>2
      <4> QED
        BY <1>7, <1>8, <3>2, <4>1
    <3> QED
      BY <1>7, <3>1, <3>2
  <2> QED
    BY <1>6, <2>1, <2>2 DEF LogInv
<1>10. Sent' = Sent \cup {m}
  <2>1. \A y : y \in Sent' <=>
           \E h \in Groups : \E i \in 1 .. Len(log'[h]) : log'[h][i].msg = y
    <3>1. Sent' = SentIn(log')
      BY DEF Sent, Sends, SentIn
    <3> QED
      BY <1>6, <3>1, SentOf
  <2>2. Sent' \subseteq Sent \cup {m}
    BY <1>2, <1>7, <1>8, <2>1
  <2>3. Sent \subseteq Sent'
    BY <1>8, <2>1, SentIs
  <2>4. m \in Sent'
    BY <1>2, <1>3, <1>5, <2>1
  <2> QED
    BY <2>2, <2>3, <2>4
<1>11. ASSUME NEW e, NEW l, Precedes(e, l)'
       PROVE  Precedes(e, l) \/ (l = m /\ e \in Sent /\ GroupOf[e] = GroupOf[m])
  <2>1. PICK h \in Groups : \E i, j \in 1 .. Len(log'[h]) :
          i < j /\ log'[h][i].delay = 0 /\ log'[h][i].msg = e /\ log'[h][j].msg = l
    BY <1>11 DEF Precedes
  <2>2. PICK i, j \in 1 .. Len(log'[h]) :
          i < j /\ log'[h][i].delay = 0 /\ log'[h][i].msg = e /\ log'[h][j].msg = l
    BY <2>1
  <2>3. i \in 1 .. Len(log[h]) /\ log'[h][i] = log[h][i]
    <3>1. CASE h = g
      BY <1>3, <1>5, <2>2, <3>1
    <3>2. CASE h # g
      BY <1>4, <3>2
    <3> QED
      BY <3>1, <3>2
  <2>4. e \in Sent /\ GroupOf[e] = h
    BY <1>8, <2>2, <2>3 DEF LogInv
  <2>5. CASE j \in 1 .. Len(log[h]) /\ log'[h][j] = log[h][j]
    BY <2>2, <2>3, <2>5 DEF Precedes
  <2>6. CASE h = g /\ log'[h][j] = x
    BY <1>1, <1>2, <2>2, <2>4, <2>6
  <2> QED
    BY <1>7, <2>5, <2>6
<1> QED
  BY <1>9, <1>10, <1>11

(* A tick changes the ages only. *)
LEMMA LogTick ==
    ASSUME LogInv, delay \in [Messages -> Nat],
           delay' = [m \in Messages |-> Elapse(delay[m])],
           log' = [g \in Groups |-> [i \in 1 .. Len(log[g]) |->
                     [log[g][i] EXCEPT !.age = IF @ < Window THEN @ + 1 ELSE @]]]
    PROVE  /\ LogInv'
           /\ Sent' = Sent
           /\ \A e, l : Precedes(e, l)' => Precedes(e, l)
           /\ \A g \in Groups : Len(log'[g]) = Len(log[g])
           /\ \A g \in Groups : \A i \in 1 .. Len(log[g]) :
                 /\ log'[g][i].msg = log[g][i].msg
                 /\ log'[g][i].age = IF log[g][i].age < Window THEN log[g][i].age + 1
                                     ELSE log[g][i].age
<1>1. Window \in Nat
  BY FifoParametersAssumption
<1>2. /\ \A g \in Groups : log[g] \in Seq(LogEntries) /\ Len(log[g]) \in Nat
      /\ \A g \in Groups : \A i \in 1 .. Len(log[g]) : log[g][i] \in LogEntries
  BY DEF LogInv
<1>3. ASSUME NEW g \in Groups
      PROVE  /\ log'[g] \in Seq(LogEntries) /\ Len(log'[g]) = Len(log[g])
             /\ \A i \in 1 .. Len(log[g]) :
                   /\ log'[g][i].msg = log[g][i].msg /\ log'[g][i].delay = log[g][i].delay
                   /\ log'[g][i].age = IF log[g][i].age < Window THEN log[g][i].age + 1
                                       ELSE log[g][i].age
  <2>1. log'[g] = [i \in 1 .. Len(log[g]) |->
                     [log[g][i] EXCEPT !.age = IF @ < Window THEN @ + 1 ELSE @]]
    OBVIOUS
  <2>2. ASSUME NEW e \in LogEntries, NEW f, f = [e EXCEPT !.age = IF @ < Window THEN @ + 1 ELSE @]
        PROVE  /\ f \in LogEntries /\ f.msg = e.msg /\ f.delay = e.delay
               /\ f.age = IF e.age < Window THEN e.age + 1 ELSE e.age
    BY <1>1, <2>2 DEF LogEntries
  <2>3. \A i \in 1 .. Len(log[g]) :
           /\ log'[g][i] \in LogEntries
           /\ log'[g][i].msg = log[g][i].msg /\ log'[g][i].delay = log[g][i].delay
           /\ log'[g][i].age = IF log[g][i].age < Window THEN log[g][i].age + 1
                               ELSE log[g][i].age
    BY <1>2, <2>1, <2>2
  <2>4. log'[g] \in [1 .. Len(log[g]) -> LogEntries]
    BY <2>1, <2>3
  <2>5. log'[g] \in Seq(LogEntries) /\ Len(log'[g]) = Len(log[g])
    BY <1>2, <2>4
  <2> QED
    BY <2>3, <2>5
<1>4. log' \in [Groups -> Seq(LogEntries)]
  BY <1>3
<1>5. \A m \in Messages : delay[m] = 0 => delay'[m] = 0
  BY DEF Elapse
<1>6. LogInv'
  <2>1. ASSUME NEW g \in Groups, NEW i \in 1 .. Len(log'[g])
        PROVE  /\ GroupOf[log'[g][i].msg] = g
               /\ log'[g][i].delay = 0 => delay'[log'[g][i].msg] = 0
    <3>1. log[g][i].msg \in Messages
      BY <1>2, <1>3 DEF LogEntries
    <3> QED
      BY <1>3, <1>5, <3>1 DEF LogInv
  <2>2. \A g \in Groups : \A i, j \in 1 .. Len(log'[g]) :
           log'[g][i].msg = log'[g][j].msg => i = j
    BY <1>3 DEF LogInv
  <2> QED
    BY <1>4, <2>1, <2>2 DEF LogInv
<1>7. Sent' = Sent
  <2>1. \A y : y \in Sent' <=>
           \E h \in Groups : \E i \in 1 .. Len(log'[h]) : log'[h][i].msg = y
    <3>1. Sent' = SentIn(log')
      BY DEF Sent, Sends, SentIn
    <3> QED
      <4>1. \A m : m \in SentIn(log') <=>
               \E g \in Groups : \E i \in 1 .. Len(log'[g]) : log'[g][i].msg = m
        BY <1>4, SentOf, Zenon
      <4> QED
        BY <3>1, <4>1, Zenon
  <2>2. \A y : y \in Sent <=>
           \E h \in Groups : \E i \in 1 .. Len(log[h]) : log[h][i].msg = y
    BY SentIs
  <2>3. \A y : y \in Sent' <=> y \in Sent
    BY <1>3, <2>1, <2>2
  <2> QED
    BY <2>3
<1>8. \A e, l : Precedes(e, l)' => Precedes(e, l)
  BY <1>3 DEF Precedes
<1> QED
  BY <1>3, <1>6, <1>7, <1>8

-----------------------------------------------------------------------------
(* The inductive invariant.                                                *)

CallType == [state : {"idle", "parked", "signalled"}, left : Nat, max : Nat, vis : Nat]

FieldsOK ==
    /\ delay \in [Messages -> Nat]
    /\ dedup \in [DedupIds -> 0 .. Window]
    /\ dlqMax \in Policies \cup {0}
    /\ visTimer \in Nat \cup {Off}
    /\ bg \in {"select", "vis", "exited"}
    /\ closed \in BOOLEAN
    /\ call \in [Consumers -> CallType]
    /\ \A c \in Consumers : call[c].state # "idle" =>
          call[c].max \in Batches /\ call[c].vis \in Timeouts

(* An id stays in the cache until the window of its last send has passed. *)
DedupCovers ==
    \A g \in Groups : \A i \in 1 .. Len(log[g]) : \A d \in DedupOf[log[g][i].msg] :
       dedup[d] + log[g][i].age >= Window

Armed == q.heap # {} /\ bg = "select" =>
            visTimer # Off /\ \A e \in q.heap : visTimer <= e.left

(* Placed and Held hold only where a receive asks for one message. *)
QueueInv ==
    /\ LogInv /\ removed \subseteq Sent
    /\ Sane(q) /\ Scheduled(q)
    /\ Single => Placed(q, {}) /\ Held(q)

FifoInv == FieldsOK /\ DedupCovers /\ Armed /\ QueueInv

LEMMA SaneFrame ==
    ASSUME Sent' = Sent, \A e, l : Precedes(e, l)' => Precedes(e, l),
           removed \subseteq removed', Sane(q')
    PROVE  Sane(q)'
<1>1. Formed(q)'
  BY DEF Sane, Formed, QType, BufferTypes, HandleType, EntryType, Buffer, NoRepeat
<1>2. Known(q)'
  BY DEF Sane, Known, Ready, Buffer
<1>3. InTurn(q)'
  <2>1. \A m \in Sent' \ removed' : q'.count[m] = 0 => Ready(q', m)
    BY DEF Sane, InTurn
  <2>2. \A e, l : Precedes(e, l)' /\ q'.count[e] = 0 /\ e \notin removed' =>
           q'.count[l] = 0 /\ Ahead(Buffer(q', GroupOf[e]), e, l)
    BY DEF Sane, InTurn
  <2> QED
    BY <2>1, <2>2 DEF InTurn, Ready, Buffer, Ahead
<1> QED
  BY <1>1, <1>2, <1>3 DEF Sane

LEMMA PlacedFrame ==
    ASSUME Sent' \ removed' = Sent \ removed, Placed(q', {})
    PROVE  Placed(q, {})'
<1>1. \A m \in Messages : m \in Sent' \ removed' <=> m \in Sent \ removed
  OBVIOUS
<1> QED
  BY <1>1 DEF Placed, Ready, Flying, Buffer, NoRepeat

(* A step that neither sends nor removes. *)
LEMMA QueueFrame ==
    ASSUME QueueInv, LogInv', Sent' = Sent, removed' = removed,
           \A e, l : Precedes(e, l)' => Precedes(e, l),
           Sane(q'), Scheduled(q'), Single => Placed(q', {}) /\ Held(q')
    PROVE  QueueInv'
<1>1. Sane(q)'
  BY SaneFrame
<1>2. Scheduled(q)'
  BY DEF Scheduled
<1>3. Single => Placed(q, {})' /\ Held(q)'
  BY PlacedFrame DEF Held
<1> QED
  BY <1>1, <1>2, <1>3 DEF QueueInv, Single

LEMMA SameLog ==
    ASSUME LogInv, log' = log, delay' = delay
    PROVE  LogInv' /\ Sent' = Sent /\ \A e, l : Precedes(e, l)' => Precedes(e, l)
BY DEF LogInv, Sent, Sends, Precedes

LEMMA ResetTimerIs ==
    ASSUME NEW heap \in SUBSET EntryType, NEW x \in ResetTimer(heap)
    PROVE  /\ x \in Nat \cup {Off}
           /\ heap # {} => x # Off /\ \A e \in heap : x <= e.left
<1>1. CASE heap = {}
  BY <1>1 DEF ResetTimer
<1>2. CASE heap # {}
  <2>1. PICK e \in heap : x = e.left /\ \A g \in heap : e.left <= g.left
    BY <1>2 DEF ResetTimer
  <2>2. e.left \in Nat
    BY DEF EntryType
  <2> QED
    BY <2>1, <2>2 DEF Off
<1> QED
  BY <1>1, <1>2

LEMMA RefillKeeps ==
    ASSUME QueueInv, NEW max \in Batches, NEW vis \in Timeouts, Refill(max, vis)
    PROVE  QueueInv' /\ visTimer' \in Nat \cup {Off} /\ Armed'
<1>1. max \in Nat /\ vis \in Nat /\ (Single => max = 1)
  BY FifoParametersAssumption DEF Single
<1>2. PICK order \in Orders(Expired(q)) : q' = Collect(Reclaim(q, order), max, vis)
  BY DEF Refill
<1>3. PICK s : s = Reclaim(q, order)
  OBVIOUS
<1>4. LogInv /\ Formed(q) /\ Known(q) /\ InTurn(q) /\ Scheduled(q)
      /\ (Single => Placed(q, {}) /\ Held(q))
  BY DEF QueueInv, Sane
<1>5. Sane(s) /\ Scheduled(s) /\ (Single => Placed(s, {}) /\ Held(s))
  BY <1>3, <1>4, ReclaimKeeps DEF Keeps, Sane
<1>6. /\ Sane(q') /\ Scheduled(q')
      /\ Single => Placed(q', {}) /\ Held(q')
  <2>1. q' = Collect(s, max, vis)
    BY <1>2, <1>3
  <2> QED
    BY <1>1, <1>4, <1>5, <2>1, CollectKeeps
<1>7. QueueInv'
  <2>1. log' = log /\ delay' = delay /\ removed' = removed
    BY DEF Refill
  <2> QED
    BY <1>4, <1>6, <2>1, SameLog, QueueFrame
<1>8. q'.heap \in SUBSET EntryType /\ visTimer' \in ResetTimer(q'.heap)
  BY <1>6 DEF Refill, Sane, Formed, QType
<1>9. visTimer' \in Nat \cup {Off} /\ Armed'
  BY <1>8, ResetTimerIs DEF Armed
<1> QED
  BY <1>7, <1>9

-----------------------------------------------------------------------------
(* The actions.                                                            *)

CallsOK(calls) ==
    /\ calls \in [Consumers -> CallType]
    /\ \A c \in Consumers : calls[c].state # "idle" =>
          calls[c].max \in Batches /\ calls[c].vis \in Timeouts

LEMMA SignalKeeps ==
    ASSUME NEW calls, CallsOK(calls)
    PROVE  CallsOK(SignalWaiters(calls))
<1>1. ASSUME NEW c \in Consumers
      PROVE  LET x == SignalWaiters(calls)[c]
             IN  /\ x \in CallType
                 /\ x.state # "idle" => x.max \in Batches /\ x.vis \in Timeouts
  <2>1. calls[c] \in CallType
    BY DEF CallsOK
  <2>2. SignalWaiters(calls)[c]
          = IF calls[c].state = "parked" /\ calls[c].left > 0
            THEN [calls[c] EXCEPT !.state = "signalled"] ELSE calls[c]
    BY DEF SignalWaiters
  <2> QED
    BY <2>1, <2>2 DEF CallsOK, CallType
<1>2. SignalWaiters(calls) \in [Consumers -> CallType]
  BY <1>1 DEF SignalWaiters
<1> QED
  BY <1>1, <1>2 DEF CallsOK

LEMMA SendKeeps ==
    ASSUME FifoInv, NEW m \in Messages, NEW t \in DelaysOf[m], Send(m, t)
    PROVE  FifoInv'
<1>1. t \in Nat /\ Window \in Nat /\ DedupOf[m] \subseteq DedupIds
  BY FifoParametersAssumption
<1>2. m \notin Sent /\ LogInv /\ Sane(q) /\ delay \in [Messages -> Nat]
  BY DEF Send, FifoInv, QueueInv, FieldsOK
<1>3. /\ LogInv' /\ Sent' = Sent \cup {m}
      /\ \A e, l : Precedes(e, l)' =>
            \/ Precedes(e, l)
            \/ l = m /\ e \in Sent /\ GroupOf[e] = GroupOf[m]
  BY <1>1, <1>2, LogSend DEF Send
<1>4. q.count[m] = 0 /\ ~ Ready(q, m) /\ m \notin removed /\ GroupOf[m] \in Groups
  <2>1. q.count[m] \in Nat
    BY <1>2 DEF Sane, Formed, QType
  <2> QED
    BY <1>2, <2>1, FifoParametersAssumption
    DEF Sane, Known, FifoInv, QueueInv
<1>5. /\ Pushed(q', q, m)
      /\ q'.locked = q.locked /\ q'.inflight = q.inflight /\ q'.heap = q.heap
      /\ q'.redriven = q.redriven /\ q'.count = q.count
  <2>1. q' = PushToGroup(q, m) /\ q \in QType
    BY <1>2 DEF Send, Sane, Formed
  <2> QED
    BY <2>1, PushIs DEF Pushed
<1>6. Formed(q')
  BY <1>2, <1>5, PushedKeeps DEF Sane
<1>7. /\ \A x \in Messages : Ready(q', x) <=> x = m \/ Ready(q, x)
      /\ \A g : Buffer(q', g) = IF g = GroupOf[m] THEN Append(Buffer(q, g), m)
                                ELSE Buffer(q, g)
  BY <1>2, <1>5, PushedReady DEF Sane
<1>8. \A g : Buffer(q, g) \in Seq(Messages)
  BY <1>2, BufferIs DEF Sane, Formed
<1>9. removed' = removed
  BY DEF Send
<1>10. Formed(q)'
  BY <1>6 DEF Formed, QType, BufferTypes, HandleType, EntryType, Buffer, NoRepeat
<1>11. Known(q)'
  <2>1. \A x \in Messages : Ready(q', x) \/ q'.count[x] > 0 => x \in Sent'
    BY <1>2, <1>3, <1>5, <1>7 DEF Sane, Known
  <2> QED
    BY <2>1 DEF Known, Ready, Buffer
<1>12. InTurn(q)'
  <2>1. \A x \in Sent' \ removed' : q'.count[x] = 0 => Ready(q', x)
    BY <1>2, <1>3, <1>5, <1>7, <1>9, SentIs DEF Sane, InTurn
  <2>2. ASSUME NEW e, NEW l, Precedes(e, l)', q'.count[e] = 0, e \notin removed'
        PROVE  q'.count[l] = 0 /\ Ahead(Buffer(q', GroupOf[e]), e, l)
    <3>1. CASE Precedes(e, l)
      <4>1. q.count[l] = 0 /\ Ahead(Buffer(q, GroupOf[e]), e, l)
        BY <1>2, <1>5, <1>9, <2>2, <3>1 DEF Sane, InTurn
      <4>2. Ahead(Append(Buffer(q, GroupOf[e]), m), e, l)
        BY <1>8, <4>1, AheadAppend
      <4> QED
        BY <1>5, <1>7, <4>1, <4>2
    <3>2. CASE l = m /\ e \in Sent /\ GroupOf[e] = GroupOf[m]
      <4>1. Ready(q, e)
        BY <1>2, <1>5, <1>9, <2>2, <3>2 DEF Sane, InTurn
      <4>2. e \in ToSet(Buffer(q, GroupOf[m])) /\ m \notin ToSet(Buffer(q, GroupOf[m]))
        BY <1>4, <3>2, <4>1 DEF Ready
      <4>3. Ahead(Append(Buffer(q, GroupOf[m]), m), e, m)
        BY <1>8, <4>2, AheadEnd
      <4> QED
        BY <1>4, <1>5, <1>7, <3>2, <4>3
    <3> QED
      BY <1>3, <2>2, <3>1, <3>2
  <2> QED
    BY <2>1, <2>2 DEF InTurn, Ready, Buffer, Ahead
<1>13. Scheduled(q)'
  BY <1>5 DEF Scheduled, FifoInv, QueueInv
<1>14. ASSUME Single
       PROVE  Placed(q, {})' /\ Held(q)'
  <2>1. Placed(q, {}) /\ Held(q)
    BY <1>14 DEF FifoInv, QueueInv
  <2>2. \A g : NoRepeat(Buffer(q', g))
    <3>1. NoRepeat(Append(Buffer(q, GroupOf[m]), m))
      BY <1>4, <1>8, <2>1, AppendIs DEF Placed, Ready
    <3> QED
      BY <1>7, <2>1, <3>1 DEF Placed
  <2>3. \A x : Flying(q', x) <=> Flying(q, x)
    BY <1>5 DEF Flying
  <2>4. ~ Flying(q, m) /\ q.redriven[m] = 0
    <3>1. q.redriven[m] \in Nat
      BY <1>2 DEF Sane, Formed, QType
    <3> QED
      BY <1>2, <2>1, <3>1 DEF Placed
  <2>5. ASSUME NEW x \in Messages
        PROVE  /\ q'.redriven[x] <= 1
               /\ Ready(q', x) => ~ Flying(q', x) /\ q'.redriven[x] = 0
               /\ Flying(q', x) => q'.redriven[x] = 0
               /\ x \in Sent' \ removed' <=>
                     Ready(q', x) \/ Flying(q', x) \/ q'.redriven[x] > 0
    <3>1. CASE x = m
      BY <1>3, <1>4, <1>5, <1>7, <1>9, <2>3, <2>4, <3>1
    <3>2. CASE x # m
      BY <1>3, <1>5, <1>7, <1>9, <2>1, <2>3, <3>2 DEF Placed
    <3> QED
      BY <3>1, <3>2
  <2>6. \A x, y \in q'.inflight : x.msg = y.msg => x = y
    BY <1>5, <2>1 DEF Placed
  <2>7. Placed(q, {})'
    BY <2>2, <2>5, <2>6 DEF Placed, Ready, Flying, Buffer, NoRepeat
  <2>8. Held(q)'
    BY <1>5, <2>1 DEF Held
  <2> QED
    BY <2>7, <2>8
<1>15. QueueInv'
  BY <1>3, <1>9, <1>10, <1>11, <1>12, <1>13, <1>14
  DEF QueueInv, Sane, Single, FifoInv
<1>16. DedupCovers'
  <2>1. ASSUME NEW g \in Groups, NEW i \in 1 .. Len(log'[g]),
               NEW d \in DedupOf[log'[g][i].msg]
        PROVE  dedup'[d] + log'[g][i].age >= Window
    <3>1. /\ dedup \in [DedupIds -> 0 .. Window]
          /\ dedup' = [x \in DedupIds |-> IF x \in DedupOf[m] THEN Window ELSE dedup[x]]
          /\ log' \in [Groups -> Seq(LogEntries)]
      BY <1>3 DEF FifoInv, FieldsOK, Send, LogInv
    <3>2. log'[g][i].msg \in Messages /\ log'[g][i].age \in 0 .. Window
      <4>1. log'[g][i] \in LogEntries
        BY <3>1
      <4> QED
        BY <4>1 DEF LogEntries
    <3>3. d \in DedupIds
      BY <3>2, FifoParametersAssumption
    <3>4. CASE d \in DedupOf[m]
      BY <1>1, <3>1, <3>2, <3>3, <3>4
    <3>5. CASE d \notin DedupOf[m]
      <4>1. log'[g][i].msg # m
        BY <3>5
      <4>2. i \in 1 .. Len(log[g]) /\ log'[g][i] = log[g][i]
        <5>1. log[g] \in Seq(LogEntries) /\ log \in [Groups -> Seq(LogEntries)]
          BY <1>2 DEF LogInv
        <5>2. LogEntry(m, t).msg = m
          BY DEF LogEntry
        <5>3. CASE g = GroupOf[m]
          <6>1. log'[g] = Append(log[g], LogEntry(m, t))
            BY <5>1, <5>3 DEF Send
          <6> QED
            BY <4>1, <5>1, <5>2, <6>1
        <5>4. CASE g # GroupOf[m]
          BY <5>1, <5>4 DEF Send
        <5> QED
          BY <5>3, <5>4
      <4> QED
        BY <3>1, <3>3, <3>5, <4>2 DEF FifoInv, DedupCovers
    <3> QED
      BY <3>4, <3>5
  <2> QED
    BY <2>1 DEF DedupCovers
<1>17. FieldsOK'
  <2>1. CallsOK(call)
    BY DEF FifoInv, FieldsOK, CallsOK
  <2>2. CallsOK(call')
    BY <2>1, SignalKeeps DEF Send
  <2>3. dedup' \in [DedupIds -> 0 .. Window] /\ delay' \in [Messages -> Nat]
    BY <1>1 DEF FifoInv, FieldsOK, Send
  <2> QED
    BY <2>2, <2>3 DEF FifoInv, FieldsOK, Send, CallsOK
<1>18. Armed'
  BY <1>5 DEF Armed, FifoInv, Send
<1> QED
  BY <1>15, <1>16, <1>17, <1>18 DEF FifoInv

LEMMA QueueSame ==
    ASSUME QueueInv, q' = q, log' = log, removed' = removed, delay' = delay
    PROVE  QueueInv'
<1>1. /\ Sane(q') /\ Scheduled(q') /\ (Single => Placed(q', {}) /\ Held(q'))
  BY DEF QueueInv
<1>2. LogInv' /\ Sent' = Sent /\ \A e, l : Precedes(e, l)' => Precedes(e, l)
  BY SameLog DEF QueueInv
<1> QED
  BY <1>1, <1>2, QueueFrame

LEMMA DedupSame ==
    ASSUME DedupCovers, log' = log, dedup' = dedup
    PROVE  DedupCovers'
BY DEF DedupCovers

LEMMA ReceiveKeeps ==
    ASSUME FifoInv, NEW c \in Consumers, NEW max \in Batches, NEW vis \in Timeouts,
           NEW wait \in Waits, Receive(c, max, vis, wait)
    PROVE  FifoInv'
<1>1. QueueInv' /\ visTimer' \in Nat \cup {Off} /\ Armed'
  BY RefillKeeps DEF FifoInv, Receive
<1>2. DedupCovers'
  BY DedupSame DEF FifoInv, Receive, Refill
<1>3. max \in Nat /\ vis \in Nat /\ wait \in Nat
  BY FifoParametersAssumption
<1>4. /\ call' \in [Consumers -> CallType]
      /\ \A x \in Consumers : call'[x].state # "idle" =>
            call'[x].max \in Batches /\ call'[x].vis \in Timeouts
  <2>1. PICK r : r = [state |-> "parked", left |-> wait, max |-> max, vis |-> vis]
    OBVIOUS
  <2>2. r \in CallType /\ r.max \in Batches /\ r.vis \in Timeouts
    BY <1>3, <2>1 DEF CallType
  <2>3. call' = call \/ call' = [call EXCEPT ![c] = r]
    BY <2>1 DEF Receive
  <2> QED
    BY <2>2, <2>3 DEF FifoInv, FieldsOK
<1>5. FieldsOK'
  BY <1>1, <1>4 DEF FifoInv, FieldsOK, Receive, Refill
<1> QED
  BY <1>1, <1>2, <1>5 DEF FifoInv

LEMMA IdleCall ==
    ASSUME FieldsOK, NEW c \in Consumers, call' = [call EXCEPT ![c] = Idle]
    PROVE  /\ call' \in [Consumers -> CallType]
           /\ \A x \in Consumers : call'[x].state # "idle" =>
                 call'[x].max \in Batches /\ call'[x].vis \in Timeouts
<1>1. Idle \in CallType /\ Idle.state = "idle"
  BY DEF Idle, CallType
<1> QED
  BY <1>1 DEF FieldsOK

LEMMA ResumeKeeps ==
    ASSUME FifoInv, NEW c \in Consumers, Resume(c)
    PROVE  FifoInv'
<1>1. call[c].max \in Batches /\ call[c].vis \in Timeouts
  BY DEF FifoInv, FieldsOK, Resume
<1>2. QueueInv' /\ visTimer' \in Nat \cup {Off} /\ Armed'
  BY <1>1, RefillKeeps DEF FifoInv, Resume
<1>3. DedupCovers'
  BY DedupSame DEF FifoInv, Resume, Refill
<1>4. /\ call' \in [Consumers -> CallType]
      /\ \A x \in Consumers : call'[x].state # "idle" =>
            call'[x].max \in Batches /\ call'[x].vis \in Timeouts
  BY IdleCall DEF FifoInv, Resume
<1>5. FieldsOK'
  BY <1>2, <1>4 DEF FifoInv, FieldsOK, Resume, Refill
<1> QED
  BY <1>2, <1>3, <1>5 DEF FifoInv

LEMMA AbortKeeps ==
    ASSUME FifoInv, NEW c \in Consumers, Abort(c)
    PROVE  FifoInv'
<1>1. QueueInv' /\ DedupCovers'
  BY QueueSame, DedupSame DEF FifoInv, Abort
<1>2. /\ call' \in [Consumers -> CallType]
      /\ \A x \in Consumers : call'[x].state # "idle" =>
            call'[x].max \in Batches /\ call'[x].vis \in Timeouts
  BY IdleCall DEF FifoInv, Abort
<1>3. FieldsOK' /\ Armed'
  BY <1>2 DEF FifoInv, FieldsOK, Armed, Abort
<1> QED
  BY <1>1, <1>3 DEF FifoInv

LEMMA DeleteKeeps ==
    ASSUME FifoInv, NEW h \in q.inflight, Delete(h)
    PROVE  FifoInv'
<1>1. PICK m : m = h.msg
  OBVIOUS
<1>2. /\ LogInv /\ Sane(q) /\ Formed(q) /\ Scheduled(q) /\ removed \subseteq Sent
      /\ q \in QType
  BY DEF FifoInv, QueueInv, Sane, Formed
<1>3. m \in Messages /\ q.count[m] > 0 /\ Flying(q, m)
  BY <1>1, <1>2, FlyingIs
<1>4. /\ Reduced(q', q) /\ Landed(q', q, h) /\ q'.heap = q.heap
      /\ q'.redriven = q.redriven /\ q'.messages = q.messages
  <2>1. q.inflight \ {h} \in SUBSET HandleType /\ q.locked \ {GroupOf[m]} \in SUBSET Groups
    BY <1>2 DEF QType
  <2>2. q' = [q EXCEPT !.inflight = q.inflight \ {h}, !.heap = q.heap,
                       !.locked = q.locked \ {GroupOf[m]}]
    BY <1>1, <1>2 DEF Delete, Unlock, RemoveByValue, QType
  <2>3. /\ q' \in QType /\ q'.inflight = q.inflight \ {h} /\ q'.heap = q.heap
        /\ q'.locked = q.locked \ {GroupOf[m]} /\ q'.messages = q.messages
        /\ q'.order = q.order /\ q'.count = q.count /\ q'.redriven = q.redriven
    BY <1>2, <2>1, <2>2 DEF QType
  <2> QED
    BY <1>1, <2>3 DEF Reduced, Landed
<1>5. /\ LogInv' /\ Sent' = Sent /\ \A e, l : Precedes(e, l)' => Precedes(e, l)
  BY <1>2, SameLog DEF Delete
<1>6. removed' = removed \cup {m} /\ removed' \subseteq Sent'
  BY <1>1, <1>2, <1>3, <1>5 DEF Delete, Sane, Known
<1>7. Sane(q)'
  BY <1>2, <1>4, <1>5, <1>6, ReducedKeeps, SaneFrame DEF Sane
<1>8. Scheduled(q)'
  BY <1>2, <1>4 DEF Scheduled, Landed
<1>9. ASSUME Single
      PROVE  Placed(q, {})' /\ Held(q)'
  <2>1. Placed(q, {}) /\ Held(q)
    BY <1>9 DEF FifoInv, QueueInv
  <2>2. /\ \A x : Flying(q', x) <=> Flying(q, x) /\ x # m
        /\ \A x, y \in q'.inflight : x.msg = y.msg => x = y
    BY <1>1, <1>4, <2>1, LandedFlying DEF Placed
  <2>3. \A g : Buffer(q', g) = Buffer(q, g)
    BY <1>4, SameBuffers
  <2>4. \A x : Ready(q', x) <=> Ready(q, x)
    BY <2>3 DEF Ready
  <2>5. ASSUME NEW x \in Messages
        PROVE  /\ q'.redriven[x] <= 1
               /\ Ready(q', x) => ~ Flying(q', x) /\ q'.redriven[x] = 0
               /\ Flying(q', x) => q'.redriven[x] = 0
               /\ x \in Sent' \ removed' <=>
                     Ready(q', x) \/ Flying(q', x) \/ q'.redriven[x] > 0
    <3>1. CASE x = m
      BY <1>3, <1>4, <1>6, <2>1, <2>2, <2>4, <3>1 DEF Placed
    <3>2. CASE x # m
      BY <1>4, <1>5, <1>6, <2>1, <2>2, <2>4, <3>2 DEF Placed
    <3> QED
      BY <3>1, <3>2
  <2>6. \A g : NoRepeat(Buffer(q', g))
    BY <2>1, <2>3 DEF Placed
  <2>7. Placed(q, {})'
    BY <2>2, <2>5, <2>6 DEF Placed, Ready, Flying, Buffer, NoRepeat
  <2>8. Held(q')
    BY <1>4, <2>1, LandedHeld
  <2> QED
    BY <2>7, <2>8 DEF Held
<1>10. QueueInv'
  BY <1>5, <1>6, <1>7, <1>8, <1>9 DEF QueueInv, Single
<1>11. FieldsOK' /\ DedupCovers' /\ Armed'
  BY <1>4 DEF FifoInv, FieldsOK, DedupCovers, Armed, Delete
<1> QED
  BY <1>10, <1>11 DEF FifoInv

LEMMA ReleaseKeeps ==
    ASSUME FifoInv, NEW h \in q.inflight, Release(h)
    PROVE  FifoInv'
<1>1. PICK m, g, s : /\ m = h.msg /\ g = GroupOf[m]
                     /\ s = [q EXCEPT !.inflight = q.inflight \ {h}]
  OBVIOUS
<1>2. /\ LogInv /\ Sane(q) /\ Formed(q) /\ Scheduled(q) /\ q \in QType
  BY DEF FifoInv, QueueInv, Sane, Formed
<1>3. m \in Messages /\ q.count[m] > 0 /\ m \in Sent
  <2>1. m \in Messages /\ q.count[m] > 0
    BY <1>1, <1>2, FlyingIs
  <2> QED
    BY <1>2, <2>1 DEF Sane, Known
<1>4. /\ s \in QType /\ s.inflight = q.inflight \ {h} /\ s.heap = q.heap
      /\ s.locked = q.locked /\ s.messages = q.messages /\ s.order = q.order
      /\ s.count = q.count /\ s.redriven = q.redriven
  <2>1. q.inflight \ {h} \in SUBSET HandleType
    BY <1>2 DEF QType
  <2> QED
    BY <1>1, <1>2, <2>1 DEF QType
<1>5. q' = IF g \in DOMAIN q.messages THEN Unlock(PushToGroup(s, m), g) ELSE s
  <2>1. s = [q EXCEPT !.inflight = q.inflight \ {h}, !.heap = q.heap]
    BY <1>1, <1>2 DEF QType
  <2> QED
    BY <1>1, <2>1 DEF Release, RemoveByValue
<1>6. ASSUME g \in DOMAIN q.messages
      PROVE  /\ Sane(q') /\ q'.inflight = q.inflight \ {h} /\ q'.heap = q.heap
             /\ Single => Placed(q', {}) /\ Held(q')
  <2>1. PICK p : p = PushToGroup(s, m)
    OBVIOUS
  <2>2. /\ p \in QType
        /\ Rebuffered(p, s, g, Append(Buffer(s, g), m))
        /\ p.order = s.order
        /\ p.locked = s.locked /\ p.inflight = s.inflight /\ p.heap = s.heap
        /\ p.count = s.count /\ p.redriven = s.redriven
    <3>1. /\ p \in QType
          /\ Rebuffered(p, s, GroupOf[m], Append(Buffer(s, GroupOf[m]), m))
          /\ p.order = IF GroupOf[m] \in DOMAIN s.messages THEN s.order
                       ELSE Append(s.order, GroupOf[m])
          /\ p.locked = s.locked /\ p.inflight = s.inflight /\ p.heap = s.heap
          /\ p.count = s.count /\ p.redriven = s.redriven
      <4>1. s \in QType /\ m \in Messages
        BY <1>3, <1>4
      <4> HIDE <1>4, <1>1
      <4> QED
        BY <2>1, <4>1, PushIs
    <3> QED
      BY <1>1, <1>4, <1>6, <3>1
  <2>3. /\ q' \in QType /\ q'.messages = p.messages /\ q'.order = p.order
        /\ q'.locked = p.locked \ {g} /\ q'.inflight = p.inflight /\ q'.heap = p.heap
        /\ q'.count = p.count /\ q'.redriven = p.redriven
    <3>1. q' = [p EXCEPT !.locked = p.locked \ {g}]
      BY <1>5, <1>6, <2>1 DEF Unlock
    <3>2. p.locked \ {g} \in SUBSET Groups
      BY <2>2 DEF QType
    <3> QED
      BY <2>2, <3>1, <3>2 DEF QType
  <2>4. Rebuffered(q', q, g, Append(Buffer(q, g), m))
    <3>1. (\A x : Buffer(s, x) = Buffer(q, x)) /\ (\A x : Buffer(q', x) = Buffer(p, x))
      BY <1>4, <2>3 DEF Buffer
    <3> QED
      BY <1>4, <2>2, <2>3, <3>1 DEF Rebuffered
  <2>5. Pushed(q', q, m) /\ Landed(q', q, h) /\ q'.redriven = q.redriven /\ q'.heap = q.heap
    BY <1>1, <1>4, <1>6, <2>2, <2>3, <2>4 DEF Pushed, Landed
  <2>6. Sane(q')
    BY <1>2, <1>3, <2>5, PushedKeeps DEF Sane
  <2>7. ASSUME Single
        PROVE  Placed(q', {}) /\ Held(q')
    BY <1>1, <1>2, <2>5, <2>7, ReturnedPlaced, LandedHeld DEF FifoInv, QueueInv
  <2> QED
    BY <2>5, <2>6, <2>7 DEF Landed
<1>7. ASSUME g \notin DOMAIN q.messages
      PROVE  /\ Sane(q') /\ q'.inflight = q.inflight \ {h} /\ q'.heap = q.heap
             /\ Single => Placed(q', {}) /\ Held(q')
  <2>1. q' = s
    BY <1>5, <1>7
  <2>2. Reduced(q', q)
    BY <1>4, <2>1 DEF Reduced
  <2>3. Sane(q')
    BY <1>2, <2>2, ReducedKeeps DEF Sane
  <2>4. ~ Single
    BY <1>1, <1>2, <1>7 DEF FifoInv, QueueInv, Held, Formed
  <2> QED
    BY <1>4, <2>1, <2>3, <2>4
<1>8. /\ Sane(q') /\ q'.inflight = q.inflight \ {h} /\ q'.heap = q.heap
      /\ Single => Placed(q', {}) /\ Held(q')
  BY <1>6, <1>7
<1>9. Scheduled(q')
  BY <1>2, <1>8 DEF Scheduled
<1>10. QueueInv'
  <2>1. log' = log /\ delay' = delay /\ removed' = removed /\ QueueInv
    BY DEF Release, FifoInv
  <2>2. LogInv' /\ Sent' = Sent /\ \A e, l : Precedes(e, l)' => Precedes(e, l)
    BY <1>2, <2>1, SameLog
  <2> QED
    BY <1>8, <1>9, <2>1, <2>2, QueueFrame
<1>11. FieldsOK'
  <2>1. CallsOK(call)
    BY DEF FifoInv, FieldsOK, CallsOK
  <2>2. CallsOK(call')
    BY <2>1, SignalKeeps DEF Release
  <2> QED
    BY <2>2 DEF FifoInv, FieldsOK, Release, CallsOK
<1>12. DedupCovers' /\ Armed'
  BY <1>8, DedupSame DEF FifoInv, Armed, Release
<1> QED
  BY <1>10, <1>11, <1>12 DEF FifoInv

LEMMA ExtendKeeps ==
    ASSUME FifoInv, NEW h \in q.inflight, NEW t \in Extensions, Extend(h, t)
    PROVE  FifoInv'
<1>1. /\ LogInv /\ Sane(q) /\ Formed(q) /\ Scheduled(q) /\ q \in QType /\ QueueInv
  BY DEF FifoInv, QueueInv, Sane, Formed
<1>2. PICK e : e = Entry(h, t)
  OBVIOUS
<1>3. e \in EntryType
  <2>1. t \in Nat /\ h \in HandleType
    BY <1>1, FlyingIs, FifoParametersAssumption
  <2> QED
    BY <1>2, <2>1 DEF Entry, EntryType
<1>4. /\ Reduced(q', q) /\ q'.heap = q.heap \cup {e} /\ q'.heap \in SUBSET EntryType
      /\ q'.messages = q.messages /\ q'.inflight = q.inflight
      /\ q'.redriven = q.redriven /\ q'.locked = q.locked
  <2>1. q' = [q EXCEPT !.heap = q.heap \cup {e}] /\ q.heap \cup {e} \in SUBSET EntryType
    BY <1>1, <1>2, <1>3 DEF Extend, RemoveByValue, QType
  <2> QED
    BY <1>1, <2>1 DEF Reduced, QType
<1>5. /\ Sane(q') /\ Scheduled(q')
      /\ Single => Placed(q', {}) /\ Held(q')
  <2>1. Sane(q')
    BY <1>1, <1>4, ReducedKeeps DEF Sane
  <2>2. Scheduled(q')
    BY <1>1, <1>4 DEF Scheduled
  <2>3. ASSUME Single PROVE Placed(q', {}) /\ Held(q')
    BY <1>1, <1>4, <2>3, SamePlaced, ReducedKeeps DEF QueueInv
  <2> QED
    BY <2>1, <2>2, <2>3
<1>6. QueueInv'
  <2>1. log' = log /\ delay' = delay /\ removed' = removed
    BY DEF Extend
  <2>2. LogInv' /\ Sent' = Sent /\ \A x, l : Precedes(x, l)' => Precedes(x, l)
    BY <1>1, <2>1, SameLog
  <2> QED
    BY <1>1, <1>5, <2>1, <2>2, QueueFrame
<1>7. visTimer' \in Nat \cup {Off} /\ Armed'
  BY <1>4, ResetTimerIs DEF Extend, Armed
<1>8. FieldsOK' /\ DedupCovers'
  BY <1>7, DedupSame DEF FifoInv, FieldsOK, Extend
<1> QED
  BY <1>6, <1>7, <1>8 DEF FifoInv

LEMMA PurgeKeeps ==
    ASSUME FifoInv, Purge
    PROVE  FifoInv'
<1>1. /\ LogInv /\ Sane(q) /\ Formed(q) /\ Known(q) /\ q \in QType /\ removed \subseteq Sent
  BY DEF FifoInv, QueueInv, Sane, Formed
<1>2. PICK none : none = [g \in {} |-> <<>>]
  OBVIOUS
<1>3. none \in BufferTypes /\ DOMAIN none = {}
  <2>1. none \in [{} -> Seq(Messages)] /\ {} \in SUBSET Groups
    BY <1>2
  <2> QED
    BY <1>2, <2>1 DEF BufferTypes
<1>4. /\ q' \in QType /\ q'.messages = none /\ q'.locked = {} /\ q'.order = <<>>
      /\ q'.inflight = {} /\ q'.heap = {} /\ q'.count = q.count
      /\ q'.redriven = q.redriven
  <2>1. q' = [q EXCEPT !.messages = none, !.locked = {}, !.order = <<>>,
                       !.inflight = {}, !.heap = {}]
    BY <1>2 DEF Purge
  <2>2. PICK gone : gone = [q EXCEPT !.messages = none, !.locked = {}]
    OBVIOUS
  <2> HIDE <1>2
  <2>3. /\ gone \in QType /\ gone.messages = none /\ gone.locked = {}
        /\ gone.count = q.count /\ gone.redriven = q.redriven
    BY <1>1, <1>3, <2>2 DEF QType
  <2>4. q' = [gone EXCEPT !.order = <<>>, !.inflight = {}, !.heap = {}]
    BY <1>1, <2>1, <2>2 DEF QType
  <2> HIDE <2>1, <2>2
  <2>5. <<>> \in Seq(Groups)
    OBVIOUS
  <2> QED
    BY <2>3, <2>4, <2>5 DEF QType
<1>5. (\A g : Buffer(q', g) = <<>>) /\ ToSet(<<>>) = {} /\ NoRepeat(<<>>)
  BY <1>3, <1>4, EmptyIs DEF Buffer
<1>6. (\A m : ~ Ready(q', m)) /\ (\A m : ~ Flying(q', m))
  BY <1>4, <1>5 DEF Ready, Flying
<1>7. /\ LogInv' /\ Sent' = Sent /\ \A e, l : Precedes(e, l)' => Precedes(e, l)
  BY <1>1, SameLog DEF Purge
<1>8. removed' = removed \cup {m \in Messages : Ready(q, m) \/ Flying(q, m)}
  BY DEF Purge, InQueue, InFlight, Queued, Ready, Flying
<1>9. removed' \subseteq Sent'
  <2>1. \A m \in Messages : Flying(q, m) => q.count[m] > 0
    BY <1>1, FlyingIs DEF Flying
  <2> QED
    BY <1>1, <1>7, <1>8, <2>1 DEF Known
<1>10. Formed(q')
  <2>1. IsFiniteSet(q'.inflight)
    BY <1>4, FS_EmptySet
  <2> QED
    BY <1>3, <1>4, <1>5, <2>1 DEF Formed
<1>11. Known(q)'
  <2>1. \A m \in Messages : Ready(q', m) \/ q'.count[m] > 0 => m \in Sent'
    BY <1>1, <1>4, <1>6, <1>7 DEF Known
  <2> QED
    BY <2>1 DEF Known, Ready, Buffer
<1>12. \A m \in Sent' \ removed' : q'.count[m] # 0
  <2>1. ASSUME NEW m \in Sent' \ removed', q'.count[m] = 0 PROVE FALSE
    <3>1. m \in Messages /\ m \in Sent \ removed
      BY <1>1, <1>7, <1>8, <2>1, SentIs
    <3>2. Ready(q, m)
      BY <1>1, <1>4, <2>1, <3>1 DEF Sane, InTurn
    <3> QED
      BY <1>8, <2>1, <3>1, <3>2
  <2> QED
    BY <2>1
<1>13. InTurn(q)'
  <2>1. \A e, l : Precedes(e, l)' => e \in Sent'
    BY <1>1, <1>7, PrecedesIs
  <2>2. \A e, l : ~ (Precedes(e, l)' /\ q'.count[e] = 0 /\ e \notin removed')
    BY <1>12, <2>1
  <2> QED
    BY <1>12, <2>2 DEF InTurn
<1>14. Formed(q)'
  BY <1>10 DEF Formed, QType, BufferTypes, HandleType, EntryType, Buffer, NoRepeat
<1>15. ASSUME Single
       PROVE  Placed(q, {})' /\ Held(q)'
  <2>1. Placed(q, {})
    BY <1>15 DEF FifoInv, QueueInv
  <2>2. ASSUME NEW x \in Messages
        PROVE  /\ q'.redriven[x] <= 1
               /\ x \in Sent' \ removed' <=> q'.redriven[x] > 0
    <3>1. q.redriven[x] \in Nat
      BY <1>1 DEF QType
    <3> QED
      BY <1>4, <1>7, <1>8, <2>1, <3>1 DEF Placed
  <2>3. Placed(q, {})'
    <3>1. \A g : NoRepeat(Buffer(q', g))
      BY <1>5
    <3> QED
      BY <1>4, <1>6, <2>2, <3>1 DEF Placed, Ready, Flying, Buffer, NoRepeat
  <2>4. Held(q)'
    BY <1>4 DEF Held
  <2> QED
    BY <2>3, <2>4
<1>16. QueueInv'
  BY <1>4, <1>7, <1>9, <1>11, <1>13, <1>14, <1>15 DEF QueueInv, Sane, Scheduled, Single
<1>17. FieldsOK' /\ DedupCovers' /\ Armed'
  BY <1>4 DEF FifoInv, FieldsOK, DedupCovers, Armed, Purge
<1> QED
  BY <1>16, <1>17 DEF FifoInv

LEMMA SetDLQKeeps ==
    ASSUME FifoInv, NEW p \in Policies, SetDLQ(p)
    PROVE  FifoInv'
<1>1. QueueInv' /\ DedupCovers'
  BY QueueSame, DedupSame DEF FifoInv, SetDLQ
<1>2. FieldsOK' /\ Armed'
  BY DEF FifoInv, FieldsOK, Armed, SetDLQ
<1> QED
  BY <1>1, <1>2 DEF FifoInv

LEMMA CloseKeeps ==
    ASSUME FifoInv, Close \/ VisTick \/ StopLoop
    PROVE  FifoInv'
<1>1. QueueInv' /\ DedupCovers'
  BY QueueSame, DedupSame DEF FifoInv, Close, VisTick, StopLoop
<1>2. FieldsOK' /\ Armed'
  BY DEF FifoInv, FieldsOK, Armed, Close, VisTick, StopLoop
<1> QED
  BY <1>1, <1>2 DEF FifoInv

LEMMA ReclaimExpiredKeeps ==
    ASSUME FifoInv, ReclaimExpired
    PROVE  FifoInv'
<1>1. LogInv /\ Sane(q) /\ Formed(q) /\ Scheduled(q) /\ QueueInv
  BY DEF FifoInv, QueueInv, Sane
<1>2. PICK order \in Orders(Expired(q)) : q' = Reclaim(q, order)
  BY DEF ReclaimExpired
<1>3. Keeps(q', q) /\ Scheduled(q')
  BY <1>1, <1>2, ReclaimKeeps
<1>4. Sane(q') /\ (Single => Placed(q', {}) /\ Held(q'))
  BY <1>1, <1>3 DEF Keeps, Sane, QueueInv
<1>5. QueueInv'
  <2>1. log' = log /\ delay' = delay /\ removed' = removed
    BY DEF ReclaimExpired
  <2>2. LogInv' /\ Sent' = Sent /\ \A x, l : Precedes(x, l)' => Precedes(x, l)
    BY <1>1, <2>1, SameLog
  <2> QED
    BY <1>1, <1>3, <1>4, <2>1, <2>2, QueueFrame
<1>6. q'.heap \in SUBSET EntryType
  BY <1>4 DEF Sane, Formed, QType
<1>7. visTimer' \in Nat \cup {Off} /\ Armed'
  BY <1>6, ResetTimerIs DEF ReclaimExpired, Armed
<1>8. FieldsOK'
  <2>1. CallsOK(call)
    BY DEF FifoInv, FieldsOK, CallsOK
  <2>2. CallsOK(call')
    BY <2>1, SignalKeeps DEF ReclaimExpired
  <2> QED
    BY <1>7, <2>2 DEF FifoInv, FieldsOK, ReclaimExpired, CallsOK
<1>9. DedupCovers'
  BY DedupSame DEF FifoInv, ReclaimExpired
<1> QED
  BY <1>5, <1>7, <1>8, <1>9 DEF FifoInv

LEMMA TickKeeps ==
    ASSUME FifoInv, Tick
    PROVE  FifoInv'
<1>1. /\ LogInv /\ Sane(q) /\ Formed(q) /\ Scheduled(q) /\ QueueInv /\ q \in QType
      /\ delay \in [Messages -> Nat]
  BY DEF FifoInv, QueueInv, Sane, Formed, FieldsOK
<1>2. \A x \in Nat : Elapse(x) \in Nat /\ Elapse(x) <= x
  BY DEF Elapse
<1>3. PICK e : e = {Entry(x.value, Elapse(x.left)) : x \in q.heap}
  OBVIOUS
<1>4. /\ e \in SUBSET EntryType
      /\ \A x \in q.heap : \E y \in e : y.value = x.value
      /\ \A y \in e : \E x \in q.heap : y.left = Elapse(x.left)
  <2>1. \A x \in q.heap : /\ Entry(x.value, Elapse(x.left)) \in EntryType
                          /\ Entry(x.value, Elapse(x.left)).value = x.value
                          /\ Entry(x.value, Elapse(x.left)).left = Elapse(x.left)
    <3>1. \A x \in q.heap : x \in EntryType
      BY <1>1 DEF QType
    <3> QED
      BY <1>2, <3>1 DEF Entry, EntryType
  <2> QED
    BY <1>3, <2>1
<1>5. /\ Reduced(q', q) /\ q'.heap = e
      /\ q'.messages = q.messages /\ q'.inflight = q.inflight
      /\ q'.redriven = q.redriven /\ q'.locked = q.locked
  <2>1. q' = [q EXCEPT !.heap = e]
    BY <1>1, <1>3 DEF Tick, QType
  <2> QED
    BY <1>1, <1>4, <2>1 DEF Reduced, QType
<1>6. /\ Sane(q') /\ Scheduled(q')
      /\ Single => Placed(q', {}) /\ Held(q')
  <2>1. Sane(q')
    BY <1>1, <1>5, ReducedKeeps DEF Sane
  <2>2. Scheduled(q')
    BY <1>1, <1>4, <1>5 DEF Scheduled
  <2>3. ASSUME Single PROVE Placed(q', {}) /\ Held(q')
    BY <1>1, <1>5, <2>3, SamePlaced, ReducedKeeps DEF QueueInv
  <2> QED
    BY <2>1, <2>2, <2>3
<1>7. /\ LogInv' /\ Sent' = Sent
      /\ \A x, l : Precedes(x, l)' => Precedes(x, l)
      /\ \A g \in Groups : Len(log'[g]) = Len(log[g])
      /\ \A g \in Groups : \A i \in 1 .. Len(log[g]) :
            /\ log'[g][i].msg = log[g][i].msg
            /\ log'[g][i].age = IF log[g][i].age < Window THEN log[g][i].age + 1
                                ELSE log[g][i].age
  BY <1>1, LogTick DEF Tick
<1>8. QueueInv'
  BY <1>1, <1>6, <1>7, QueueFrame DEF Tick
<1>9. Window \in Nat
  BY FifoParametersAssumption
<1>10. DedupCovers'
  <2>1. ASSUME NEW g \in Groups, NEW i \in 1 .. Len(log[g]),
               NEW d \in DedupOf[log[g][i].msg]
        PROVE  dedup'[d] + log'[g][i].age >= Window
    <3>1. log[g][i] \in LogEntries
      BY <1>1 DEF LogInv
    <3>2. log[g][i].msg \in Messages /\ log[g][i].age \in 0 .. Window
      BY <3>1 DEF LogEntries
    <3>3. d \in DedupIds
      BY <3>2, FifoParametersAssumption
    <3>4. dedup[d] \in 0 .. Window /\ dedup[d] + log[g][i].age >= Window
      BY <3>3 DEF FifoInv, FieldsOK, DedupCovers
    <3>5. dedup'[d] = Elapse(dedup[d])
      BY <3>3 DEF Tick
    <3>6. log'[g][i].age = IF log[g][i].age < Window THEN log[g][i].age + 1
                           ELSE log[g][i].age
      BY <1>7
    <3> QED
      BY <1>9, <3>2, <3>4, <3>5, <3>6 DEF Elapse
  <2> QED
    BY <1>7, <2>1 DEF DedupCovers
<1>11. FieldsOK'
  <2>1. delay' \in [Messages -> Nat] /\ dedup' \in [DedupIds -> 0 .. Window]
    <3>1. \A d \in DedupIds : Elapse(dedup[d]) \in 0 .. Window
      BY <1>9 DEF FifoInv, FieldsOK, Elapse
    <3> QED
      BY <1>1, <1>2, <3>1 DEF Tick
  <2>2. visTimer' \in Nat \cup {Off}
    BY DEF FifoInv, FieldsOK, Tick, Elapse, Off
  <2>3. \A c \in Consumers :
           LET x == call'[c]
           IN  /\ x \in CallType
               /\ x.state # "idle" => x.max \in Batches /\ x.vis \in Timeouts
    <3>1. ASSUME NEW c \in Consumers
          PROVE  LET x == call'[c]
                 IN  /\ x \in CallType
                     /\ x.state # "idle" => x.max \in Batches /\ x.vis \in Timeouts
      <4>1. call[c] \in CallType
            /\ (call[c].state # "idle" => call[c].max \in Batches /\ call[c].vis \in Timeouts)
        BY DEF FifoInv, FieldsOK
      <4>2. call'[c] = [call[c] EXCEPT !.left = Elapse(call[c].left)]
        BY DEF Tick
      <4> QED
        BY <1>2, <4>1, <4>2 DEF CallType
    <3> QED
      BY <3>1
  <2>4. call' \in [Consumers -> CallType]
    BY <2>3 DEF Tick
  <2> QED
    BY <2>1, <2>2, <2>3, <2>4 DEF FifoInv, FieldsOK, Tick
<1>12. Armed'
  <2>1. ASSUME q'.heap # {}, bg' = "select"
        PROVE  visTimer' # Off /\ \A y \in q'.heap : visTimer' <= y.left
    <3>1. q.heap # {} /\ bg = "select"
      BY <1>3, <1>5, <2>1 DEF Tick
    <3>2. visTimer \in Nat /\ \A x \in q.heap : visTimer <= x.left /\ x.left \in Nat
      BY <1>1, <3>1 DEF FifoInv, Armed, FieldsOK, QType, EntryType
    <3>3. visTimer' = Elapse(visTimer)
      BY DEF Tick
    <3>4. visTimer' # Off
      BY <1>2, <3>2, <3>3 DEF Off
    <3>5. ASSUME NEW y \in q'.heap PROVE visTimer' <= y.left
      <4>1. PICK x \in q.heap : y.left = Elapse(x.left)
        BY <1>4, <1>5, <3>5
      <4> QED
        BY <3>2, <3>3, <4>1 DEF Elapse
    <3> QED
      BY <3>4, <3>5
  <2> QED
    BY <2>1 DEF Armed
<1> QED
  BY <1>8, <1>10, <1>11, <1>12 DEF FifoInv


-----------------------------------------------------------------------------
(* The invariant holds initially and is kept by every step.                *)
LEMMA InitKeeps == Init => FifoInv
<1> SUFFICES ASSUME Init PROVE FifoInv
  OBVIOUS
<1>1. PICK none, zero : none = [g \in {} |-> <<>>] /\ zero = [m \in Messages |-> 0]
  OBVIOUS
<1>2. none \in BufferTypes /\ DOMAIN none = {} /\ zero \in [Messages -> Nat]
  <2>1. none \in [{} -> Seq(Messages)] /\ {} \in SUBSET Groups
    BY <1>1
  <2> QED
    BY <1>1, <2>1 DEF BufferTypes
<1>3. q = [messages |-> none, locked |-> {}, order |-> <<>>, inflight |-> {},
           heap |-> {}, count |-> zero, redriven |-> zero]
  BY <1>1 DEF Init
<1>4. log = [g \in Groups |-> <<>>] /\ delay = zero /\ removed = {}
  BY <1>1 DEF Init
<1>5. zero = [m \in Messages |-> 0]
  BY <1>1
<1> HIDE <1>1
<1>6. q \in QType
  <2>1. <<>> \in Seq(Groups)
    OBVIOUS
  <2> QED
    BY <1>2, <1>3, <2>1 DEF QType
<1>7. (\A g : Buffer(q, g) = <<>>) /\ (\A m : ~ Ready(q, m) /\ ~ Flying(q, m))
  BY <1>2, <1>3, EmptyIs DEF Buffer, Ready, Flying
<1>8. (\A m \in Messages : q.count[m] = 0) /\ \A m \in Messages : q.redriven[m] = 0
  BY <1>3, <1>5
<1>9. /\ LogInv
      /\ \A g \in Groups : ~ \E i \in 1 .. Len(log[g]) : TRUE
  <2>1. \A g \in Groups : log[g] = <<>> /\ Len(log[g]) = 0
    BY <1>4
  <2>2. log \in [Groups -> Seq(LogEntries)]
    BY <1>4
  <2> QED
    BY <2>1, <2>2 DEF LogInv
<1>10. (\A m : m \notin Sent) /\ \A e, l : ~ Precedes(e, l)
  BY <1>9, SentIs DEF Precedes
<1>11. Formed(q)
  <2>1. IsFiniteSet(q.inflight)
    BY <1>3, FS_EmptySet
  <2> QED
    BY <1>2, <1>3, <1>6, <1>7, <2>1, EmptyIs DEF Formed
<1>12. Sane(q) /\ Scheduled(q)
  <2>1. q.inflight = {}
    BY <1>3
  <2>2. Known(q)
    BY <1>7, <1>8 DEF Known
  <2>3. InTurn(q)
    BY <1>10 DEF InTurn
  <2> QED
    BY <1>11, <2>1, <2>2, <2>3 DEF Sane, Scheduled
<1>13. Placed(q, {}) /\ Held(q)
  <2>1. q.inflight = {}
    BY <1>3
  <2>2. \A g : NoRepeat(Buffer(q, g))
    BY <1>7, EmptyIs
  <2>3. \A m \in Messages : q.redriven[m] <= 1 /\ ~ q.redriven[m] > 0
    BY <1>8
  <2>4. Placed(q, {})
    BY <1>7, <1>10, <2>1, <2>2, <2>3 DEF Placed
  <2> QED
    BY <2>1, <2>4 DEF Held
<1>14. QueueInv /\ Armed /\ DedupCovers
  BY <1>3, <1>4, <1>9, <1>12, <1>13 DEF QueueInv, Armed, DedupCovers
<1>15. FieldsOK
  <2>1. Idle \in CallType /\ Idle.state = "idle"
    BY DEF Idle, CallType
  <2>2. Window \in Nat
    BY FifoParametersAssumption
  <2>3. call = [c \in Consumers |-> Idle] /\ dedup = [d \in DedupIds |-> 0]
    BY DEF Init
  <2>4. /\ call \in [Consumers -> CallType]
        /\ \A c \in Consumers : call[c].state # "idle" =>
              call[c].max \in Batches /\ call[c].vis \in Timeouts
    BY <2>1, <2>3
  <2>5. dedup \in [DedupIds -> 0 .. Window]
    BY <2>2, <2>3
  <2>6. /\ dlqMax \in Policies \cup {0} /\ visTimer = Off /\ bg = "select"
        /\ closed = FALSE
    BY DEF Init
  <2> QED
    BY <1>2, <1>4, <2>4, <2>5, <2>6 DEF FieldsOK
<1> QED
  BY <1>14, <1>15 DEF FifoInv

LEMMA StutterKeeps ==
    ASSUME FifoInv, UNCHANGED vars
    PROVE  FifoInv'
<1>1. QueueInv' /\ DedupCovers'
  BY QueueSame, DedupSame DEF FifoInv, vars
<1>2. FieldsOK' /\ Armed'
  BY DEF FifoInv, FieldsOK, Armed, vars
<1> QED
  BY <1>1, <1>2 DEF FifoInv

LEMMA StepKeeps == FifoInv /\ [Next]_vars => FifoInv'
<1> SUFFICES ASSUME FifoInv, [Next]_vars PROVE FifoInv'
  OBVIOUS
<1>1. ASSUME NEW m \in Messages, NEW t \in DelaysOf[m], Send(m, t) PROVE FifoInv'
  BY <1>1, SendKeeps
<1>2. ASSUME NEW c \in Consumers, NEW k \in Batches, NEW v \in Timeouts, NEW w \in Waits,
             Receive(c, k, v, w)
      PROVE  FifoInv'
  BY <1>2, ReceiveKeeps
<1>3. ASSUME NEW h \in q.inflight, Delete(h) PROVE FifoInv'
  BY <1>3, DeleteKeeps
<1>4. ASSUME NEW h \in q.inflight, Release(h) PROVE FifoInv'
  BY <1>4, ReleaseKeeps
<1>5. ASSUME NEW h \in q.inflight, NEW t \in Extensions, Extend(h, t) PROVE FifoInv'
  BY <1>5, ExtendKeeps
<1>6. CASE Purge
  BY <1>6, PurgeKeeps
<1>7. ASSUME NEW p \in Policies, SetDLQ(p) PROVE FifoInv'
  BY <1>7, SetDLQKeeps
<1>8. ASSUME NEW c \in Consumers, Resume(c) \/ Abort(c) PROVE FifoInv'
  BY <1>8, ResumeKeeps, AbortKeeps
<1>9. CASE Close \/ VisTick \/ StopLoop
  BY <1>9, CloseKeeps
<1>10. CASE ReclaimExpired
  BY <1>10, ReclaimExpiredKeeps
<1>11. CASE Tick
  BY <1>11, TickKeeps
<1>12. CASE UNCHANGED vars
  BY <1>12, StutterKeeps
<1> QED
  BY <1>1, <1>2, <1>3, <1>4, <1>5, <1>6, <1>7, <1>8, <1>9, <1>10, <1>11, <1>12
  DEF Next, Client

(* The inductive invariant: the fields keep their types, an id stays in the *)
(* deduplication cache for a window, the timer covers the heap, the record  *)
(* is well formed, and each group delivers its messages in turn; with       *)
(* batches of one, also every message is in one place and locks its group.  *)
THEOREM Invariance == Spec => []FifoInv
<1>1. Init => FifoInv
  BY InitKeeps
<1>2. FifoInv /\ [Next]_vars => FifoInv'
  BY StepKeeps
<1> QED
  BY <1>1, <1>2, PTL DEF Spec

-----------------------------------------------------------------------------
(* The properties of the module.                                           *)

LEMMA InvType == FifoInv => TypeOK
<1> SUFFICES ASSUME FifoInv PROVE TypeOK
  OBVIOUS
<1>1. /\ q \in QType /\ Formed(q) /\ LogInv /\ removed \subseteq Sent
      /\ \A h \in q.inflight : 1 <= h.n
  BY DEF FifoInv, QueueInv, Sane, Formed
<1>2. ASSUME NEW g \in DOMAIN q.messages, NEW m \in ToSet(q.messages[g])
      PROVE  m \in Messages /\ GroupOf[m] = g
  <2>1. Buffer(q, g) = q.messages[g] /\ Buffer(q, g) \in Seq(Messages)
    BY <1>1, BufferIs
  <2> QED
    BY <1>1, <1>2, <2>1, SeqIs DEF Formed
<1>3. \A h \in q.inflight : h.msg \in Messages /\ h.n \in Nat \ {0}
  BY <1>1, FlyingIs
<1>4. \A e \in q.heap : e.value.msg \in Messages /\ e.left \in Nat
  BY <1>1 DEF QType, EntryType, HandleType
<1>5. q.locked \subseteq DOMAIN q.messages
  BY <1>1 DEF Formed
<1>6. q.count \in [Messages -> Nat] /\ q.redriven \in [Messages -> Nat]
  BY <1>1 DEF QType
<1>7. Sent \cup removed \subseteq Messages
  BY <1>1, SentIs
<1>8. call \in [Consumers -> [state : {"idle", "parked", "signalled"},
                              left : Nat, max : Nat, vis : Nat]]
  BY DEF FifoInv, FieldsOK, CallType
<1> QED
  BY <1>2, <1>3, <1>4, <1>5, <1>6, <1>7, <1>8 DEF TypeOK, FifoInv, FieldsOK

(* For any messages, groups and parameters the fields of FIFOQueue keep     *)
(* their types, a message waits only in its own group, and only groups that *)
(* exist are locked.                                                        *)
THEOREM TypeCorrect == Spec => []TypeOK
BY Invariance, InvType, PTL

(* For any messages, groups and parameters: groupOrder lists the groups     *)
(* that exist, each once, whatever sends, receives, clean-ups and purges    *)
(* did to the two; each message in flight is in the heap, and the running   *)
(* loop's timer is set for no later than the first deadline there.          *)
THEOREM NothingStrands == Spec => []NothingStranded
<1>1. FifoInv => NothingStranded
  <2> SUFFICES ASSUME FifoInv PROVE NothingStranded
    OBVIOUS
  <2>1. GroupsListed
    BY DEF FifoInv, QueueInv, Sane, Formed, NoRepeat, GroupsListed
  <2>2. ExpiryScheduled
    BY DEF FifoInv, QueueInv, Scheduled, Armed, ExpiryScheduled
  <2> QED
    BY <2>1, <2>2 DEF NothingStranded
<1> QED
  BY <1>1, Invariance, PTL

(* While every receive asks for one message: an accepted message is in its  *)
(* group, in flight under one handle or in the DLQ, in one of them and      *)
(* once, until a client deletes or purges it.                               *)
THEOREM OnePlace ==
    ASSUME Batches \subseteq {1}
    PROVE  Spec => []ExactlyOnePlace
<1>1. ASSUME FifoInv PROVE ExactlyOnePlace
  <2>1. Placed(q, {}) /\ q \in QType
    BY <1>1 DEF FifoInv, QueueInv, Single, Sane, Formed
  <2>2. \A m \in Messages : /\ InQueue(m) <=> Ready(q, m)
                            /\ InFlight(m) <=> Flying(q, m)
                            /\ InDLQ(m) <=> q.redriven[m] > 0
                            /\ q.redriven[m] \in Nat
    BY <2>1 DEF InQueue, Queued, InFlight, InDLQ, Ready, Flying, QType
  <2>3. ASSUME NEW g \in DOMAIN q.messages
        PROVE  \A i, j \in DOMAIN q.messages[g] :
                  q.messages[g][i] = q.messages[g][j] => i = j
    <3>1. Buffer(q, g) = q.messages[g]
      BY <2>1, BufferIs
    <3> QED
      BY <2>1, <3>1 DEF Placed, NoRepeat
  <2>4. \A m \in Messages :
          /\ q.redriven[m] <= 1
          /\ InQueue(m) => ~InFlight(m) /\ ~InDLQ(m)
          /\ InFlight(m) => ~InDLQ(m)
          /\ m \in Sent \ removed <=> InQueue(m) \/ InFlight(m) \/ InDLQ(m)
    BY <2>1, <2>2 DEF Placed
  <2> QED
    BY <2>1, <2>3, <2>4 DEF ExactlyOnePlace, Placed
<1>2. FifoInv => ExactlyOnePlace
  BY <1>1
<1> QED
  BY <1>2, Invariance, PTL

(* While every receive asks for one message: a receive delivers nothing     *)
(* from a group that still has a message in flight.                         *)
THEOREM GroupsLocked ==
    ASSUME Batches \subseteq {1}
    PROVE  Spec => GroupLocked
<1> DEFINE Locked == \A h \in q'.inflight \ q.inflight, x \in q.inflight \cap q'.inflight :
                        GroupOf[h.msg] # GroupOf[x.msg]
<1>1. FifoInv' => [Locked]_vars
  BY DEF FifoInv, QueueInv, Single, Held
<1> HIDE DEF Locked
<1>2. Spec => [][Locked]_vars
  BY <1>1, Invariance, PTL
<1> USE DEF Locked
<1> QED
  BY <1>2 DEF GroupLocked

(* A step that sends or removes a message, or passes time, delivers none.   *)
LEMMA CountsStay ==
    ASSUME FifoInv, [Next]_vars
    PROVE  \/ q'.count = q.count
           \/ log' = log /\ delay' = delay /\ removed' = removed
<1>1. q \in QType
  BY DEF FifoInv, QueueInv, Sane, Formed
<1>2. ASSUME NEW m \in Messages, NEW t \in DelaysOf[m], Send(m, t)
      PROVE  q'.count = q.count
  BY <1>1, <1>2, PushIs DEF Send
<1>3. ASSUME NEW h \in q.inflight, Delete(h) PROVE q'.count = q.count
  BY <1>1, <1>3 DEF Delete, Unlock, RemoveByValue, QType
<1>4. Purge \/ Tick => q'.count = q.count
  BY <1>1 DEF Purge, Tick, QType
<1>5. ASSUME \/ \E c \in Consumers, k \in Batches, v \in Timeouts, w \in Waits :
                   Receive(c, k, v, w)
             \/ \E h \in q.inflight : Release(h)
             \/ \E h \in q.inflight, t \in Extensions : Extend(h, t)
             \/ \E p \in Policies : SetDLQ(p)
             \/ Close \/ VisTick \/ ReclaimExpired \/ StopLoop
             \/ \E c \in Consumers : Resume(c) \/ Abort(c)
             \/ UNCHANGED vars
      PROVE  log' = log /\ delay' = delay /\ removed' = removed
  BY <1>5 DEF Receive, Refill, Release, Extend, SetDLQ, Close, VisTick,
              ReclaimExpired, StopLoop, Resume, Abort, vars
<1> QED
  BY <1>2, <1>3, <1>4, <1>5 DEF Next, Client

(* For any batches, groups and parameters: a message is not delivered for   *)
(* the first time before an earlier one of its group that was sent without  *)
(* a delay and still waits for its first delivery.                          *)
THEOREM FirstDeliveriesInOrder == Spec => FirstDeliveryInOrder
<1> DEFINE InOrder == \A g \in Groups : \A i, j \in 1..Len(log[g]) :
              LET early == log[g][i].msg
                  late == log[g][j].msg
              IN  /\ i < j /\ log[g][i].delay = 0
                  /\ q.count[late] = 0 /\ q'.count[late] = 1
                  => q'.count[early] > 0 \/ early \in removed
<1>1. FifoInv /\ FifoInv' /\ [Next]_vars => [InOrder]_vars
  <2> SUFFICES ASSUME FifoInv, FifoInv', [Next]_vars,
                      NEW g \in Groups, NEW i \in 1 .. Len(log[g]), NEW j \in 1 .. Len(log[g]),
                      i < j, log[g][i].delay = 0,
                      q.count[log[g][j].msg] = 0, q'.count[log[g][j].msg] = 1,
                      log[g][i].msg \notin removed
               PROVE  q'.count[log[g][i].msg] > 0
    OBVIOUS
  <2>1. PICK early, late : early = log[g][i].msg /\ late = log[g][j].msg
    OBVIOUS
  <2>2. log' = log /\ delay' = delay /\ removed' = removed
    BY CountsStay
  <2>3. Precedes(early, late)'
    BY <2>1, <2>2 DEF Precedes
  <2>4. Sane(q)' /\ LogInv
    BY DEF FifoInv, QueueInv
  <2>5. q'.count \in [Messages -> Nat] /\ early \in Messages
    BY <2>1, <2>4, SentIs DEF Sane, Formed, QType
  <2>6. q'.count[early] # 0
    BY <2>1, <2>2, <2>3, <2>4 DEF Sane, InTurn
  <2> QED
    BY <2>1, <2>5, <2>6
<1> HIDE DEF InOrder
<1>2. Spec => [][InOrder]_vars
  BY <1>1, Invariance, PTL DEF Spec
<1> USE DEF InOrder
<1> QED
  BY <1>2 DEF FirstDeliveryInOrder

(* Only SendMessage accepts a message, and only one that is no duplicate.   *)
LEMMA SendsAre ==
    ASSUME FifoInv, [Next]_vars, NEW m \in Sent' \ Sent
    PROVE  m \in Messages /\ ~ Duplicate(m)
<1>1. ASSUME log' = log PROVE FALSE
  BY <1>1 DEF Sent, Sends
<1>2. LogInv /\ delay \in [Messages -> Nat]
  BY DEF FifoInv, QueueInv, FieldsOK
<1>3. ASSUME Tick PROVE FALSE
  BY <1>2, <1>3, LogTick DEF Tick
<1>4. ASSUME NEW x \in Messages, NEW t \in DelaysOf[x], Send(x, t)
      PROVE  m \in Messages /\ ~ Duplicate(m)
  <2>1. t \in Nat
    BY FifoParametersAssumption
  <2>2. Sent' = Sent \cup {x}
    BY <1>2, <1>4, <2>1, LogSend DEF Send
  <2> QED
    BY <1>4, <2>2 DEF Send
<1>5. ASSUME \/ \E c \in Consumers, k \in Batches, v \in Timeouts, w \in Waits :
                   Receive(c, k, v, w)
             \/ \E h \in q.inflight : Delete(h) \/ Release(h)
             \/ \E h \in q.inflight, t \in Extensions : Extend(h, t)
             \/ \E p \in Policies : SetDLQ(p)
             \/ Purge \/ Close \/ VisTick \/ ReclaimExpired \/ StopLoop
             \/ \E c \in Consumers : Resume(c) \/ Abort(c)
             \/ UNCHANGED vars
      PROVE  log' = log
  BY <1>5 DEF Receive, Refill, Delete, Release, Extend, SetDLQ, Purge, Close, VisTick,
              ReclaimExpired, StopLoop, Resume, Abort, vars
<1> QED
  BY <1>1, <1>3, <1>4, <1>5 DEF Next, Client

(* For any batches, windows and parameters: two sends with one              *)
(* deduplication id are accepted at least a window apart, whatever became   *)
(* of the first message.                                                    *)
THEOREM DedupWindowHolds == Spec => DedupWindow
<1> DEFINE Apart == \A m \in Sent' \ Sent, e \in Sends :
              DedupOf[m] \cap DedupOf[e.msg] # {} => e.age = Window
<1>1. FifoInv /\ [Next]_vars => [Apart]_vars
  <2> SUFFICES ASSUME FifoInv, [Next]_vars, NEW m \in Sent' \ Sent, NEW e \in Sends,
                      DedupOf[m] \cap DedupOf[e.msg] # {}
               PROVE  e.age = Window
    OBVIOUS
  <2>1. m \in Messages /\ ~ Duplicate(m)
    BY SendsAre
  <2>2. PICK d \in DedupOf[m] : d \in DedupOf[e.msg]
    OBVIOUS
  <2>3. log \in [Groups -> Seq(LogEntries)] /\ dedup \in [DedupIds -> 0 .. Window]
    BY DEF FifoInv, QueueInv, LogInv, FieldsOK
  <2>4. PICK g \in Groups : e \in ToSet(log[g])
    BY DEF Sends
  <2>5. log[g] \in Seq(LogEntries)
    BY <2>3
  <2>6. PICK i \in 1 .. Len(log[g]) : log[g][i] = e
    BY <2>4, <2>5, SeqIs
  <2>7. e \in LogEntries
    BY <2>5, <2>6
  <2>8. dedup[d] + e.age >= Window
    BY <2>2, <2>6 DEF FifoInv, DedupCovers
  <2>9. d \in DedupIds /\ Window \in Nat
    BY <2>1, <2>2, FifoParametersAssumption
  <2>10. dedup[d] = 0
    BY <2>1, <2>2, <2>3, <2>9 DEF Duplicate
  <2> QED
    BY <2>7, <2>8, <2>9, <2>10 DEF LogEntries
<1> HIDE DEF Apart
<1>2. Spec => [][Apart]_vars
  BY <1>1, Invariance, PTL DEF Spec
<1> USE DEF Apart
<1> QED
  BY <1>2 DEF DedupWindow
=============================================================================
