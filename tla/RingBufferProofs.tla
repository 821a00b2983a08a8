------------------------- MODULE RingBufferProofs -------------------------
(***************************************************************************)
(* The ring buffer is a first-in first-out sequence, for any items and any *)
(* capacity: what the SQS modules use in its place.                        *)
(***************************************************************************)
EXTENDS RingBuffer, TLAPS

(* Indexes wrap round at most once.                                        *)
LEMMA Wrap ==
    ASSUME NEW c \in Nat \ {0}, NEW a \in Nat, a < 2 * c
    PROVE  /\ a % c \in 0 .. c - 1
           /\ a < c => a % c = a
           /\ a >= c => a % c = a - c
OBVIOUS

LEMMA WrapSum ==
    ASSUME NEW c \in Nat \ {0}, NEW h \in 0 .. c - 1, NEW i \in 0 .. c
    PROVE  /\ (h + i) % c \in 0 .. c - 1
           /\ h + i < c => (h + i) % c = h + i
           /\ h + i >= c => (h + i) % c = h + i - c
<1>1. h + i \in Nat /\ h + i < 2 * c
  OBVIOUS
<1>2. PICK a \in Nat : a = h + i
  BY <1>1
<1>3. a % c \in 0 .. c - 1 /\ (a < c => a % c = a) /\ (a >= c => a % c = a - c)
  BY <1>1, <1>2, Wrap
<1>4. (h + i) % c = a % c
  BY <1>2, Zenon
<1>5. PICK m \in 0 .. c - 1 : m = a % c
  BY <1>3, Zenon
<1>6. (a < c => m = a) /\ (a >= c => m = a - c)
  BY <1>3, <1>5, Zenon
<1>7. /\ h + i < c => m = h + i
      /\ h + i >= c => m = h + i - c
  BY <1>2, <1>6
<1> QED
  BY <1>4, <1>5, <1>7, Zenon

LEMMA Slots ==
    ASSUME NEW rb, InOrder(rb), NEW i \in 0 .. rb.cap
    PROVE  /\ Slot(rb, i) \in 0 .. rb.cap - 1
           /\ rb.head + i < rb.cap => Slot(rb, i) = rb.head + i
           /\ rb.head + i >= rb.cap => Slot(rb, i) = rb.head + i - rb.cap
<1>1. rb.cap \in Nat \ {0} /\ rb.head \in 0 .. rb.cap - 1
  BY DEF InOrder
<1> QED
  BY <1>1, WrapSum, Zenon DEF Slot

(* Every slot is at one distance from the head.                            *)
LEMMA Distance ==
    ASSUME NEW rb, InOrder(rb), NEW k \in 0 .. rb.cap - 1
    PROVE  \E i \in 0 .. rb.cap - 1 : Slot(rb, i) = k
<1>1. rb.cap \in Nat \ {0} /\ rb.head \in 0 .. rb.cap - 1
  BY DEF InOrder
<1>2. CASE k >= rb.head
  <2>1. k - rb.head \in 0 .. rb.cap - 1 /\ rb.head + (k - rb.head) = k
    BY <1>1, <1>2
  <2> QED
    BY <1>1, <2>1, Slots
<1>3. CASE k < rb.head
  <2>1. /\ k - rb.head + rb.cap \in 0 .. rb.cap - 1
        /\ rb.head + (k - rb.head + rb.cap) - rb.cap = k
        /\ rb.head + (k - rb.head + rb.cap) >= rb.cap
    BY <1>1, <1>3
  <2> QED
    BY <1>1, <2>1, Slots
<1> QED
  BY <1>1, <1>2, <1>3

LEMMA Distinct ==
    ASSUME NEW rb, InOrder(rb), NEW i \in 0 .. rb.cap - 1, NEW j \in 0 .. rb.cap - 1,
           Slot(rb, i) = Slot(rb, j)
    PROVE  i = j
<1>1. rb.cap \in Nat \ {0} /\ rb.head \in 0 .. rb.cap - 1
  BY DEF InOrder
<1> QED
  BY <1>1, Slots

LEMMA ContentsType ==
    ASSUME NEW rb, InOrder(rb)
    PROVE  /\ Contents(rb) \in Seq(Items) /\ Len(Contents(rb)) = rb.len
           /\ \A i \in 1 .. rb.len : Contents(rb)[i] = rb.buf[Slot(rb, i - 1)]
<1>1. rb.len \in Nat /\ rb.cap \in Nat \ {0} /\ rb.len <= rb.cap
  BY DEF InOrder
<1>2. ASSUME NEW i \in 1 .. rb.len
      PROVE  rb.buf[Slot(rb, i - 1)] \in Items
  <2>1. i - 1 \in 0 .. rb.cap - 1 /\ i - 1 < rb.len
    BY <1>1
  <2> QED
    BY <2>1 DEF InOrder
<1> QED
  BY <1>1, <1>2 DEF Contents

-----------------------------------------------------------------------------
(* A new buffer is empty (NewRingBuffer). *)
THEOREM NewIsEmpty ==
    ASSUME NEW n \in Nat
    PROVE  /\ InOrder(NewRingBuffer(n))
           /\ Contents(NewRingBuffer(n)) = <<>>
<1> DEFINE rb == NewRingBuffer(n)
<1>1. /\ rb.cap \in Nat \ {0} /\ rb.head = 0 /\ rb.tail = 0 /\ rb.len = 0
      /\ rb.buf = [i \in 0 .. rb.cap - 1 |-> Zero]
      /\ rb = [buf |-> rb.buf, head |-> rb.head, tail |-> rb.tail,
               len |-> rb.len, cap |-> rb.cap]
  BY DEF NewRingBuffer
<1> HIDE DEF rb
<1>2. ASSUME NEW i \in 0 .. rb.cap - 1
      PROVE  Slot(rb, i) = i
  BY <1>1, Wrap DEF Slot
<1>3. InOrder(rb)
  BY <1>1, <1>2 DEF InOrder, Array
<1> QED
  BY <1>1, <1>3, ContentsType DEF rb

(* Growing keeps the contents and makes room, wherever the items wrap      *)
(* round the end of the old buffer (grow).                                 *)
THEOREM GrowKeeps ==
    ASSUME NEW rb, InOrder(rb), rb.len = rb.cap
    PROVE  /\ InOrder(Grow(rb)) /\ Grow(rb).len < Grow(rb).cap
           /\ Contents(Grow(rb)) = Contents(rb)
<1> DEFINE g == Grow(rb)
<1>1. /\ rb.cap \in Nat \ {0} /\ rb.head \in 0 .. rb.cap - 1 /\ rb.tail = rb.head
      /\ Copied(rb) = rb.cap
  <2>1. rb.cap \in Nat \ {0} /\ rb.head \in 0 .. rb.cap - 1
        /\ rb.tail = Slot(rb, rb.cap)
    BY DEF InOrder
  <2>2. rb.tail = rb.head
    BY <2>1, Slots
  <2> QED
    BY <2>1, <2>2 DEF Copied
<1>2. /\ g.cap = 2 * rb.cap /\ g.head = 0 /\ g.tail = rb.cap /\ g.len = rb.cap
      /\ g = [buf |-> g.buf, head |-> g.head, tail |-> g.tail,
              len |-> g.len, cap |-> g.cap]
      /\ g.buf = [i \in 0 .. 2 * rb.cap - 1 |->
                    IF i >= rb.cap THEN Zero
                    ELSE IF i < rb.cap - rb.head
                      THEN rb.buf[rb.head + i]
                      ELSE rb.buf[i - (rb.cap - rb.head)]]
  BY <1>1 DEF Grow
<1> HIDE DEF g
<1>3. ASSUME NEW i \in 0 .. rb.cap - 1
      PROVE  g.buf[i] = rb.buf[Slot(rb, i)] /\ g.buf[i] \in Items
  <2>1. g.buf[i] = rb.buf[Slot(rb, i)]
    <3>1. i \in 0 .. 2 * rb.cap - 1 /\ ~ (i >= rb.cap) /\ i \in 0 .. rb.cap
      BY <1>1
    <3>2. CASE i < rb.cap - rb.head
      <4>1. rb.head + i < rb.cap
        BY <1>1, <3>2
      <4>2. Slot(rb, i) = rb.head + i
        BY <3>1, <4>1, Slots
      <4>3. g.buf[i] = rb.buf[rb.head + i]
        BY <1>2, <3>1, <3>2
      <4> QED
        BY <4>2, <4>3
    <3>3. CASE ~ (i < rb.cap - rb.head)
      <4>1. rb.head + i >= rb.cap /\ rb.head + i - rb.cap = i - (rb.cap - rb.head)
        BY <1>1, <3>3
      <4> QED
        BY <1>1, <1>2, <3>1, <3>3, <4>1, Slots
    <3> QED
      BY <3>2, <3>3
  <2> QED
    BY <2>1 DEF InOrder
<1>4. ASSUME NEW i \in 0 .. g.cap - 1
      PROVE  /\ Slot(g, i) = i
             /\ g.buf[i] \in IF i < g.len THEN Items ELSE {Zero}
  <2>1. Slot(g, i) = i
    <3>1. i \in Nat /\ i < g.cap /\ g.cap \in Nat \ {0} /\ i < 2 * g.cap
      BY <1>1, <1>2
    <3>2. i % g.cap = i
      BY <3>1, Wrap
    <3> QED
      BY <1>2, <3>1, <3>2 DEF Slot
  <2>2. CASE i < g.len
    <3>1. i \in 0 .. rb.cap - 1
      BY <1>1, <1>2, <2>2
    <3> QED
      BY <1>3, <2>1, <2>2, <3>1
  <2>3. CASE ~ (i < g.len)
    BY <1>1, <1>2, <2>1, <2>3
  <2> QED
    BY <2>1, <2>2, <2>3
<1>5. InOrder(g) /\ g.len < g.cap
  <2>1. g.cap \in Nat \ {0} /\ g.len \in 0 .. g.cap /\ g.len < g.cap
        /\ g.tail \in 0 .. g.cap - 1 /\ g.head \in 0 .. g.cap - 1
    BY <1>1, <1>2
  <2>2. g.buf \in Array(g.cap)
    <3>1. \A i \in 0 .. g.cap - 1 : g.buf[i] \in Items \cup {Zero}
      BY <1>4
    <3> QED
      BY <1>2, <3>1 DEF Array
  <2>3. g.tail = Slot(g, g.len)
    BY <1>2, <1>4, <2>1
  <2> QED
    BY <1>2, <1>4, <2>1, <2>2, <2>3 DEF InOrder
<1>6. Contents(g) = Contents(rb)
  <2>1. \A i \in 1 .. rb.cap :
           i - 1 \in 0 .. rb.cap - 1 /\ i - 1 \in 0 .. g.cap - 1
    BY <1>1, <1>2
  <2>2. \A i \in 1 .. rb.cap : g.buf[Slot(g, i - 1)] = rb.buf[Slot(rb, i - 1)]
    BY <1>3, <1>4, <2>1
  <2> QED
    BY <1>2, <2>2 DEF Contents
<1> QED
  BY <1>5, <1>6 DEF g

LEMMA StoreAppends ==
    ASSUME NEW rb, InOrder(rb), rb.len < rb.cap, NEW item \in Items
    PROVE  /\ InOrder(Store(rb, item))
           /\ Contents(Store(rb, item)) = Append(Contents(rb), item)
<1> DEFINE s == Store(rb, item)
<1>1. /\ rb.cap \in Nat \ {0} /\ rb.head \in 0 .. rb.cap - 1
      /\ rb.len \in 0 .. rb.cap - 1 /\ rb.tail \in 0 .. rb.cap - 1
      /\ rb.buf \in Array(rb.cap) /\ rb.tail = Slot(rb, rb.len)
  BY DEF InOrder
<1>2. /\ s = [buf |-> [rb.buf EXCEPT ![rb.tail] = item], head |-> rb.head,
              tail |-> (rb.tail + 1) % rb.cap, len |-> rb.len + 1,
              cap |-> rb.cap]
  BY DEF Store
<1>3. /\ s.head = rb.head /\ s.cap = rb.cap /\ s.len = rb.len + 1
      /\ s.tail = (rb.tail + 1) % rb.cap
      /\ s.buf = [rb.buf EXCEPT ![rb.tail] = item]
      /\ s = [buf |-> s.buf, head |-> s.head, tail |-> s.tail,
              len |-> s.len, cap |-> s.cap]
  BY <1>2
<1> HIDE DEF s
<1>4. \A i : Slot(s, i) = Slot(rb, i)
  BY <1>3 DEF Slot
<1>5. ASSUME NEW i \in 0 .. rb.cap - 1
      PROVE  s.buf[Slot(s, i)] = IF i = rb.len THEN item ELSE rb.buf[Slot(rb, i)]
  <2>1. Slot(rb, i) \in 0 .. rb.cap - 1 /\ (i # rb.len => Slot(rb, i) # rb.tail)
    BY <1>1, Slots, Distinct
  <2> QED
    BY <1>1, <1>3, <1>4, <2>1 DEF Array
<1>6. s.tail = Slot(rb, rb.len + 1) /\ s.tail \in 0 .. rb.cap - 1
  <2>1. /\ rb.len \in 0 .. rb.cap /\ rb.len + 1 \in 0 .. rb.cap
        /\ rb.tail + 1 \in Nat /\ rb.tail + 1 < 2 * rb.cap
    BY <1>1
  <2>2. /\ rb.tail + 1 < rb.cap => s.tail = rb.tail + 1
        /\ rb.tail + 1 >= rb.cap => s.tail = rb.tail + 1 - rb.cap
    BY <1>1, <1>3, <2>1, Wrap
  <2>3. /\ rb.head + rb.len < rb.cap => rb.tail = rb.head + rb.len
        /\ rb.head + rb.len >= rb.cap => rb.tail = rb.head + rb.len - rb.cap
    BY <1>1, <2>1, Slots
  <2>4. /\ Slot(rb, rb.len + 1) \in 0 .. rb.cap - 1
        /\ rb.head + (rb.len + 1) < rb.cap
             => Slot(rb, rb.len + 1) = rb.head + (rb.len + 1)
        /\ rb.head + (rb.len + 1) >= rb.cap
             => Slot(rb, rb.len + 1) = rb.head + (rb.len + 1) - rb.cap
    BY <2>1, Slots
  <2> QED
    BY <1>1, <2>2, <2>3, <2>4
<1>7. InOrder(s)
  <2>1. s.buf \in Array(s.cap)
    BY <1>1, <1>3 DEF Array
  <2>2. ASSUME NEW i \in 0 .. s.cap - 1
        PROVE  s.buf[Slot(s, i)] \in IF i < s.len THEN Items ELSE {Zero}
    <3>1. i \in 0 .. rb.cap - 1
          /\ rb.buf[Slot(rb, i)] \in IF i < rb.len THEN Items ELSE {Zero}
      BY <1>3 DEF InOrder
    <3> QED
      BY <1>1, <1>3, <1>5, <3>1
  <2> QED
    BY <1>1, <1>3, <1>4, <1>6, <2>1, <2>2 DEF InOrder
<1>8. Contents(s) = Append(Contents(rb), item)
  <2>1. ASSUME NEW i \in 1 .. rb.len + 1
        PROVE  Contents(s)[i] = Append(Contents(rb), item)[i]
    <3>1. i - 1 \in 0 .. rb.cap - 1 /\ (i - 1 = rb.len <=> i = rb.len + 1)
          /\ (i # rb.len + 1 => i \in 1 .. rb.len)
      BY <1>1
    <3>2. Contents(s)[i]
            = IF i = rb.len + 1 THEN item ELSE rb.buf[Slot(rb, i - 1)]
      BY <1>3, <1>5, <3>1 DEF Contents
    <3> QED
      BY <1>1, <3>1, <3>2, ContentsType
  <2>2. /\ Contents(s) \in Seq(Items) /\ Len(Contents(s)) = rb.len + 1
        /\ Append(Contents(rb), item) \in Seq(Items)
        /\ Len(Append(Contents(rb), item)) = rb.len + 1
    BY <1>1, <1>3, <1>7, ContentsType
  <2> QED
    BY <2>1, <2>2
<1> QED
  BY <1>7, <1>8 DEF s

(* Push puts its item behind all others, also when the buffer was full     *)
(* and wrapped round (Push, grow).                                         *)
THEOREM PushAppends ==
    ASSUME NEW rb, InOrder(rb), NEW item \in Items
    PROVE  /\ InOrder(Push(rb, item))
           /\ Contents(Push(rb, item)) = Append(Contents(rb), item)
<1>1. CASE rb.len = rb.cap
  BY <1>1, GrowKeeps, StoreAppends DEF Push
<1>2. CASE rb.len # rb.cap
  <2>1. rb.len < rb.cap
    BY <1>2 DEF InOrder
  <2> QED
    BY <1>2, <2>1, StoreAppends DEF Push
<1> QED
  BY <1>1, <1>2

(* Pop returns the oldest item and leaves the others in order, and leaves  *)
(* no reference to the popped item behind (Pop).                           *)
THEOREM PopRemoves ==
    ASSUME NEW rb, InOrder(rb), rb.len # 0
    PROVE  /\ Popped(rb) = Head(Contents(rb))
           /\ InOrder(Pop(rb))
           /\ Contents(Pop(rb)) = Tail(Contents(rb))
<1> DEFINE p == Pop(rb)
<1>1. /\ rb.cap \in Nat \ {0} /\ rb.head \in 0 .. rb.cap - 1
      /\ rb.len \in 1 .. rb.cap /\ rb.tail \in 0 .. rb.cap - 1
      /\ rb.buf \in Array(rb.cap) /\ rb.tail = Slot(rb, rb.len)
  BY DEF InOrder
<1>2. /\ p = [buf |-> [rb.buf EXCEPT ![rb.head] = Zero],
              head |-> (rb.head + 1) % rb.cap, tail |-> rb.tail,
              len |-> rb.len - 1, cap |-> rb.cap]
  BY DEF Pop, InOrder
<1>3. /\ p.head = (rb.head + 1) % rb.cap /\ p.cap = rb.cap /\ p.len = rb.len - 1
      /\ p.tail = rb.tail /\ p.buf = [rb.buf EXCEPT ![rb.head] = Zero]
      /\ p = [buf |-> p.buf, head |-> p.head, tail |-> p.tail,
              len |-> p.len, cap |-> p.cap]
  BY <1>2
<1> HIDE DEF p
<1>4. /\ p.head \in 0 .. rb.cap - 1
      /\ rb.head + 1 < rb.cap => p.head = rb.head + 1
      /\ rb.head + 1 >= rb.cap => p.head = 0
  <2>1. rb.head + 1 \in Nat /\ rb.head + 1 < 2 * rb.cap
        /\ (rb.head + 1 >= rb.cap => rb.head + 1 - rb.cap = 0)
    BY <1>1
  <2> QED
    BY <1>1, <1>3, <2>1, Wrap
<1>5. ASSUME NEW i \in 0 .. rb.cap - 1
      PROVE  Slot(p, i) = Slot(rb, i + 1)
  <2>1. /\ p.head + i \in Nat /\ p.head + i < 2 * rb.cap /\ i + 1 \in 0 .. rb.cap
    BY <1>1, <1>4
  <2>2. /\ p.head + i < rb.cap => Slot(p, i) = p.head + i
        /\ p.head + i >= rb.cap => Slot(p, i) = p.head + i - rb.cap
    BY <1>1, <1>3, <2>1, Wrap DEF Slot
  <2>3. /\ rb.head + (i + 1) < rb.cap => Slot(rb, i + 1) = rb.head + (i + 1)
        /\ rb.head + (i + 1) >= rb.cap
             => Slot(rb, i + 1) = rb.head + (i + 1) - rb.cap
    BY <2>1, Slots
  <2> QED
    BY <1>1, <1>4, <2>2, <2>3
<1>6. Slot(rb, 0) = rb.head /\ Slot(rb, rb.cap) = rb.head
  BY <1>1, Slots
<1>7. ASSUME NEW i \in 0 .. rb.cap - 1
      PROVE  p.buf[Slot(p, i)] = IF i = rb.cap - 1 THEN Zero
                                 ELSE rb.buf[Slot(rb, i + 1)]
  <2>1. CASE i = rb.cap - 1
    <3>1. Slot(p, i) = rb.head
      BY <1>1, <1>5, <1>6, <2>1
    <3> QED
      BY <1>1, <1>3, <2>1, <3>1 DEF Array
  <2>2. CASE i # rb.cap - 1
    <3>1. i + 1 \in 0 .. rb.cap - 1 /\ i + 1 # 0 /\ 0 \in 0 .. rb.cap - 1
          /\ i + 1 \in 0 .. rb.cap
      BY <1>1, <2>2
    <3>2. Slot(rb, i + 1) # rb.head /\ Slot(rb, i + 1) \in 0 .. rb.cap - 1
      BY <1>6, <3>1, Slots, Distinct
    <3> QED
      BY <1>1, <1>3, <1>5, <2>2, <3>2 DEF Array
  <2> QED
    BY <2>1, <2>2
<1>8. InOrder(p)
  <2>1. p.buf \in Array(p.cap)
    BY <1>1, <1>3 DEF Array
  <2>2. ASSUME NEW i \in 0 .. p.cap - 1
        PROVE  p.buf[Slot(p, i)] \in IF i < p.len THEN Items ELSE {Zero}
    <3>1. CASE i = rb.cap - 1
      BY <1>1, <1>3, <1>7, <3>1
    <3>2. CASE i # rb.cap - 1
      <4>1. i + 1 \in 0 .. rb.cap - 1 /\ (i + 1 < rb.len <=> i < p.len)
            /\ i \in 0 .. rb.cap - 1
        BY <1>1, <1>3, <3>2
      <4>2. rb.buf[Slot(rb, i + 1)] \in IF i + 1 < rb.len THEN Items ELSE {Zero}
        BY <4>1 DEF InOrder
      <4> QED
        BY <1>7, <3>2, <4>1, <4>2
    <3> QED
      BY <3>1, <3>2
  <2>3. p.tail = Slot(p, p.len) /\ p.len \in 0 .. p.cap
    <3>1. p.len \in 0 .. rb.cap - 1 /\ p.len + 1 = rb.len
      BY <1>1, <1>3
    <3> QED
      BY <1>1, <1>3, <1>5, <3>1
  <2> QED
    BY <1>1, <1>3, <1>4, <2>1, <2>2, <2>3 DEF InOrder
<1>9. Popped(rb) = Head(Contents(rb))
  <2>1. Contents(rb) # <<>> /\ Head(Contents(rb)) = Contents(rb)[1] /\ 1 \in 1 .. rb.len
    BY <1>1, ContentsType
  <2>2. Contents(rb)[1] = rb.buf[Slot(rb, 0)]
    BY <2>1, ContentsType
  <2> QED
    BY <1>6, <2>1, <2>2 DEF Popped
<1>10. Contents(p) = Tail(Contents(rb))
  <2>1. /\ Contents(p) \in Seq(Items) /\ Len(Contents(p)) = rb.len - 1
        /\ Contents(rb) \in Seq(Items) /\ Len(Contents(rb)) = rb.len
    BY <1>3, <1>8, ContentsType
  <2>2. /\ Tail(Contents(rb)) \in Seq(Items)
        /\ Len(Tail(Contents(rb))) = rb.len - 1
        /\ \A i \in 1 .. rb.len - 1 : Tail(Contents(rb))[i] = Contents(rb)[i + 1]
    BY <1>1, <2>1
  <2>3. ASSUME NEW i \in 1 .. rb.len - 1
        PROVE  Contents(p)[i] = Contents(rb)[i + 1]
    <3>1. /\ i - 1 \in 0 .. rb.cap - 1 /\ i - 1 # rb.cap - 1
          /\ (i - 1) + 1 = (i + 1) - 1 /\ i + 1 \in 1 .. rb.len
          /\ i \in 1 .. p.len
      BY <1>1, <1>3
    <3>2. Contents(p)[i] = p.buf[Slot(p, i - 1)]
      BY <3>1, <1>8, ContentsType
    <3>3. Contents(rb)[i + 1] = rb.buf[Slot(rb, (i + 1) - 1)]
      BY <3>1, ContentsType
    <3> QED
      BY <1>7, <3>1, <3>2, <3>3
  <2> QED
    BY <2>1, <2>2, <2>3
<1> QED
  BY <1>8, <1>9, <1>10 DEF p
=============================================================================
