---------------------------- MODULE RingBuffer ----------------------------
(***************************************************************************)
(* The growing ring buffer of pkg/collections/ringbuffer.go, which holds   *)
(* the ready messages of an SQS queue, or of one FIFO message group.  Its  *)
(* callers hold the queue's mutex, so each method is an operator on the    *)
(* value of the buffer.                                                    *)
(***************************************************************************)
EXTENDS Integers, Sequences

CONSTANTS
    Items,
    Zero            \* the zero value of T, a nil pointer

(* buf is an array, indexed from 0. *)
Array(n) == [0 .. n - 1 -> Items \cup {Zero}]

NewRingBuffer(initialCap) ==
    LET cap == IF initialCap < 4 THEN 4 ELSE initialCap
    IN  [buf |-> [i \in 0 .. cap - 1 |-> Zero],
         head |-> 0, tail |-> 0, len |-> 0, cap |-> cap]

(* What both branches of grow copy: from head up to tail, or round the end. *)
Copied(rb) == IF rb.head < rb.tail THEN rb.tail - rb.head
              ELSE rb.cap - rb.head + rb.tail

Grow(rb) ==
    [buf |-> [i \in 0 .. 2 * rb.cap - 1 |->
                 IF i >= Copied(rb) THEN Zero
                 ELSE IF rb.head < rb.tail \/ i < rb.cap - rb.head
                   THEN rb.buf[rb.head + i]
                   ELSE rb.buf[i - (rb.cap - rb.head)]],
     head |-> 0, tail |-> rb.len, len |-> rb.len, cap |-> 2 * rb.cap]

Store(rb, item) ==
    [buf |-> [rb.buf EXCEPT ![rb.tail] = item], head |-> rb.head,
     tail |-> (rb.tail + 1) % rb.cap, len |-> rb.len + 1, cap |-> rb.cap]

Push(rb, item) == Store(IF rb.len = rb.cap THEN Grow(rb) ELSE rb, item)

(* What Pop returns, and what it leaves; nothing happens to an empty one.  *)
Popped(rb) == rb.buf[rb.head]
Pop(rb) ==
    IF rb.len = 0 THEN rb
    ELSE [rb EXCEPT !.buf[rb.head] = Zero, !.head = (@ + 1) % rb.cap,
                    !.len = @ - 1]

-----------------------------------------------------------------------------
(* The slot of the item at distance i from the head. *)
Slot(rb, i) == (rb.head + i) % rb.cap

(* The buffer as a sequence, from the head on.                             *)
Contents(rb) == [i \in 1 .. rb.len |-> rb.buf[Slot(rb, i - 1)]]

(* A buffer in order: head, tail and len fit each other, and exactly the   *)
(* slots between head and tail hold items, so that nothing that was popped *)
(* is kept from the garbage collector.                                     *)
InOrder(rb) ==
    /\ rb = [buf |-> rb.buf, head |-> rb.head, tail |-> rb.tail,
             len |-> rb.len, cap |-> rb.cap]
    /\ rb.cap \in Nat \ {0} /\ rb.buf \in Array(rb.cap)
    /\ rb.head \in 0 .. rb.cap - 1 /\ rb.tail \in 0 .. rb.cap - 1
    /\ rb.len \in 0 .. rb.cap
    /\ rb.tail = Slot(rb, rb.len)
    /\ \A i \in 0 .. rb.cap - 1 :
          rb.buf[Slot(rb, i)] \in IF i < rb.len THEN Items ELSE {Zero}
=============================================================================
