----------------------------- MODULE RingBuffer -----------------------------
(***************************************************************************)
(* agent/internal/infrastructure/buffer/ring.go: the circular buffer that  *)
(* holds the telemetry batches not yet sent.  Every method takes the mutex *)
(* for its whole body, so one method is one step.                          *)
(***************************************************************************)
EXTENDS Integers, Sequences

CONSTANTS
  Item,             \* the telemetry batches
  NoItem,           \* the zero value of a slot nothing was written to
  Requested,        \* the capacity the caller asks for
  DefaultCapacity   \* what NewRingBuffer uses instead of a capacity <= 0

ASSUME RequestedAssumption == Requested \in Int
ASSUME DefaultCapacityAssumption == DefaultCapacity \in Nat \ {0}
ASSUME NoItemAssumption == NoItem \notin Item

VARIABLES
  items,      \* the slots, indexed from 0
  head,       \* index of the oldest batch
  tail,       \* index of the next slot to write
  size,       \* number of batches held
  returned    \* what the last method returned

ringVars == <<items, head, tail, size, returned>>

Capacity == IF Requested <= 0 THEN DefaultCapacity ELSE Requested

Slot == 0 .. Capacity - 1

\* The i-th slot after `from`, wrapping round.
At(from, i) == (from + i) % Capacity

\* The batches held, oldest first: what Drain copies out.
Contents == [i \in 1 .. size |-> items[At(head, i - 1)]]

NewRingBuffer ==
  /\ items = [s \in Slot |-> NoItem]
  /\ head = 0
  /\ tail = 0
  /\ size = 0
  /\ returned = << >>

\* A slip of Push: the batch is written one slot too far.
PushOneSlotLate(x) ==
  /\ items' = [items EXCEPT ![At(tail, 1)] = x]
  /\ tail' = At(tail, 1)
  /\ size' = IF size < Capacity THEN size + 1 ELSE size
  /\ head' = IF size < Capacity THEN head ELSE At(head, 1)
  /\ returned' = << >>

Push(x) ==
  /\ items' = [items EXCEPT ![tail] = x]
  /\ tail' = At(tail, 1)
  /\ \/ /\ size < Capacity
        /\ size' = size + 1
        /\ UNCHANGED head
     \/ /\ size >= Capacity
        /\ head' = At(head, 1)
        /\ UNCHANGED size
  /\ returned' = << >>

Pop ==
  /\ size # 0
  /\ head' = At(head, 1)
  /\ size' = size - 1
  /\ returned' = << items[head] >>
  /\ UNCHANGED <<items, tail>>

PopEmpty ==
  /\ size = 0
  /\ returned' = << >>
  /\ UNCHANGED <<items, head, tail, size>>

\* A slip of Drain: the batches are copied from the first slot on, not from
\* the oldest one.
DrainFromFirstSlot ==
  /\ size # 0
  /\ returned' = [i \in 1 .. size |-> items[i - 1]]
  /\ head' = 0
  /\ tail' = 0
  /\ size' = 0
  /\ UNCHANGED items

Drain ==
  /\ size # 0
  /\ returned' = Contents
  /\ head' = 0
  /\ tail' = 0
  /\ size' = 0
  /\ UNCHANGED items

\* Drain of an empty buffer returns nil and leaves the indices where they are.
DrainEmpty ==
  /\ size = 0
  /\ returned' = << >>
  /\ UNCHANGED <<items, head, tail, size>>

Method ==
  \/ \E x \in Item : Push(x)
  \/ Pop
  \/ PopEmpty
  \/ Drain
  \/ DrainEmpty

RingSpec == NewRingBuffer /\ [][Method]_ringVars

-----------------------------------------------------------------------------
\* The state of the buffer: indices inside the array and a size within the
\* capacity the constructor settled on (ring.go, type RingBuffer).
RingTypeOK ==
  /\ items \in [Slot -> Item \union {NoItem}]
  /\ head \in Slot
  /\ tail \in Slot
  /\ size \in 0 .. Capacity
  /\ returned \in Seq(Item)

\* The three indices, which the methods update independently, always agree:
\* the next free slot is `size` slots after the oldest batch.  Push on a full
\* buffer and Drain, which resets all three, are where they could drift apart.
IndicesAgree == tail = At(head, size)

\* Every slot between head and tail holds a batch that was pushed: a method
\* never hands out the zero value of a slot nobody wrote.
HeldSlotsWritten == \A i \in 0 .. size - 1 : items[At(head, i)] \in Item

\* The ring buffer keeps the promise of a bounded queue that drops its oldest
\* batch: the same batches, in the same order, returned by every method.
Fifo == INSTANCE BoundedFifo WITH queue <- Contents

ImplementsFifo == Fifo!Spec
=============================================================================
