------------------------- MODULE TelemetryProofs --------------------------
(***************************************************************************)
(* Proofs about the road of a batch, for every capacity, timestamp window, *)
(* clock skew, key and number of restarts: first RingBuffer, the agent's   *)
(* buffer, then TelemetryPipeline, which uses what RingBuffer implements.  *)
(***************************************************************************)
EXTENDS RingBuffer, TelemetryPipeline, TLAPS

-----------------------------------------------------------------------------
(* RingBuffer.                                                             *)

\* The capacity the constructor settles on is a positive number.
LEMMA CapacityPositive == Capacity \in Nat /\ Capacity > 0
  BY RequestedAssumption, DefaultCapacityAssumption DEF Capacity

\* Walking at most one lap round the array wraps by one subtraction: the only
\* fact about the modulus the other proofs need (ring.go, every use of %).
LEMMA WrapOnce ==
  ASSUME NEW from \in Slot, NEW i \in 0 .. Capacity
  PROVE  At(from, i) = IF from + i < Capacity THEN from + i
                       ELSE from + i - Capacity
  <1> DEFINE C == Capacity
             s == from + i
  <1>1. C \in Nat /\ C > 0 /\ s \in 0 .. 2 * C - 1
    BY CapacityPositive DEF Slot
  <1> HIDE DEF C, s
  <1>2. s < C => s % C = s
    BY <1>1
  <1>3. s >= C => s % C = s - C
    BY <1>1
  <1>4. QED
    BY <1>1, <1>2, <1>3, CapacityPositive DEF At, C, s, Slot

\* An index so obtained is inside the array.
LEMMA WrapInside ==
  ASSUME NEW from \in Slot, NEW i \in 0 .. Capacity
  PROVE  At(from, i) \in Slot
  <1> DEFINE C == Capacity
             a == At(from, i)
  <1>1. C \in Nat /\ C > 0 /\ from \in 0 .. C - 1 /\ i \in 0 .. C
    BY CapacityPositive DEF Slot
  <1>2. a = IF from + i < C THEN from + i ELSE from + i - C
    BY WrapOnce
  <1> HIDE DEF C, a
  <1>3. a \in 0 .. C - 1
    BY <1>1, <1>2
  <1>4. QED
    BY <1>3 DEF C, a, Slot

-----------------------------------------------------------------------------
(* The inductive invariant.                                                *)

\* What every method preserves.  RingTypeOK is not inductive by itself: that Pop
\* and Drain return batches needs HeldSlotsWritten, which Push keeps only
\* because the slot it writes is the one IndicesAgree names.
RingInv == RingTypeOK /\ IndicesAgree /\ HeldSlotsWritten

LEMMA InitIInv == NewRingBuffer => RingInv
  <1> SUFFICES ASSUME NewRingBuffer PROVE RingInv
    OBVIOUS
  <1>1. 0 \in Slot /\ 0 \in 0 .. Capacity
    BY CapacityPositive DEF Slot
  <1>2. At(0, 0) = 0
    BY <1>1, WrapOnce, CapacityPositive
  <1>3. QED
    BY <1>1, <1>2 DEF NewRingBuffer, RingInv, RingTypeOK, IndicesAgree, HeldSlotsWritten

\* The batches held, as a sequence: what Drain returns.
LEMMA ContentsType ==
  ASSUME RingInv
  PROVE  Contents \in Seq(Item) /\ Len(Contents) = size
  <1>1. \A i \in 1 .. size : items[At(head, i - 1)] \in Item
    BY DEF RingInv, RingTypeOK, HeldSlotsWritten
  <1>2. size \in Nat
    BY CapacityPositive DEF RingInv, RingTypeOK
  <1>3. QED
    BY <1>1, <1>2 DEF Contents

LEMMA PushKeepsIInv ==
  ASSUME RingInv, NEW x \in Item, Push(x)
  PROVE  RingInv'
  <1> USE CapacityPositive
  <1>t. /\ head \in Slot /\ tail \in Slot /\ size \in 0 .. Capacity
        /\ items \in [Slot -> Item \union {NoItem}]
        /\ 1 \in 0 .. Capacity
    BY DEF RingInv, RingTypeOK
  <1>1. /\ At(tail, 1) = IF tail + 1 < Capacity THEN tail + 1
                         ELSE tail + 1 - Capacity
        /\ At(head, 1) = IF head + 1 < Capacity THEN head + 1
                         ELSE head + 1 - Capacity
    BY <1>t, WrapOnce
  <1>2. tail = IF head + size < Capacity THEN head + size
               ELSE head + size - Capacity
    BY <1>t, WrapOnce DEF RingInv, IndicesAgree
  <1>3. head' \in Slot /\ tail' \in Slot /\ size' \in 0 .. Capacity
    BY <1>t, <1>1 DEF Push, Slot
  <1>4. RingTypeOK'
    BY <1>t, <1>3 DEF Push, RingTypeOK
  <1>5. IndicesAgree'
    <2>1. At(head', size') = IF head' + size' < Capacity THEN head' + size'
                             ELSE head' + size' - Capacity
      BY <1>3, WrapOnce
    <2>2. CASE size < Capacity
      <3>1. head' = head /\ size' = size + 1 /\ tail' = At(tail, 1)
        BY <2>2, <1>t DEF Push
      <3>2. tail' = At(head', size')
        BY <3>1, <2>2, <2>1, <1>t, <1>1, <1>2 DEF Slot
      <3>3. QED
        BY <3>2 DEF IndicesAgree, At
    <2>3. CASE size >= Capacity
      <3>1. head' = At(head, 1) /\ size' = size /\ tail' = At(tail, 1)
        BY <2>3, <1>t DEF Push
      <3>2. tail' = At(head', size')
        BY <3>1, <2>3, <2>1, <1>t, <1>1, <1>2 DEF Slot
      <3>3. QED
        BY <3>2 DEF IndicesAgree, At
    <2>4. QED
      BY <2>2, <2>3, <1>t
  <1>6. HeldSlotsWritten'
    <2>0. PICK n \in 0 .. Capacity : n = size'
      BY <1>3
    <2> SUFFICES ASSUME NEW i \in 0 .. n - 1
                 PROVE  items'[At(head', i)] \in Item
      BY <2>0 DEF HeldSlotsWritten, At
    <2>1. i \in 0 .. Capacity
      OBVIOUS
    <2>2. At(head', i) = IF head' + i < Capacity THEN head' + i
                         ELSE head' + i - Capacity
      BY <2>1, <1>3, WrapOnce
    <2>3. At(head', i) \in Slot
      BY <2>1, <1>3, WrapInside
    <2>4. CASE At(head', i) = tail
      BY <2>4, <1>t DEF Push
    <2>5. CASE At(head', i) # tail
      <3>1. items'[At(head', i)] = items[At(head', i)]
        BY <2>3, <2>5, <1>t DEF Push
      <3>2. \E j \in 0 .. size - 1 : At(head, j) = At(head', i)
        <4>1. CASE size < Capacity
          <5>1. i # size
            BY <4>1, <1>2, <2>2, <2>5 DEF Push
          <5>2. n = size + 1 /\ head' = head
            BY <2>0, <4>1, <1>t DEF Push
          <5>3. i \in 0 .. size - 1
            BY <5>1, <5>2, <1>t
          <5>4. QED
            BY <5>2, <5>3
        <4>2. CASE size >= Capacity
          <5>1. i + 1 \in 0 .. Capacity /\ head' = At(head, 1)
            BY <4>2, <1>t DEF Push
          <5>2. At(head, i + 1) = IF head + (i + 1) < Capacity
                                  THEN head + (i + 1)
                                  ELSE head + (i + 1) - Capacity
            BY <5>1, <1>t, WrapOnce
          <5>3. At(head, i + 1) = At(head', i)
            BY <5>1, <5>2, <2>2, <1>1, <1>t DEF Slot
          <5>4. i + 1 # Capacity
            BY <4>2, <5>2, <5>3, <1>t, <1>2, <2>5 DEF Slot
          <5>5. i + 1 \in 0 .. size - 1
            BY <5>1, <5>4, <4>2, <1>t
          <5>6. QED
            BY <5>3, <5>5
        <4>3. QED
          BY <4>1, <4>2, <1>t
      <3>3. QED
        BY <3>1, <3>2 DEF RingInv, HeldSlotsWritten
    <2>6. QED
      BY <2>4, <2>5
  <1>7. QED
    BY <1>4, <1>5, <1>6 DEF RingInv

LEMMA PopKeepsIInv ==
  ASSUME RingInv, Pop
  PROVE  RingInv'
  <1> USE CapacityPositive
  <1>t. /\ head \in Slot /\ tail \in Slot /\ size \in 1 .. Capacity
        /\ 1 \in 0 .. Capacity
    BY DEF RingInv, RingTypeOK, Pop
  <1>1. At(head, 1) \in Slot /\ At(head, 1) = IF head + 1 < Capacity
                                             THEN head + 1
                                             ELSE head + 1 - Capacity
    BY <1>t, WrapOnce, WrapInside
  <1>2. /\ head' = At(head, 1) /\ size' = size - 1 /\ size - 1 \in 0 .. Capacity
        /\ UNCHANGED <<items, tail>>
    BY <1>t DEF Pop
  <1>3. \A i \in 0 .. size - 1 : At(At(head, 1), i) = At(head, i + 1)
    <2> SUFFICES ASSUME NEW i \in 0 .. size - 1
                 PROVE  At(At(head, 1), i) = At(head, i + 1)
      OBVIOUS
    <2>1. i \in 0 .. Capacity /\ i + 1 \in 0 .. Capacity
      BY <1>t
    <2>2. At(At(head, 1), i) = IF At(head, 1) + i < Capacity
                               THEN At(head, 1) + i
                               ELSE At(head, 1) + i - Capacity
      BY <2>1, <1>1, WrapOnce
    <2>3. At(head, i + 1) = IF head + (i + 1) < Capacity
                            THEN head + (i + 1)
                            ELSE head + (i + 1) - Capacity
      BY <2>1, <1>t, WrapOnce
    <2>4. QED
      BY <2>1, <2>2, <2>3, <1>1, <1>t DEF Slot
  <1>4. RingTypeOK'
    <2>1. items[At(head, 0)] \in Item /\ At(head, 0) = head
      BY <1>t, WrapOnce DEF RingInv, HeldSlotsWritten, Slot
    <2>2. returned' \in Seq(Item)
      BY <2>1 DEF Pop
    <2>3. QED
      BY <1>t, <1>1, <1>2, <2>2 DEF RingInv, RingTypeOK
  <1>5. IndicesAgree'
    <2>1. At(At(head, 1), size - 1) = At(head, size)
      BY <1>3, <1>t
    <2>2. tail = At(head, size)
      BY DEF RingInv, IndicesAgree
    <2>3. QED
      BY <1>2, <2>1, <2>2 DEF IndicesAgree, At
  <1>6. HeldSlotsWritten'
    <2>1. \A i \in 0 .. (size - 1) - 1 : items[At(At(head, 1), i)] \in Item
      BY <1>3, <1>t DEF RingInv, HeldSlotsWritten
    <2>2. QED
      BY <1>2, <2>1 DEF HeldSlotsWritten, At
  <1>7. QED
    BY <1>4, <1>5, <1>6 DEF RingInv

LEMMA DrainKeepsIInv ==
  ASSUME RingInv, Drain
  PROVE  RingInv'
  <1>1. 0 \in Slot /\ 0 \in 0 .. Capacity
    BY CapacityPositive DEF Slot
  <1>2. At(0, 0) = 0
    BY <1>1, WrapOnce, CapacityPositive
  <1>3. returned' \in Seq(Item)
    BY ContentsType DEF Drain
  <1>4. QED
    BY <1>1, <1>2, <1>3
       DEF Drain, RingInv, RingTypeOK, IndicesAgree, HeldSlotsWritten, At

LEMMA StepKeepsIInv ==
  ASSUME RingInv, [Method]_ringVars
  PROVE  RingInv'
  <1>1. CASE \E x \in Item : Push(x)
    BY <1>1, PushKeepsIInv
  <1>2. CASE Pop
    BY <1>2, PopKeepsIInv
  <1>3. CASE Drain
    BY <1>3, DrainKeepsIInv
  <1>4. CASE PopEmpty \/ DrainEmpty
    <2>1. returned' = << >> /\ UNCHANGED <<items, head, tail, size>>
      BY <1>4 DEF PopEmpty, DrainEmpty
    <2>a. << >> \in Seq(Item)
      OBVIOUS
    <2>2. QED
      BY <2>1, <2>a DEF RingInv, RingTypeOK, IndicesAgree, HeldSlotsWritten, At
  <1>5. CASE UNCHANGED ringVars
    BY <1>5 DEF ringVars, RingInv, RingTypeOK, IndicesAgree, HeldSlotsWritten, At
  <1>6. QED
    BY <1>1, <1>2, <1>3, <1>4, <1>5 DEF Method

\* The type invariant, the agreement of the three indices and the absence of
\* unwritten slots hold in every reachable state, whatever the capacity
\* (ring.go: Push, Pop, Drain).
THEOREM BufferInvariant == RingSpec => []RingInv
  <1>1. QED
    BY InitIInv, StepKeepsIInv, PTL DEF RingSpec

\* The part of BufferInvariant about types.
THEOREM BufferTypes == RingSpec => []RingTypeOK
  BY BufferInvariant, PTL DEF RingInv

\* head, tail and size never drift apart.
THEOREM BufferIndices == RingSpec => []IndicesAgree
  BY BufferInvariant, PTL DEF RingInv

\* No method ever returns a slot nobody wrote.
THEOREM BufferHeldSlots == RingSpec => []HeldSlotsWritten
  BY BufferInvariant, PTL DEF RingInv

-----------------------------------------------------------------------------
(* The ring buffer implements the bounded queue.                           *)

LEMMA InitImplements == NewRingBuffer => Fifo!Init
  <1> SUFFICES ASSUME NewRingBuffer PROVE Fifo!Init
    OBVIOUS
  <1>1. RingInv
    BY InitIInv
  <1>2. Contents \in Seq(Item) /\ Len(Contents) = 0
    BY <1>1, ContentsType DEF NewRingBuffer
  <1>3. Contents = << >>
    BY <1>2
  <1>4. QED
    BY <1>3 DEF NewRingBuffer, Fifo!Init

\* A sequence is determined by its length and its elements.
LEMMA SeqByElements ==
  ASSUME NEW S, NEW q \in Seq(S)
  PROVE  q = [i \in 1 .. Len(q) |-> q[i]]
  OBVIOUS

\* The i-th batch held, and the batches after the methods, slot by slot.
LEMMA ContentsAt ==
  ASSUME RingInv
  PROVE  \A i \in 1 .. size : Contents[i] = items[At(head, i - 1)]
  BY DEF Contents

LEMMA PushImplements ==
  ASSUME RingInv, NEW x \in Item, Push(x)
  PROVE  Fifo!Put(x)
  <1> USE CapacityPositive
  <1>t. /\ head \in Slot /\ tail \in Slot /\ size \in 0 .. Capacity
        /\ items \in [Slot -> Item \union {NoItem}]
        /\ 1 \in 0 .. Capacity /\ 0 \in 0 .. Capacity
    BY DEF RingInv, RingTypeOK
  <1>2. tail = IF head + size < Capacity THEN head + size
               ELSE head + size - Capacity
    BY <1>t, WrapOnce DEF RingInv, IndicesAgree
  <1>3. Contents \in Seq(Item) /\ Len(Contents) = size
    BY ContentsType
  <1>4. \A j \in 0 .. Capacity - 1 :
          /\ At(head, j) = IF head + j < Capacity THEN head + j
                          ELSE head + j - Capacity
          /\ At(head, j) \in Slot
    BY <1>t, WrapOnce, WrapInside
  <1>5. CASE size < Capacity
    <2>1. /\ size' = size + 1 /\ head' = head
          /\ items' = [items EXCEPT ![tail] = x]
      BY <1>5, <1>t DEF Push
    <2>2. Contents' = [i \in 1 .. size + 1 |-> items'[At(head, i - 1)]]
      BY <2>1 DEF Contents, At
    <2>3. ASSUME NEW i \in 1 .. size + 1
          PROVE  items'[At(head, i - 1)] = Append(Contents, x)[i]
      <3>1. i - 1 \in 0 .. Capacity - 1
        BY <1>5, <1>t
      <3>2. CASE i = size + 1
        <4>1. At(head, i - 1) = tail
          BY <1>2, <1>4, <1>5, <1>t, <3>1, <3>2
        <4>2. items'[tail] = x
          BY <1>t, <2>1
        <4>3. QED
          BY <4>1, <4>2, <3>2, <1>3, <1>t
      <3>3. CASE i # size + 1
        <4>1. i \in 1 .. size
          BY <3>3, <1>t
        <4>2. At(head, i - 1) # tail
          <5>1. At(head, i - 1) = IF head + (i - 1) < Capacity
                                  THEN head + (i - 1)
                                  ELSE head + (i - 1) - Capacity
            BY <1>4, <3>1
          <5>2. QED
            BY <5>1, <1>2, <1>t, <1>5, <4>1 DEF Slot
        <4>3. items'[At(head, i - 1)] = items[At(head, i - 1)]
          BY <4>2, <1>4, <2>1, <3>1, <1>t
        <4>4. Contents[i] = items[At(head, i - 1)]
          BY <4>1, ContentsAt
        <4>5. Append(Contents, x)[i] = Contents[i]
          BY <1>3, <4>1
        <4>6. QED
          BY <4>3, <4>4, <4>5
      <3>4. QED
        BY <3>2, <3>3
    <2>4. Contents' = Append(Contents, x)
      <3>1. Append(Contents, x) \in Seq(Item) /\ Len(Append(Contents, x)) = size + 1
        BY <1>3
      <3>2. Append(Contents, x) = [i \in 1 .. size + 1 |-> Append(Contents, x)[i]]
        BY <3>1, SeqByElements
      <3>3. QED
        BY <2>2, <2>3, <3>2
    <2>5. QED
      BY <2>4, <1>3, <1>5 DEF Fifo!Put, Fifo!Enqueue, Push
  <1>6. CASE size >= Capacity
    <2>1. /\ size = Capacity /\ size' = size /\ head' = At(head, 1)
          /\ items' = [items EXCEPT ![tail] = x] /\ tail = head
      BY <1>6, <1>t, <1>2 DEF Push, Slot
    <2>2. Contents' = [i \in 1 .. size |-> items'[At(At(head, 1), i - 1)]]
      BY <2>1 DEF Contents, At
    <2>a. /\ At(head, 1) = IF head + 1 < Capacity THEN head + 1
                           ELSE head + 1 - Capacity
          /\ At(head, 1) \in Slot
      BY <1>t, WrapOnce, WrapInside
    <2> DEFINE dropped == Append(Tail(Contents), x)
    <2>b. dropped \in Seq(Item) /\ Len(dropped) = size
      BY <1>3, <2>1, <1>t
    <2>3. ASSUME NEW i \in 1 .. size
          PROVE  items'[At(At(head, 1), i - 1)] = dropped[i]
      <3>1. i - 1 \in 0 .. Capacity
        BY <2>1
      <3>2. At(At(head, 1), i - 1) = IF At(head, 1) + (i - 1) < Capacity
                                     THEN At(head, 1) + (i - 1)
                                     ELSE At(head, 1) + (i - 1) - Capacity
        BY <2>a, <3>1, WrapOnce
      <3>3. CASE i = size
        <4>1. At(At(head, 1), i - 1) = tail
          BY <2>1, <2>a, <3>2, <3>3, <1>t DEF Slot
        <4>2. items'[tail] = x
          BY <1>t, <2>1
        <4>3. dropped[i] = x
          BY <1>3, <3>3, <2>1
        <4>4. QED
          BY <4>1, <4>2, <4>3
      <3>4. CASE i # size
        <4>1. i \in 0 .. Capacity - 1 /\ i + 1 \in 1 .. size
          BY <3>4, <2>1
        <4>a. /\ At(head, i) = IF head + i < Capacity THEN head + i
                               ELSE head + i - Capacity
              /\ At(head, i) \in Slot
          BY <1>4, <4>1
        <4>2. At(At(head, 1), i - 1) = At(head, i)
          BY <2>a, <3>2, <4>a, <4>1, <1>t DEF Slot
        <4>3. At(head, i) # tail
          BY <4>a, <2>1, <4>1, <1>t DEF Slot
        <4>4. items'[At(head, i)] = items[At(head, i)]
          BY <4>3, <4>a, <2>1, <1>t
        <4>5. Contents[i + 1] = items[At(head, i)]
          BY <4>1, ContentsAt
        <4>6. dropped[i] = Contents[i + 1]
          BY <1>3, <4>1
        <4>7. QED
          BY <4>2, <4>4, <4>5, <4>6
      <3>5. QED
        BY <3>3, <3>4
    <2>4. Contents' = dropped
      <3> HIDE DEF dropped
      <3>1. dropped = [i \in 1 .. size |-> dropped[i]]
        BY <2>b, SeqByElements
      <3>2. QED
        BY <2>2, <2>3, <3>1
    <2>5. QED
      BY <2>4, <2>1, <1>3 DEF Fifo!Put, Fifo!Enqueue, Push
  <1>7. QED
    BY <1>5, <1>6, <1>t

LEMMA PopImplements ==
  ASSUME RingInv, Pop
  PROVE  Fifo!Take
  <1> USE CapacityPositive
  <1>t. /\ head \in Slot /\ size \in 1 .. Capacity
        /\ 1 \in 0 .. Capacity /\ 0 \in 0 .. Capacity
    BY DEF RingInv, RingTypeOK, Pop
  <1>1. Contents \in Seq(Item) /\ Len(Contents) = size
    BY ContentsType
  <1>2. /\ size' = size - 1 /\ head' = At(head, 1) /\ items' = items
        /\ returned' = << items[head] >>
    BY DEF Pop
  <1>3. Contents' = [i \in 1 .. size - 1 |-> items[At(At(head, 1), i - 1)]]
    BY <1>2 DEF Contents, At
  <1>4. /\ At(head, 1) = IF head + 1 < Capacity THEN head + 1
                         ELSE head + 1 - Capacity
        /\ At(head, 1) \in Slot
    BY <1>t, WrapOnce, WrapInside
  <1>4a. At(head, 0) = head
    <2>1. At(head, 0) = IF head + 0 < Capacity THEN head + 0
                        ELSE head + 0 - Capacity
      BY <1>t, WrapOnce
    <2>2. QED
      BY <2>1, <1>t DEF Slot
  <1>5. ASSUME NEW i \in 1 .. size - 1
        PROVE  items[At(At(head, 1), i - 1)] = Tail(Contents)[i]
    <2>1. i \in 0 .. Capacity /\ i - 1 \in 0 .. Capacity /\ i + 1 \in 1 .. size
      BY <1>t
    <2>2. At(At(head, 1), i - 1) = IF At(head, 1) + (i - 1) < Capacity
                                   THEN At(head, 1) + (i - 1)
                                   ELSE At(head, 1) + (i - 1) - Capacity
      BY <2>1, <1>4, WrapOnce
    <2>3. At(head, i) = IF head + i < Capacity THEN head + i
                        ELSE head + i - Capacity
      BY <2>1, <1>t, WrapOnce
    <2>4. At(At(head, 1), i - 1) = At(head, i)
      BY <2>1, <2>2, <2>3, <1>4, <1>t DEF Slot
    <2>5. Contents[i + 1] = items[At(head, i)]
      BY <2>1, ContentsAt
    <2>6. Tail(Contents)[i] = Contents[i + 1]
      BY <1>1, <2>1
    <2>7. QED
      BY <2>4, <2>5, <2>6
  <1>6. Contents' = Tail(Contents)
    <2>1. Tail(Contents) \in Seq(Item) /\ Len(Tail(Contents)) = size - 1
      BY <1>1, <1>t
    <2>2. Tail(Contents) = [i \in 1 .. size - 1 |-> Tail(Contents)[i]]
      BY <2>1, SeqByElements
    <2>3. QED
      BY <1>3, <1>5, <2>2
  <1>7. Head(Contents) = items[head] /\ Contents # << >>
    <2>1. Contents[1] = items[At(head, 0)]
      BY <1>t, ContentsAt
    <2>2. QED
      BY <2>1, <1>1, <1>4a, <1>t
  <1>8. QED
    BY <1>2, <1>6, <1>7 DEF Fifo!Take

\* An empty buffer represents the empty queue.
LEMMA EmptyContents ==
  ASSUME size = 0
  PROVE  Contents = << >>
  BY DEF Contents

LEMMA DrainImplements ==
  ASSUME RingInv, Drain
  PROVE  Fifo!TakeAll
  <1>1. size' = 0 /\ returned' = Contents
    BY DEF Drain
  <1>2. Contents' = [i \in 1 .. 0 |-> items'[At(head', i - 1)]]
    BY <1>1 DEF Contents, At
  <1>3. Contents' = << >>
    BY <1>2
  <1>4. QED
    BY <1>1, <1>3 DEF Fifo!TakeAll

LEMMA EmptyStepImplements ==
  ASSUME RingInv, PopEmpty \/ DrainEmpty
  PROVE  Fifo!TakeNothing
  <1>1. /\ size = 0 /\ returned' = << >>
        /\ UNCHANGED <<items, head, tail, size>>
    BY DEF PopEmpty, DrainEmpty
  <1>2. Contents' = Contents
    BY <1>1 DEF Contents, At
  <1>3. Contents = << >>
    BY <1>1, EmptyContents
  <1>4. QED
    BY <1>1, <1>2, <1>3 DEF Fifo!TakeNothing

LEMMA StepImplements ==
  ASSUME RingInv, [Method]_ringVars
  PROVE  [Fifo!Next]_<<Contents, returned>>
  <1>1. CASE \E x \in Item : Push(x)
    BY <1>1, PushImplements DEF Fifo!Next
  <1>2. CASE Pop
    BY <1>2, PopImplements DEF Fifo!Next
  <1>3. CASE Drain
    BY <1>3, DrainImplements DEF Fifo!Next
  <1>4. CASE PopEmpty \/ DrainEmpty
    BY <1>4, EmptyStepImplements DEF Fifo!Next
  <1>5. CASE UNCHANGED ringVars
    BY <1>5 DEF ringVars, Contents, At
  <1>6. QED
    BY <1>1, <1>2, <1>3, <1>4, <1>5 DEF Method

\* The circular buffer implements the bounded first-in first-out queue that
\* drops its oldest batch, for every capacity: the index arithmetic of Push,
\* Pop and Drain is correct, wrap-around and overflow included (ring.go).
THEOREM BufferImplementsFifo == RingSpec => ImplementsFifo
  <1>1. NewRingBuffer => Fifo!Init
    BY InitImplements
  <1>2. RingInv /\ [Method]_ringVars => [Fifo!Next]_<<Contents, returned>>
    BY StepImplements
  <1>3. QED
    BY <1>1, <1>2, BufferInvariant, PTL DEF RingSpec, ImplementsFifo, Fifo!Spec

-----------------------------------------------------------------------------
(* TelemetryPipeline.                                                      *)


\* How much the sampling loop holds at each of its points.
LoopInv ==
  /\ pc = "idle" => pending = << >> /\ Len(buffer) <= 1
  /\ pc = "drain" => pending = << >> /\ Len(buffer) >= 1 /\ Len(buffer) <= 2
  /\ pc \in {"send", "wait"} =>
       buffer = << >> /\ Len(pending) >= 1 /\ Len(pending) <= 2

\* What is held was sampled by this process; nothing sent is in the future.
ClockInv ==
  /\ bootedAt <= lastTick /\ lastTick <= now
  /\ \A b \in Retained : bootedAt < b.ts /\ b.ts <= lastTick
  /\ \A t \in Instant : Sent(t) => t <= lastTick

\* The request being waited for carries the batch at the head.
RequestInv ==
  \A r \in requests :
    /\ r.attempt <= attempt
    /\ Awaited(r) => r.batch = Head(pending)

\* The inductive invariant.  Order of storage (SentInOrder) is only preserved
\* because what was sent and is not stored is still held (UndeliveredIsHeld),
\* which needs that a positive answer means stored (AcknowledgedIsStored),
\* which needs that the answer awaited is about the head (RequestInv).
IInv ==
  /\ TypeOK
  /\ LoopInv
  /\ ClockInv
  /\ Chronological
  /\ RequestInv
  /\ AcknowledgedIsStored
  /\ UndeliveredIsHeld
  /\ SentInOrder

-----------------------------------------------------------------------------
(* What the queues hold.                                                   *)

LEMMA BatchFields ==
  ASSUME NEW b \in Batch
  PROVE  b.ts \in Instant /\ b.ts \in Nat
  BY DEF Batch, Instant

LEMMA HeldOfEmpty == Held(<< >>) = {}
  BY DEF Held

LEMMA HeldOfAppend ==
  ASSUME NEW q \in Seq(Batch), NEW b \in Batch
  PROVE  /\ Append(q, b) \in Seq(Batch)
         /\ Len(Append(q, b)) = Len(q) + 1
         /\ Held(Append(q, b)) = Held(q) \union {b}
  <1>1. /\ Append(q, b) \in Seq(Batch) /\ Len(Append(q, b)) = Len(q) + 1
        /\ Len(q) \in Nat
        /\ DOMAIN q = 1 .. Len(q)
        /\ DOMAIN Append(q, b) = 1 .. Len(q) + 1
        /\ Append(q, b)[Len(q) + 1] = b
        /\ \A i \in 1 .. Len(q) : Append(q, b)[i] = q[i]
    OBVIOUS
  <1>2. Held(Append(q, b)) \subseteq Held(q) \union {b}
    <2> SUFFICES ASSUME NEW i \in 1 .. Len(q) + 1
                 PROVE  Append(q, b)[i] \in Held(q) \union {b}
      BY <1>1 DEF Held
    <2>1. CASE i \in 1 .. Len(q)
      BY <1>1, <2>1 DEF Held
    <2>2. CASE i = Len(q) + 1
      BY <1>1, <2>2
    <2>3. QED
      BY <1>1, <2>1, <2>2
  <1>3. Held(q) \union {b} \subseteq Held(Append(q, b))
    <2>1. b \in Held(Append(q, b))
      <3>1. Len(q) + 1 \in DOMAIN Append(q, b)
        BY <1>1
      <3>2. QED
        BY <3>1, <1>1 DEF Held
    <2>2. ASSUME NEW i \in 1 .. Len(q)
          PROVE  q[i] \in Held(Append(q, b))
      <3>1. i \in DOMAIN Append(q, b) /\ Append(q, b)[i] = q[i]
        BY <1>1
      <3>2. QED
        BY <3>1 DEF Held
    <2>3. QED
      BY <1>1, <2>1, <2>2 DEF Held
  <1>4. QED
    BY <1>1, <1>2, <1>3

LEMMA HeldOfTail ==
  ASSUME NEW q \in Seq(Batch), q # << >>
  PROVE  /\ Tail(q) \in Seq(Batch) /\ Head(q) \in Batch
         /\ Len(Tail(q)) = Len(q) - 1 /\ Len(q) \in Nat
         /\ Held(q) = {Head(q)} \union Held(Tail(q))
  <1>1. /\ Tail(q) \in Seq(Batch) /\ Len(Tail(q)) = Len(q) - 1
        /\ Len(q) \in Nat /\ Len(q) >= 1
        /\ Head(q) = q[1] /\ Head(q) \in Batch
        /\ DOMAIN q = 1 .. Len(q)
        /\ DOMAIN Tail(q) = 1 .. Len(q) - 1
        /\ \A i \in 1 .. Len(q) - 1 : Tail(q)[i] = q[i + 1]
    OBVIOUS
  <1>2. Held(q) \subseteq {Head(q)} \union Held(Tail(q))
    <2> SUFFICES ASSUME NEW i \in 1 .. Len(q)
                 PROVE  q[i] \in {Head(q)} \union Held(Tail(q))
      BY <1>1 DEF Held
    <2>1. CASE i = 1
      BY <1>1, <2>1
    <2>2. CASE i # 1
      <3>1. i - 1 \in DOMAIN Tail(q) /\ Tail(q)[i - 1] = q[i]
        BY <1>1, <2>2
      <3>2. QED
        BY <3>1 DEF Held
    <2>3. QED
      BY <2>1, <2>2
  <1>3. {Head(q)} \union Held(Tail(q)) \subseteq Held(q)
    <2>1. Head(q) \in Held(q)
      <3>1. 1 \in DOMAIN q
        BY <1>1
      <3>2. QED
        BY <1>1, <3>1 DEF Held
    <2>2. ASSUME NEW i \in 1 .. Len(q) - 1
          PROVE  Tail(q)[i] \in Held(q)
      <3>1. i + 1 \in DOMAIN q /\ Tail(q)[i] = q[i + 1]
        BY <1>1
      <3>2. QED
        BY <3>1 DEF Held
    <2>3. QED
      BY <1>1, <2>1, <2>2 DEF Held
  <1>4. QED
    BY <1>1, <1>2, <1>3

\* Enqueue never has to drop anything: at most one batch is in the buffer.
LEMMA EnqueueAppends ==
  ASSUME NEW q \in Seq(Batch), NEW b \in Batch, Len(q) <= 1
  PROVE  Queue!Enqueue(q, b) = Append(q, b)
  <1>1. Len(q) \in Nat
    OBVIOUS
  <1>2. QED
    BY <1>1, CapacityAssumption DEF Queue!Enqueue

LEMMA RetainedAreBatches ==
  ASSUME TypeOK
  PROVE  Retained \subseteq Batch
  <1>1. \A q \in Seq(Batch) : \A i \in DOMAIN q : q[i] \in Batch
    OBVIOUS
  <1>2. QED
    BY <1>1 DEF TypeOK, Retained, Held

\* In the send phase the oldest batch held is the one at the head.
LEMMA HeadIsOldest ==
  ASSUME IInv, pc \in {"send", "wait"}
  PROVE  /\ pending # << >> /\ buffer = << >>
         /\ pending \in Seq(Batch) /\ Head(pending) \in Batch
         /\ Retained = {Head(pending)} \union Held(Tail(pending))
         /\ Head(pending) \in Retained
         /\ \A b \in Retained : Head(pending).ts <= b.ts
         /\ \A b \in Retained \ {Head(pending)} : Head(pending).ts < b.ts
         /\ bootedAt < Head(pending).ts /\ Head(pending).ts <= lastTick
  <1>1. /\ buffer = << >> /\ Len(pending) >= 1 /\ pending \in Seq(Batch)
    BY DEF IInv, LoopInv, TypeOK
  <1>2. pending # << >> /\ 1 \in DOMAIN pending /\ pending[1] = Head(pending)
    BY <1>1
  <1>3. /\ Head(pending) \in Batch
        /\ Held(pending) = {Head(pending)} \union Held(Tail(pending))
    BY <1>1, <1>2, HeldOfTail
  <1>4. Retained = Held(pending)
    BY <1>1, HeldOfEmpty DEF Retained
  <1>5. Head(pending) \in Retained
    BY <1>3, <1>4
  <1>6. ASSUME NEW b \in Retained
        PROVE  /\ Head(pending).ts <= b.ts
               /\ b # Head(pending) => Head(pending).ts < b.ts
    <2>1. PICK i \in DOMAIN pending : b = pending[i]
      BY <1>4 DEF Held
    <2>2. CASE i = 1
      BY <2>1, <2>2, <1>2, <1>3, BatchFields
    <2>3. CASE i # 1
      <3>1. 1 < i
        BY <1>1, <2>1, <2>3
      <3>2. pending[1].ts < pending[i].ts
        BY <1>2, <2>1, <3>1 DEF IInv, Chronological
      <3>3. b \in Batch
        BY <1>1, <2>1
      <3>4. b.ts \in Nat /\ Head(pending).ts \in Nat
        BY <3>3, <1>3, BatchFields
      <3>5. QED
        BY <3>2, <3>4, <1>2, <2>1
    <2>4. QED
      BY <2>2, <2>3
  <1>7. QED
    BY <1>1, <1>2, <1>3, <1>4, <1>5, <1>6 DEF IInv, ClockInv

-----------------------------------------------------------------------------
(* The invariant holds initially and is preserved by every action.         *)

LEMMA InitInvariant == Init => IInv
  <1> SUFFICES ASSUME Init PROVE IInv
    OBVIOUS
  <1>0. << >> \in Seq(Batch) /\ Len(<< >>) = 0 /\ DOMAIN << >> = {}
    OBVIOUS
  <1>1. TypeOK
    <2>1. 1 \in Instant /\ rows \in [Instant -> Nat]
      BY TimingAssumption DEF Init, Instant
    <2>2. hostKey \in Keys \union {NoKey}
      BY KeyAssumption DEF Init
    <2>3. QED
      BY <1>0, <2>1, <2>2 DEF Init, TypeOK
  <1>2. Retained = {}
    BY HeldOfEmpty DEF Init, Retained
  <1>3. \A t \in Instant : ~Sent(t)
    BY DEF Init, Sent
  <1>4. LoopInv /\ Chronological /\ RequestInv /\ AcknowledgedIsStored
    BY <1>0 DEF Init, LoopInv, Chronological, RequestInv, AcknowledgedIsStored
  <1>5. ClockInv
    BY <1>2, <1>3 DEF Init, ClockInv
  <1>6. UndeliveredIsHeld /\ SentInOrder
    BY <1>2, <1>3 DEF UndeliveredIsHeld, SentInOrder
  <1>7. QED
    BY <1>1, <1>4, <1>5, <1>6 DEF IInv

LEMMA CollectKeeps == IInv /\ Collect => IInv'
  <1> SUFFICES ASSUME IInv, Collect PROVE IInv'
    OBVIOUS
  <1>1. PICK some \in BOOLEAN :
          /\ buffer' = Queue!Enqueue(buffer, [ts |-> now, some |-> some])
          /\ collected' = collected \union {[ts |-> now, some |-> some]}
    BY DEF Collect
  <1> DEFINE b == [ts |-> now, some |-> some]
  <1>2. /\ b \in Batch /\ b.ts = now
        /\ buffer \in Seq(Batch) /\ Len(buffer) <= 1 /\ Len(buffer) \in Nat
        /\ pending = << >>
    BY DEF Collect, IInv, TypeOK, LoopInv, Batch
  <1> HIDE DEF b
  <1>3. buffer' = Append(buffer, b)
    BY <1>1, <1>2, EnqueueAppends DEF b
  <1>4. /\ buffer' \in Seq(Batch) /\ Len(buffer') = Len(buffer) + 1
        /\ Held(buffer') = Held(buffer) \union {b}
    BY <1>2, <1>3, HeldOfAppend
  <1>5. Retained' = Retained \union {b}
    BY <1>4 DEF Collect, Retained, Held
  <1>6. /\ now \in Nat /\ lastTick \in Nat /\ lastTick < now /\ bootedAt \in Nat
        /\ bootedAt < now
    BY DEF Collect, IInv, TypeOK, ClockInv, Instant
  <1>7. \A t \in Instant : Sent(t)' <=> Sent(t)
    BY DEF Collect, Sent, serverVars
  <1>8. TypeOK'
    BY <1>1, <1>2, <1>4, <1>6 DEF Collect, IInv, TypeOK, b, sendVars,
       serverVars, historyVars
  <1>9. LoopInv'
    <2>1. Len(buffer') >= 1 /\ Len(buffer') <= 2
      BY <1>2, <1>4
    <2>2. QED
      BY <2>1, <1>2 DEF Collect, LoopInv
  <1>10. ClockInv'
    <2>1. \A x \in Retained : bootedAt < x.ts /\ x.ts <= now
      <3> SUFFICES ASSUME NEW x \in Retained
                   PROVE bootedAt < x.ts /\ x.ts <= now
        OBVIOUS
      <3>1. x \in Batch
        BY RetainedAreBatches DEF IInv
      <3>2. bootedAt < x.ts /\ x.ts <= lastTick /\ x.ts \in Nat
        BY <3>1, BatchFields DEF IInv, ClockInv
      <3>3. QED
        BY <3>2, <1>6
    <2>2. \A t \in Instant : Sent(t)' => t <= now
      BY <1>6, <1>7 DEF IInv, ClockInv, Instant
    <2>3. QED
      BY <2>1, <2>2, <1>2, <1>5, <1>6 DEF Collect, ClockInv, historyVars
  <1>11. Chronological'
    <2> SUFFICES ASSUME NEW i \in DOMAIN buffer', NEW j \in DOMAIN buffer', i < j
                 PROVE  buffer'[i].ts < buffer'[j].ts
      BY <1>2 DEF Chronological, Collect
    <2>1. i \in 1 .. Len(buffer) + 1 /\ j \in 1 .. Len(buffer) + 1
      BY <1>3, <1>2
    <2>2. i = 1 /\ j = 2 /\ Len(buffer) = 1
      <3> DEFINE n == Len(buffer)
      <3>1. n \in Nat /\ n <= 1 /\ i \in 1 .. n + 1 /\ j \in 1 .. n + 1 /\ i < j
        BY <2>1, <1>2
      <3> HIDE DEF n
      <3>2. i = 1 /\ j = 2 /\ n = 1
        BY <3>1
      <3>3. QED
        BY <3>2 DEF n
    <2>3. buffer'[i] = buffer[1] /\ buffer'[j] = b /\ 1 \in DOMAIN buffer
      <3>1. /\ \A q \in Seq(Batch), x \in Batch :
                  Append(q, x)[Len(q) + 1] = x
            /\ \A q \in Seq(Batch), x \in Batch :
                  \A k \in 1 .. Len(q) : Append(q, x)[k] = q[k] /\ k \in DOMAIN q
        OBVIOUS
      <3>2. Append(buffer, b)[Len(buffer) + 1] = b
        BY <3>1, <1>2
      <3>3. 1 \in 1 .. Len(buffer) /\ Len(buffer) + 1 = 2
        BY <2>2
      <3>4. Append(buffer, b)[1] = buffer[1] /\ 1 \in DOMAIN buffer
        BY <3>1, <3>3, <1>2
      <3>5. QED
        BY <3>2, <3>3, <3>4, <2>2, <1>3
    <2>4. buffer[1] \in Retained /\ buffer[1] \in Batch
      BY <2>3, <1>2 DEF Retained, Held
    <2>5. buffer[1].ts <= lastTick /\ buffer[1].ts \in Nat
      BY <2>4, BatchFields DEF IInv, ClockInv
    <2>6. QED
      BY <2>3, <2>5, <1>2, <1>6
  <1>12. RequestInv' /\ AcknowledgedIsStored'
    BY DEF Collect, IInv, RequestInv, AcknowledgedIsStored, Awaited, sendVars
  <1>13. UndeliveredIsHeld'
    BY <1>5, <1>7 DEF Collect, IInv, UndeliveredIsHeld, serverVars, historyVars
  <1>14. SentInOrder'
    <2>1. ASSUME NEW x \in Retained', NEW t \in Instant, Sent(t)'
          PROVE  t <= x.ts
      <3>1. CASE x \in Retained
        BY <2>1, <3>1, <1>7 DEF IInv, SentInOrder
      <3>2. CASE x = b
        <4>1. t <= lastTick /\ t \in Nat
          BY <2>1, <1>7 DEF IInv, ClockInv, Instant
        <4>2. QED
          BY <4>1, <3>2, <1>2, <1>6
      <3>3. QED
        BY <2>1, <1>5, <3>1, <3>2
    <2>2. QED
      BY <2>1, <1>7 DEF Collect, IInv, SentInOrder, serverVars, historyVars
  <1>15. QED
    BY <1>8, <1>9, <1>10, <1>11, <1>12, <1>13, <1>14 DEF IInv

LEMMA DrainKeeps == IInv /\ DrainBuffer => IInv'
  <1> SUFFICES ASSUME IInv, DrainBuffer PROVE IInv'
    OBVIOUS
  <1>1. pending = << >> /\ Len(buffer) >= 1 /\ Len(buffer) <= 2
    BY DEF IInv, LoopInv, DrainBuffer
  <1>2. Retained' = Retained
    BY <1>1 DEF DrainBuffer, Retained, Held
  <1>3. \A t \in Instant : Sent(t)' <=> Sent(t)
    BY DEF DrainBuffer, Sent, serverVars
  <1>4. << >> \in Seq(Batch) /\ DOMAIN << >> = {}
    OBVIOUS
  <1>5. TypeOK'
    BY <1>4 DEF DrainBuffer, IInv, TypeOK, sendVars, serverVars, historyVars
  <1>6. LoopInv' /\ Chronological' /\ RequestInv' /\ AcknowledgedIsStored'
    <2>1. LoopInv'
      BY <1>1 DEF DrainBuffer, LoopInv
    <2>2. Chronological'
      BY <1>4 DEF DrainBuffer, IInv, Chronological
    <2>3. RequestInv' /\ AcknowledgedIsStored'
      BY DEF DrainBuffer, IInv, RequestInv, AcknowledgedIsStored, Awaited,
         sendVars
    <2>4. QED
      BY <2>1, <2>2, <2>3
  <1>7. ClockInv'
    BY <1>2, <1>3 DEF DrainBuffer, IInv, ClockInv, historyVars
  <1>8. UndeliveredIsHeld' /\ SentInOrder'
    BY <1>2, <1>3 DEF DrainBuffer, IInv, UndeliveredIsHeld, SentInOrder,
       serverVars, historyVars
  <1>9. QED
    BY <1>5, <1>6, <1>7, <1>8 DEF IInv

\* Sending the oldest batch held keeps the order: an earlier batch that was
\* sent and not stored would still be held, and be older.
LEMMA SendKeeps == IInv /\ Send => IInv'
  <1> SUFFICES ASSUME IInv, Send PROVE IInv'
    OBVIOUS
  <1> DEFINE h == Head(pending)
             r0 == [batch |-> h, attempt |-> attempt + 1, stage |-> "wire"]
  <1>1. /\ pending # << >> /\ h \in Batch /\ h \in Retained
        /\ \A b \in Retained : h.ts <= b.ts
        /\ bootedAt < h.ts /\ h.ts <= lastTick
    BY HeadIsOldest DEF Send
  <1>2. requests' = requests \union {r0} /\ r0.batch = h
        /\ r0.attempt = attempt + 1
    BY DEF Send
  <1>3. attempt \in Nat /\ h.ts \in Instant /\ h.ts \in Nat
    BY <1>1, BatchFields DEF IInv, TypeOK
  <1>4. r0 \in Request
    BY <1>1, <1>3 DEF Request
  <1> HIDE DEF h, r0
  <1>5. Retained' = Retained
    BY DEF Send, Retained, Held
  <1>6. \A t \in Instant : Sent(t)' <=> Sent(t) \/ t = h.ts
    BY <1>2 DEF Send, Sent, serverVars
  <1>7. TypeOK'
    BY <1>2, <1>3, <1>4 DEF Send, IInv, TypeOK, serverVars, historyVars,
       Instant
  <1>8. LoopInv' /\ Chronological' /\ AcknowledgedIsStored'
    BY DEF Send, IInv, LoopInv, Chronological, AcknowledgedIsStored
  <1>9. ClockInv'
    BY <1>1, <1>5, <1>6 DEF Send, IInv, ClockInv, historyVars
  <1>10. RequestInv'
    <2> SUFFICES ASSUME NEW r \in requests'
                 PROVE  /\ r.attempt <= attempt'
                        /\ Awaited(r)' => r.batch = Head(pending')
      BY DEF RequestInv
    <2>1. attempt' = attempt + 1 /\ pending' = pending
      BY DEF Send
    <2>2. CASE r = r0
      BY <2>1, <2>2, <1>2, <1>3 DEF h
    <2>3. CASE r \in requests
      <3>1. r.attempt <= attempt /\ r.attempt \in Nat
        BY <2>3 DEF IInv, RequestInv, TypeOK, Request
      <3>2. r.attempt < attempt + 1
        BY <3>1, <1>3
      <3>3. QED
        BY <3>1, <3>2, <2>1, <1>3 DEF Awaited
    <2>4. QED
      BY <1>2, <2>2, <2>3
  <1>11. UndeliveredIsHeld'
    BY <1>1, <1>5, <1>6 DEF Send, IInv, UndeliveredIsHeld, serverVars, historyVars
  <1>12. SentInOrder'
    <2>1. \A b \in Retained', t \in Instant : Sent(t)' => t <= b.ts
      BY <1>1, <1>5, <1>6 DEF IInv, SentInOrder
    <2>2. ASSUME NEW t \in Instant, NEW u \in Instant, bootedAt < t, t < u,
                 Sent(t)', Sent(u)'
          PROVE  rows[t] > 0
      <3>0. t \in Nat /\ u \in Nat
        BY DEF Instant
      <3>1. CASE Sent(t) /\ Sent(u)
        BY <2>2, <3>1 DEF IInv, SentInOrder
      <3>2. CASE t = h.ts /\ u # h.ts
        <4>1. Sent(u)
          BY <2>2, <3>2, <1>6
        <4>2. u <= h.ts
          BY <4>1, <1>1 DEF IInv, SentInOrder
        <4>3. QED
          BY <4>2, <3>0, <3>2, <2>2
      <3>3. CASE u = h.ts /\ Sent(t)
        <4> SUFFICES ASSUME ~(rows[t] > 0) PROVE FALSE
          OBVIOUS
        <4>1. PICK b \in Retained : b.ts = t
          BY <2>2, <3>3 DEF IInv, UndeliveredIsHeld
        <4>2. h.ts <= t
          BY <4>1, <1>1
        <4>3. QED
          BY <4>2, <2>2, <3>3, <3>0
      <3>4. QED
        BY <2>2, <1>6, <3>0, <3>1, <3>2, <3>3
    <2>3. QED
      BY <2>1, <2>2 DEF Send, SentInOrder, serverVars, historyVars
  <1>13. QED
    BY <1>7, <1>8, <1>9, <1>10, <1>11, <1>12 DEF IInv

LEMMA SendSucceedsKeeps == IInv /\ SendSucceeds => IInv'
  <1> SUFFICES ASSUME IInv, SendSucceeds PROVE IInv'
    OBVIOUS
  <1> DEFINE h == Head(pending)
  <1>1. /\ pending # << >> /\ buffer = << >> /\ pending \in Seq(Batch)
        /\ Retained = {h} \union Held(Tail(pending))
    BY HeadIsOldest DEF SendSucceeds
  <1>2. /\ Tail(pending) \in Seq(Batch) /\ Len(Tail(pending)) = Len(pending) - 1
        /\ Len(pending) \in Nat /\ Len(pending) <= 2 /\ Len(pending) >= 1
    BY <1>1, HeldOfTail DEF IInv, LoopInv, SendSucceeds
  <1>3. rows[h.ts] > 0
    BY DEF SendSucceeds, IInv, AcknowledgedIsStored, Stored
  <1> HIDE DEF h
  <1>4. Retained' = Held(Tail(pending)) /\ Retained' \subseteq Retained
    BY <1>1, HeldOfEmpty DEF SendSucceeds, Retained, Held
  <1>5. \A t \in Instant : Sent(t)' <=> Sent(t)
    BY DEF SendSucceeds, Sent, serverVars
  <1>6. TypeOK'
    BY <1>2 DEF SendSucceeds, IInv, TypeOK, sendVars, serverVars, historyVars
  <1>7. LoopInv'
    <2>1. CASE Len(pending) = 1
      <3>1. Len(Tail(pending)) = 0
        BY <2>1, <1>2
      <3>2. Tail(pending) = << >>
        BY <3>1, <1>2
      <3>3. QED
        BY <2>1, <3>2, <1>1 DEF SendSucceeds, LoopInv
    <2>2. CASE Len(pending) # 1
      <3>1. Len(Tail(pending)) >= 1 /\ Len(Tail(pending)) <= 2
        BY <2>2, <1>2
      <3>2. QED
        BY <2>2, <3>1, <1>1 DEF SendSucceeds, LoopInv
    <2>3. QED
      BY <2>1, <2>2
  <1>8. ClockInv'
    BY <1>4, <1>5 DEF SendSucceeds, IInv, ClockInv, historyVars
  <1>9. Chronological'
    <2> DEFINE n == Len(pending)
    <2>1. /\ \A k \in 1 .. n - 1 : Tail(pending)[k] = pending[k + 1]
          /\ DOMAIN Tail(pending) = 1 .. n - 1 /\ DOMAIN pending = 1 .. n
          /\ n \in Nat
      BY <1>1, <1>2
    <2> HIDE DEF n
    <2>2. ASSUME NEW i \in DOMAIN Tail(pending), NEW j \in DOMAIN Tail(pending),
                 i < j
          PROVE  Tail(pending)[i].ts < Tail(pending)[j].ts
      <3>1. /\ Tail(pending)[i] = pending[i + 1]
            /\ Tail(pending)[j] = pending[j + 1]
        BY <2>1
      <3>2. i + 1 \in DOMAIN pending /\ j + 1 \in DOMAIN pending /\ i + 1 < j + 1
        BY <2>1, <2>2
      <3>3. QED
        BY <3>1, <3>2 DEF IInv, Chronological
    <2>3. QED
      BY <2>2 DEF SendSucceeds, IInv, Chronological
  <1>10. RequestInv' /\ AcknowledgedIsStored'
    BY DEF SendSucceeds, IInv, RequestInv, AcknowledgedIsStored, Awaited,
       sendVars
  <1>11. UndeliveredIsHeld'
    <2> SUFFICES ASSUME NEW t \in Instant, t > bootedAt, Sent(t), ~(rows[t] > 0)
                 PROVE  \E b \in Retained' : b.ts = t
      BY <1>5 DEF SendSucceeds, UndeliveredIsHeld, serverVars, historyVars
    <2>1. PICK b \in Retained : b.ts = t
      BY DEF IInv, UndeliveredIsHeld
    <2>2. b # h
      BY <2>1, <1>3
    <2>3. QED
      BY <2>1, <2>2, <1>1, <1>4
  <1>12. SentInOrder'
    BY <1>4, <1>5 DEF SendSucceeds, IInv, SentInOrder, serverVars, historyVars
  <1>13. QED
    BY <1>6, <1>7, <1>8, <1>9, <1>10, <1>11, <1>12 DEF IInv

\* Giving up on a cycle loses nothing that was sent: of what was drained, only
\* the batch pushed back may be under way or stored late.
LEMMA SendFailsKeeps == IInv /\ SendFails => IInv'
  <1> SUFFICES ASSUME IInv, SendFails PROVE IInv'
    OBVIOUS
  <1> DEFINE h == Head(pending)
  <1>1. /\ buffer = << >> /\ h \in Batch /\ h \in Retained
        /\ \A b \in Retained : h.ts <= b.ts
        /\ bootedAt < h.ts /\ h.ts <= lastTick
    BY HeadIsOldest DEF SendFails, SendError
  <1>2. buffer' = Queue!Enqueue(buffer, h) /\ pending' = << >>
    BY DEF SendFails, SendError
  <1> HIDE DEF h
  <1>3. << >> \in Seq(Batch) /\ Len(<< >>) = 0 /\ DOMAIN << >> = {}
    OBVIOUS
  <1>4. buffer' = Append(<< >>, h)
    <2>1. Len(<< >>) <= 1
      BY <1>3
    <2>2. Queue!Enqueue(<< >>, h) = Append(<< >>, h)
      BY <2>1, <1>1, <1>3, EnqueueAppends
    <2>3. QED
      BY <2>2, <1>1, <1>2
  <1>5. buffer' \in Seq(Batch) /\ Len(buffer') = 1 /\ Held(buffer') = {h}
    <2>1. /\ Append(<< >>, h) \in Seq(Batch)
          /\ Len(Append(<< >>, h)) = Len(<< >>) + 1
          /\ Held(Append(<< >>, h)) = Held(<< >>) \union {h}
      BY <1>1, <1>3, HeldOfAppend
    <2>2. QED
      BY <2>1, <1>3, <1>4, HeldOfEmpty
  <1>6. Retained' = {h}
    BY <1>2, <1>5, HeldOfEmpty DEF Retained, Held
  <1>7. \A t \in Instant : Sent(t)' <=> Sent(t)
    BY DEF SendFails, SendError, Sent, serverVars
  <1>8. TypeOK'
    BY <1>2, <1>3, <1>5 DEF SendFails, SendError, IInv, TypeOK, sendVars, serverVars,
       historyVars
  <1>9. LoopInv'
    <2>1. pc' = "idle"
      BY DEF SendFails, SendError
    <2>2. \A n : n = 1 => n <= 1
      OBVIOUS
    <2>3. Len(buffer') <= 1
      BY <1>5, <2>2
    <2>4. QED
      BY <2>1, <2>3, <1>2 DEF LoopInv
  <1>10. Chronological'
    <2>1. DOMAIN buffer' = 1 .. 1
      BY <1>5
    <2>2. \A i, j \in 1 .. 1 : ~(i < j)
      OBVIOUS
    <2>3. QED
      BY <2>1, <2>2, <1>2, <1>3 DEF Chronological
  <1>11. ClockInv'
    BY <1>1, <1>6, <1>7 DEF SendFails, SendError, IInv, ClockInv, historyVars
  <1>12. RequestInv' /\ AcknowledgedIsStored'
    BY DEF SendFails, SendError, IInv, RequestInv, AcknowledgedIsStored, Awaited, sendVars
  <1>13. UndeliveredIsHeld'
    <2> SUFFICES ASSUME NEW t \in Instant, t > bootedAt, Sent(t), ~(rows[t] > 0)
                 PROVE  h.ts = t
      BY <1>6, <1>7 DEF SendFails, SendError, UndeliveredIsHeld, serverVars, historyVars
    <2>1. PICK b \in Retained : b.ts = t
      BY DEF IInv, UndeliveredIsHeld
    <2>2. h.ts <= t /\ t <= h.ts
      BY <2>1, <1>1 DEF IInv, SentInOrder
    <2>3. h.ts \in Nat /\ t \in Nat
      BY <1>1, BatchFields DEF Instant
    <2>4. QED
      BY <2>2, <2>3
  <1>14. SentInOrder'
    BY <1>1, <1>6, <1>7 DEF SendFails, SendError, IInv, SentInOrder, serverVars, historyVars
  <1>15. QED
    BY <1>8, <1>9, <1>10, <1>11, <1>12, <1>13, <1>14 DEF IInv

LEMMA RestartKeeps == IInv /\ Restart => IInv'
  <1> SUFFICES ASSUME IInv, Restart PROVE IInv'
    OBVIOUS
  <1>1. << >> \in Seq(Batch) /\ Len(<< >>) = 0 /\ DOMAIN << >> = {}
    OBVIOUS
  <1>2. Retained' = {}
    BY <1>1 DEF Restart, Retained, Held
  <1>3. \A t \in Instant : Sent(t)' <=> Sent(t)
    BY DEF Restart, Sent, serverVars
  <1>4. now \in Nat /\ lastTick \in Nat /\ lastTick <= now
    BY DEF IInv, TypeOK, ClockInv, Instant
  <1>5. \A t \in Instant : Sent(t) => t <= now
    <2> SUFFICES ASSUME NEW t \in Instant, Sent(t) PROVE t <= now
      OBVIOUS
    <2>1. t <= lastTick /\ t \in Nat
      BY DEF IInv, ClockInv, Instant
    <2>2. QED
      BY <2>1, <1>4
  <1>6. \A t \in Instant : ~(t > now /\ Sent(t))
    BY <1>4, <1>5 DEF Instant
  <1>7. TypeOK'
    <2>1. restarts + 1 \in Nat
      BY DEF IInv, TypeOK
    <2>2. QED
      BY <1>1, <1>4, <2>1 DEF Restart, IInv, TypeOK, sendVars, serverVars
  <1>8. LoopInv' /\ Chronological' /\ RequestInv' /\ AcknowledgedIsStored'
    BY <1>1 DEF Restart, IInv, LoopInv, Chronological, RequestInv,
       AcknowledgedIsStored, Awaited, sendVars
  <1>9. ClockInv'
    BY <1>2, <1>3, <1>4, <1>5 DEF Restart, ClockInv
  <1>10. UndeliveredIsHeld'
    BY <1>3, <1>6 DEF Restart, UndeliveredIsHeld
  <1>11. SentInOrder'
    <2>1. \A t, u \in Instant : ~(now < t /\ t < u /\ Sent(t))
      BY <1>4, <1>6 DEF Instant
    <2>2. QED
      BY <1>2, <1>3, <2>1 DEF Restart, SentInOrder
  <1>12. QED
    BY <1>7, <1>8, <1>9, <1>10, <1>11 DEF IInv

LEMMA CollectFailsKeeps == IInv /\ CollectFails => IInv'
  <1> SUFFICES ASSUME IInv, CollectFails PROVE IInv'
    OBVIOUS
  <1>1. Retained' = Retained /\ \A t \in Instant : Sent(t)' <=> Sent(t)
    BY DEF CollectFails, Retained, Held, Sent, serverVars
  <1>2. now \in Nat /\ lastTick \in Nat /\ bootedAt \in Nat /\ lastTick < now
    BY DEF CollectFails, IInv, TypeOK, Instant
  <1>3. TypeOK'
    BY <1>2 DEF CollectFails, IInv, TypeOK, sendVars, serverVars, historyVars
  <1>4. ClockInv'
    <2>1. \A b \in Retained : bootedAt < b.ts /\ b.ts <= now
      <3>1. \A b \in Retained : b.ts \in Nat /\ bootedAt < b.ts /\ b.ts <= lastTick
        BY RetainedAreBatches, BatchFields DEF IInv, ClockInv
      <3>2. QED
        BY <3>1, <1>2
    <2>2. \A t \in Instant : Sent(t) => t <= now
      <3>1. \A t \in Instant : t \in Nat /\ (Sent(t) => t <= lastTick)
        BY DEF IInv, ClockInv, Instant
      <3>2. QED
        BY <3>1, <1>2
    <2>3. bootedAt <= now
      BY <1>2 DEF IInv, ClockInv
    <2>4. lastTick' = now /\ now' = now /\ bootedAt' = bootedAt
      BY DEF CollectFails, historyVars
    <2>5. \A n : n = now => n <= now
      BY <1>2
    <2>6. lastTick' <= now'
      BY <2>4, <2>5
    <2>7. QED
      BY <2>1, <2>2, <2>3, <2>4, <2>6, <1>1 DEF ClockInv
  <1>5. LoopInv' /\ Chronological' /\ RequestInv' /\ AcknowledgedIsStored'
    BY DEF CollectFails, IInv, LoopInv, Chronological, RequestInv,
       AcknowledgedIsStored, Awaited, sendVars
  <1>6. UndeliveredIsHeld' /\ SentInOrder'
    BY <1>1 DEF CollectFails, IInv, UndeliveredIsHeld, SentInOrder, serverVars,
       historyVars
  <1>7. QED
    BY <1>3, <1>4, <1>5, <1>6 DEF IInv

\* What a step that leaves the agent alone keeps, if it starts no request and
\* takes no row away.
LEMMA ServerKeepsOrder ==
  ASSUME IInv, UNCHANGED <<now, agentVars, historyVars>>,
         \A t \in Instant : Sent(t)' => Sent(t),
         \A t \in Instant : rows[t] > 0 => rows'[t] > 0
  PROVE  /\ LoopInv' /\ ClockInv' /\ Chronological'
         /\ UndeliveredIsHeld' /\ SentInOrder'
  <1>1. Retained' = Retained
    BY DEF agentVars, Retained, Held
  <1>2. LoopInv' /\ Chronological'
    BY DEF agentVars, IInv, LoopInv, Chronological
  <1>3. ClockInv'
    BY <1>1 DEF agentVars, historyVars, IInv, ClockInv
  <1>4. UndeliveredIsHeld'
    BY <1>1 DEF historyVars, IInv, UndeliveredIsHeld
  <1>5. SentInOrder'
    BY <1>1 DEF historyVars, IInv, SentInOrder
  <1>6. QED
    BY <1>2, <1>3, <1>4, <1>5

\* What a step that only takes a request away, and may answer it with an
\* error, keeps.
LEMMA DroppingARequestKeeps ==
  ASSUME IInv, NEW r \in requests, requests' = requests \ {r},
         UNCHANGED <<now, healthy, agentVars, attempt, sentAt, rows, collected,
                     historyVars>>,
         hostKey' \in Keys \union {NoKey},
         Answer(r, "refused") \/ UNCHANGED reply
  PROVE  IInv'
  <1>1. \A t \in Instant : Sent(t)' => Sent(t)
    BY DEF Sent
  <1>2. /\ LoopInv' /\ ClockInv' /\ Chronological'
        /\ UndeliveredIsHeld' /\ SentInOrder'
    BY <1>1, ServerKeepsOrder
  <1>3. reply' = "refused" \/ reply' = reply
    BY DEF Answer
  <1>4. TypeOK'
    BY <1>3 DEF IInv, TypeOK, agentVars, historyVars
  <1>5. RequestInv' /\ AcknowledgedIsStored'
    BY <1>3 DEF IInv, RequestInv, AcknowledgedIsStored, Awaited, agentVars, Stored
  <1>6. QED
    BY <1>2, <1>4, <1>5 DEF IInv

LEMMA CheckTimestampKeeps ==
  ASSUME IInv, NEW r \in requests, CheckTimestamp(r)
  PROVE  IInv'
  <1>1. CASE ~Fresh(r.batch.ts) /\ requests' = requests \ {r}
             /\ Answer(r, "refused")
    <2>1. hostKey' \in Keys \union {NoKey}
      BY DEF IInv, TypeOK, CheckTimestamp, serverVars
    <2>2. QED
      BY <1>1, <2>1, DroppingARequestKeeps DEF CheckTimestamp, serverVars
  <1>2. CASE /\ requests' = (requests \ {r}) \union {[r EXCEPT !.stage = "body"]}
             /\ UNCHANGED reply
    <2> DEFINE s == [r EXCEPT !.stage = "body"]
    <2>1. r \in Request
      BY DEF IInv, TypeOK
    <2>2. s \in Request /\ s.batch = r.batch /\ s.attempt = r.attempt
      BY <2>1 DEF Request
    <2>3. requests' = (requests \ {r}) \union {s}
      BY <1>2
    <2> HIDE DEF s
    <2>4. \A t \in Instant : Sent(t)' => Sent(t)
      BY <2>2, <2>3 DEF CheckTimestamp, Sent, serverVars
    <2>5. /\ LoopInv' /\ ClockInv' /\ Chronological'
          /\ UndeliveredIsHeld' /\ SentInOrder'
      BY <2>4, ServerKeepsOrder DEF CheckTimestamp, serverVars
    <2>6. TypeOK'
      BY <1>2, <2>2, <2>3 DEF CheckTimestamp, IInv, TypeOK, agentVars,
         serverVars, historyVars
    <2>7. RequestInv' /\ AcknowledgedIsStored'
      BY <1>2, <2>2, <2>3 DEF CheckTimestamp, IInv, RequestInv, Awaited,
         AcknowledgedIsStored, Stored, agentVars, serverVars
    <2>8. QED
      BY <2>5, <2>6, <2>7 DEF IInv
  <1>3. QED
    BY <1>1, <1>2 DEF CheckTimestamp

LEMMA IngestKeeps ==
  ASSUME IInv, NEW r \in requests, Ingest(r)
  PROVE  IInv'
  <1> DEFINE ts == r.batch.ts
  <1>1. r \in Request /\ ts \in Instant
    BY DEF IInv, TypeOK, Request, Batch
  <1>2. /\ rows \in [Instant -> Nat]
        /\ rows' = [rows EXCEPT ![ts] = @ + 1]
        /\ requests' = requests \ {r}
    BY DEF Ingest, IInv, TypeOK
  <1>3. /\ rows' \in [Instant -> Nat]
        /\ rows'[ts] > 0
        /\ \A t \in Instant : t # ts => rows'[t] = rows[t]
    BY <1>1, <1>2
  <1>4. \A t \in Instant : rows[t] > 0 => rows'[t] > 0
    BY <1>3
  <1>5. \A t \in Instant : Sent(t)' => Sent(t)
    BY <1>2, <1>3 DEF Sent
  <1>6. /\ LoopInv' /\ ClockInv' /\ Chronological'
        /\ UndeliveredIsHeld' /\ SentInOrder'
    BY <1>4, <1>5, ServerKeepsOrder DEF Ingest
  <1>7. (Awaited(r) /\ reply' = "ok") \/ reply' = reply
    BY DEF Ingest, Answer
  <1>8. TypeOK'
    BY <1>2, <1>3, <1>7, KeyAssumption DEF Ingest, IInv, TypeOK, agentVars,
       historyVars
  <1>9. RequestInv'
    BY <1>2 DEF Ingest, IInv, RequestInv, Awaited, agentVars
  <1>10. AcknowledgedIsStored'
    <2>1. CASE Awaited(r)
      <3>1. r.batch = Head(pending)
        BY <2>1 DEF IInv, RequestInv
      <3>2. QED
        BY <3>1, <1>3 DEF Ingest, AcknowledgedIsStored, Stored, agentVars
    <2>2. CASE reply' = reply
      <3> SUFFICES ASSUME pc = "wait", reply = "ok"
                   PROVE  rows'[Head(pending).ts] > 0
        BY <2>2 DEF Ingest, AcknowledgedIsStored, Stored, agentVars
      <3>1. rows[Head(pending).ts] > 0
        BY DEF IInv, AcknowledgedIsStored, Stored
      <3>2. Head(pending).ts \in Instant
        BY HeadIsOldest, BatchFields
      <3>3. QED
        BY <3>1, <3>2, <1>4
    <2>3. QED
      BY <1>7, <2>1, <2>2
  <1>11. QED
    BY <1>6, <1>8, <1>9, <1>10 DEF IInv

LEMMA EnvironmentKeeps == IInv /\ (HealthChanges \/ Advance) => IInv'
  <1> SUFFICES ASSUME IInv, HealthChanges \/ Advance PROVE IInv'
    OBVIOUS
  <1>1. UNCHANGED <<agentVars, sendVars, requests, serverVars, collected,
                    historyVars>>
    BY DEF HealthChanges, Advance
  <1>2. Retained' = Retained /\ \A t \in Instant : Sent(t)' <=> Sent(t)
    BY <1>1 DEF Retained, Held, Sent, agentVars, serverVars
  <1>3. now' \in Instant /\ lastTick <= now'
    <2>1. now \in Nat /\ now \in Instant /\ lastTick \in Nat /\ lastTick <= now
      BY DEF IInv, TypeOK, ClockInv, Instant
    <2>2. CASE HealthChanges
      BY <2>1, <2>2 DEF HealthChanges
    <2>3. CASE Advance
      <3>1. now + 1 \in Instant /\ lastTick <= now + 1
        BY <2>1, <2>3, TimingAssumption DEF Advance, Instant
      <3>2. QED
        BY <3>1, <2>3 DEF Advance
    <2>4. QED
      BY <2>2, <2>3
  <1>4. TypeOK'
    BY <1>1, <1>3 DEF IInv, TypeOK, agentVars, sendVars, serverVars,
       historyVars, HealthChanges, Advance
  <1>5. ClockInv'
    BY <1>1, <1>2, <1>3 DEF IInv, ClockInv, agentVars, historyVars
  <1>6. LoopInv' /\ Chronological' /\ RequestInv' /\ AcknowledgedIsStored'
    BY <1>1 DEF IInv, LoopInv, Chronological, RequestInv, Awaited, Stored,
       AcknowledgedIsStored, agentVars, sendVars, serverVars
  <1>7. UndeliveredIsHeld' /\ SentInOrder'
    BY <1>1, <1>2 DEF IInv, UndeliveredIsHeld, SentInOrder, serverVars,
       historyVars
  <1>8. QED
    BY <1>4, <1>5, <1>6, <1>7 DEF IInv

LEMMA NextKeeps == IInv /\ [Next]_vars => IInv'
  <1> SUFFICES ASSUME IInv, [Next]_vars PROVE IInv'
    OBVIOUS
  <1>1. CASE AgentStep
    BY <1>1, CollectKeeps, CollectFailsKeeps, DrainKeeps, SendKeeps,
       SendSucceedsKeeps, SendFailsKeeps DEF AgentStep
  <1>2. CASE Restart
    BY <1>2, RestartKeeps
  <1>3. ASSUME NEW r \in requests, Refuse(r) PROVE IInv'
    <2>1. hostKey' \in Keys \union {NoKey}
      BY <1>3 DEF Refuse, serverVars, IInv, TypeOK
    <2>2. QED
      BY <1>3, <2>1, DroppingARequestKeeps DEF Refuse, serverVars
  <1>4. ASSUME NEW r \in requests, IngestFails(r) PROVE IInv'
    <2>1. hostKey' \in Keys \union {NoKey}
      BY <1>4, KeyAssumption DEF IngestFails, IInv, TypeOK
    <2>2. QED
      BY <1>4, <2>1, DroppingARequestKeeps DEF IngestFails
  <1>5. ASSUME NEW r \in requests, Lose(r) PROVE IInv'
    <2>1. hostKey' \in Keys \union {NoKey}
      BY <1>5 DEF Lose, serverVars, IInv, TypeOK
    <2>2. QED
      BY <1>5, <2>1, DroppingARequestKeeps DEF Lose, serverVars, sendVars
  <1>6. CASE ServerStep
    BY <1>3, <1>6, CheckTimestampKeeps, IngestKeeps DEF ServerStep
  <1>7. CASE HealthChanges \/ Advance
    BY <1>7, EnvironmentKeeps
  <1>8. CASE UNCHANGED vars
    <2>1. Retained' = Retained /\ \A t \in Instant : Sent(t)' <=> Sent(t)
      BY <1>8 DEF vars, agentVars, serverVars, Retained, Held, Sent
    <2>2. TypeOK' /\ LoopInv' /\ ClockInv' /\ Chronological' /\ RequestInv'
      BY <1>8, <2>1 DEF vars, agentVars, sendVars, serverVars, historyVars,
         IInv, TypeOK, LoopInv, ClockInv, Chronological, RequestInv, Awaited
    <2>3. AcknowledgedIsStored' /\ UndeliveredIsHeld' /\ SentInOrder'
      BY <1>8, <2>1 DEF vars, agentVars, sendVars, serverVars, historyVars,
         IInv, AcknowledgedIsStored, Stored, UndeliveredIsHeld, SentInOrder
    <2>4. QED
      BY <2>2, <2>3 DEF IInv
  <1>9. QED
    BY <1>1, <1>2, <1>4, <1>5, <1>6, <1>7, <1>8 DEF Next

-----------------------------------------------------------------------------
(* The results.                                                            *)

\* The invariant above holds of every behaviour of the pipeline.
THEOREM PipelineInvariant == Spec => []IInv
  <1>1. Init => IInv
    BY InitInvariant
  <1>2. IInv /\ [Next]_vars => IInv'
    BY NextKeeps
  <1>3. QED
    BY <1>1, <1>2, PTL DEF Spec

\* Every variable of the pipeline keeps its type.
THEOREM PipelineTypes == Spec => []TypeOK
  <1>1. IInv => TypeOK
    BY DEF IInv
  <1>2. QED
    BY <1>1, PipelineInvariant, PTL

\* However large the buffer, the agent never holds more than one batch besides
\* the one being sampled: an outage costs every other batch sampled in it.
THEOREM PipelineRetention == Spec => []AtMostOneRetained
  <1>1. IInv => AtMostOneRetained
    <2> SUFFICES ASSUME IInv PROVE AtMostOneRetained
      OBVIOUS
    <2>1. Len(buffer) \in Nat /\ Len(pending) \in Nat /\ Len(<< >>) = 0
      BY DEF IInv, TypeOK
    <2>2. Len(buffer) + Len(pending) <= 2
      <3>1. CASE pc = "idle" \/ pc = "drain"
        <4>1. pending = << >> /\ Len(buffer) <= 2
          BY <3>1, <2>1 DEF IInv, LoopInv
        <4>2. QED
          BY <4>1, <2>1
      <3>2. CASE pc \in {"send", "wait"}
        <4>1. buffer = << >> /\ Len(pending) <= 2
          BY <3>2 DEF IInv, LoopInv
        <4>2. QED
          BY <4>1, <2>1
      <3>3. QED
        BY <3>1, <3>2 DEF IInv, TypeOK
    <2>3. QED
      BY <2>2 DEF IInv, LoopInv, AtMostOneRetained
  <1>2. QED
    BY <1>1, PipelineInvariant, PTL

\* What the agent holds is always in the order it was sampled.
THEOREM PipelineChronological == Spec => []Chronological
  <1>1. IInv => Chronological
    BY DEF IInv
  <1>2. QED
    BY <1>1, PipelineInvariant, PTL

\* A batch the agent drops after a positive answer is in the database.
THEOREM PipelineAcknowledged == Spec => []AcknowledgedIsStored
  <1>1. IInv => AcknowledgedIsStored
    BY DEF IInv
  <1>2. QED
    BY <1>1, PipelineInvariant, PTL

\* What was sent is stored or still held by the process that sent it.
THEOREM PipelineUndelivered == Spec => []UndeliveredIsHeld
  <1>1. IInv => UndeliveredIsHeld
    BY DEF IInv
  <1>2. QED
    BY <1>1, PipelineInvariant, PTL

\* A later batch is sent only once every earlier one is stored or given up.
THEOREM PipelineSentInOrder == Spec => []SentInOrder
  <1>1. IInv => SentInOrder
    BY DEF IInv
  <1>2. QED
    BY <1>1, PipelineInvariant, PTL

\* The server first stores the batches of one agent process in the order they
\* were sampled, whatever happens to requests and answers on the way.
THEOREM PipelineStoresInOrder == Spec => FirstStoredInOrder
  <1>1. IInv /\ [Next]_vars =>
          [\A t \in Instant : t > bootedAt /\ rows[t] = 0 /\ rows'[t] > 0
              => \A u \in Instant : u > t => rows[u] = 0]_vars
    <2> SUFFICES ASSUME IInv, Next, NEW t \in Instant, t > bootedAt,
                        rows[t] = 0, rows'[t] > 0,
                        NEW u \in Instant, u > t
                 PROVE  rows[u] = 0
      BY DEF vars, serverVars
    <2>1. rows \in [Instant -> Nat]
      BY DEF IInv, TypeOK
    <2>2. rows' # rows
      BY <2>1
    <2>3. PICK r \in requests : Ingest(r)
      BY <2>2 DEF Next, AgentStep, ServerStep, Collect, CollectFails,
         DrainBuffer, Send, SendSucceeds, SendFails, Restart, CheckTimestamp,
         Refuse, IngestFails, Lose, HealthChanges, Advance, serverVars
    <2>4. r.batch.ts = t
      BY <2>1, <2>3 DEF Ingest
    <2>5. Sent(t)
      BY <2>4 DEF Sent
    <2>6. ~(rows[u] > 0)
      <3> SUFFICES ASSUME rows[u] > 0 PROVE FALSE
        OBVIOUS
      <3>1. Sent(u)
        BY DEF Sent
      <3>2. bootedAt < t /\ t < u
        BY DEF IInv, TypeOK, Instant
      <3>3. rows[t] > 0
        BY <3>1, <3>2, <2>5 DEF IInv, SentInOrder
      <3>4. QED
        BY <3>3
    <2>7. QED
      BY <2>1, <2>6
  <1>2. QED
    BY <1>1, PipelineInvariant, PTL DEF Spec, FirstStoredInOrder

\* The oldest batch held is never the one an unsuccessful cycle gives up.
THEOREM PipelineOldestKept == Spec => OldestKept
  <1>1. IInv /\ [Next]_vars =>
          [\A b \in Retained : b \notin Retained' /\ restarts' = restarts
              => Stored(b) \/ \E a \in Retained' : a.ts < b.ts]_vars
    <2> SUFFICES ASSUME IInv, Next, NEW b \in Retained, b \notin Retained',
                        restarts' = restarts
                 PROVE  Stored(b) \/ \E a \in Retained' : a.ts < b.ts
      BY DEF vars
    <2>1. CASE SendSucceeds
      <3>1. Retained = {Head(pending)} \union Held(Tail(pending))
        BY <2>1, HeadIsOldest DEF SendSucceeds
      <3>2. Retained' = Held(buffer) \union Held(Tail(pending))
        BY <2>1 DEF SendSucceeds, Retained, Held
      <3>3. b = Head(pending)
        BY <3>1, <3>2
      <3>4. QED
        BY <2>1, <3>3 DEF SendSucceeds, IInv, AcknowledgedIsStored
    <2>2. CASE SendFails
      <3>1. /\ buffer = << >> /\ Head(pending) \in Batch
            /\ \A x \in Retained \ {Head(pending)} : Head(pending).ts < x.ts
        BY <2>2, HeadIsOldest DEF SendFails, SendError
      <3>2. << >> \in Seq(Batch) /\ Len(<< >>) <= 1
        OBVIOUS
      <3>3. buffer' = Append(<< >>, Head(pending))
        BY <3>1, <3>2, <2>2, EnqueueAppends DEF SendFails, SendError
      <3>4. Held(buffer') = Held(<< >>) \union {Head(pending)}
        BY <3>1, <3>2, <3>3, HeldOfAppend
      <3>5. Head(pending) \in Retained'
        BY <3>4 DEF Retained, Held
      <3>6. QED
        BY <3>1, <3>5
    <2>3. CASE Restart
      <3>1. restarts \in Nat /\ restarts' = restarts + 1
        BY <2>3 DEF Restart, IInv, TypeOK
      <3>2. restarts + 1 # restarts
        BY <3>1
      <3>3. QED
        BY <3>1, <3>2
    <2>4. CASE Collect
      <3>1. PICK x \in Batch : buffer' = Append(buffer, x)
        <4>1. PICK some \in BOOLEAN :
                buffer' = Queue!Enqueue(buffer, [ts |-> now, some |-> some])
          BY <2>4 DEF Collect
        <4>2. /\ [ts |-> now, some |-> some] \in Batch
              /\ buffer \in Seq(Batch) /\ Len(buffer) <= 1
          BY <2>4 DEF Collect, IInv, TypeOK, LoopInv, Batch
        <4>3. QED
          BY <4>1, <4>2, EnqueueAppends
      <3>2. Held(buffer') = Held(buffer) \union {x}
        BY <3>1, HeldOfAppend DEF IInv, TypeOK
      <3>3. Retained \subseteq Retained'
        BY <2>4, <3>2 DEF Collect, Retained, Held
      <3>4. QED
        BY <3>3
    <2>5. CASE DrainBuffer
      <3>1. Retained' = Retained
        BY <2>5 DEF DrainBuffer, IInv, LoopInv, Retained, Held
      <3>2. QED
        BY <3>1
    <2>6. CASE UNCHANGED <<buffer, pending>>
      BY <2>6 DEF Retained, Held
    <2>7. QED
      BY <2>1, <2>2, <2>3, <2>4, <2>5, <2>6 DEF Next, AgentStep, ServerStep,
         CollectFails, Send, CheckTimestamp, Ingest, Refuse, IngestFails, Lose,
         HealthChanges, Advance, agentVars
  <1>2. QED
    BY <1>1, PipelineInvariant, PTL DEF Spec, OldestKept
=============================================================================
