-------------------------- MODULE RingBufferProofs --------------------------
(***************************************************************************)
(* Theorems about RingBuffer, for every capacity and every set of values.  *)
(***************************************************************************)
EXTENDS RingBuffer, SequenceTheorems, TLAPS

LEMMA ModBelow ==
  ASSUME NEW a \in Nat, a < Capacity
  PROVE  a % Capacity = a
BY CapacityAssumption

LEMMA ModAbove ==
  ASSUME NEW a \in Nat, a >= Capacity, a < 2 * Capacity
  PROVE  a % Capacity = a - Capacity
BY CapacityAssumption

\* Stepping a position keeps it a position.
LEMMA NextPosSlot ==
  ASSUME NEW p \in Slots
  PROVE  /\ NextPos(p) \in Slots
         /\ NextPos(p) = IF p = Capacity - 1 THEN 0 ELSE p + 1
BY CapacityAssumption, ModBelow, ModAbove DEF NextPos, Slots

\* A position plus an offset below the capacity wraps around at most once.
LEMMA OffsetPos ==
  ASSUME NEW p \in Slots, NEW k \in 0 .. Capacity
  PROVE  /\ (p + k) % Capacity \in Slots
         /\ (p + k) % Capacity = IF p + k < Capacity THEN p + k ELSE p + k - Capacity
BY CapacityAssumption, ModBelow, ModAbove DEF Slots

\* The position before one of those an indexed Consume moves is a position.
LEMMA IndexModSlot ==
  ASSUME NEW j \in Slots
  PROVE  IndexMod(j - 1, Capacity) \in Slots
<1>1. CASE j = 0
  <2>1. IndexMod(j - 1, Capacity) = Capacity - (1 % Capacity)
    BY <1>1 DEF IndexMod
  <2>2. 1 % Capacity = 1
    BY CapacityAssumption, ModBelow
  <2> QED
    BY <2>1, <2>2, CapacityAssumption DEF Slots
<1>2. CASE j > 0
  BY <1>2, CapacityAssumption, ModBelow DEF IndexMod, Slots
<1> QED
  BY <1>1, <1>2 DEF Slots

-----------------------------------------------------------------------------
(* Type correctness, whatever indices clients consume at. *)

LEMMA InitTypeOK == Init => TypeOK
<1> SUFFICES ASSUME Init PROVE TypeOK
  OBVIOUS
<1> DEFINE blank == [s \in Slots |-> Uninitialized]
           identity == [k \in Slots |-> k]
<1>1. rb = [values |-> blank, indices |-> identity, read |-> 0, write |-> 0, size |-> 0]
  BY DEF Init, NewRingBuffer, Cleared
<1>2. blank \in [Slots -> SlotValue] /\ identity \in [Slots -> Slots]
  BY DEF SlotValue
<1>3. 0 \in Slots /\ 0 \in 0 .. Capacity - 1
  BY CapacityAssumption DEF Slots
<1> HIDE DEF blank, identity
<1> QED
  BY <1>1, <1>2, <1>3 DEF TypeOK

LEMMA NextTypeOK == TypeOK /\ [Next]_rb => TypeOK'
<1> SUFFICES ASSUME TypeOK, [Next]_rb PROVE TypeOK'
  OBVIOUS
<1>1. ASSUME NEW v \in Value, NewValue(v) PROVE TypeOK'
  BY <1>1 DEF TypeOK, NewValue, WithNewValue, NewSlot, SlotValue
<1>2. CASE Commit
  <2>1. NextPos(rb.write) \in Slots /\ NextPos(rb.read) \in Slots
    BY NextPosSlot DEF TypeOK
  <2> DEFINE r == IF NextPos(rb.write) = rb.read THEN NextPos(rb.read) ELSE rb.read
             n == IF rb.size < Capacity - 1 THEN rb.size + 1 ELSE rb.size
  <2>2. rb' = [rb EXCEPT !.write = NextPos(rb.write), !.size = n, !.read = r]
    BY <1>2 DEF Commit, Committed
  <2>3. r \in Slots /\ n \in 0 .. Capacity - 1
    BY <2>1, CapacityAssumption DEF TypeOK
  <2> HIDE DEF r, n
  <2> QED
    BY <2>1, <2>2, <2>3 DEF TypeOK
<1>3. ASSUME NEW i \in ConsumeAt, Consume(i) PROVE TypeOK'
  <2>1. rb.size - 1 \in 0 .. Capacity - 1
    BY <1>3, ConsumeAtAssumption, CapacityAssumption DEF Consume, TypeOK
  <2>2. NextPos(rb.read) \in Slots
    BY NextPosSlot DEF TypeOK
  <2> DEFINE moved == {(rb.read + k) % Capacity : k \in 1 .. i}
             shifted == [j \in Slots |-> IF j \in moved
                                        THEN rb.indices[IndexMod(j - 1, Capacity)]
                                        ELSE rb.indices[j]]
  <2>3. shifted \in [Slots -> Slots]
    BY IndexModSlot DEF TypeOK
  <2>4. rb' = [rb EXCEPT !.indices = shifted, !.read = NextPos(@), !.size = @ - 1]
    BY <1>3 DEF Consume, Consumed
  <2> HIDE DEF shifted
  <2> QED
    BY <2>1, <2>2, <2>3, <2>4 DEF TypeOK
<1>4. CASE Clear
  <2> DEFINE identity == [k \in Slots |-> k]
  <2>1. rb' = [rb EXCEPT !.read = 0, !.write = 0, !.size = 0, !.indices = identity]
    BY <1>4 DEF Clear, Cleared
  <2>2. identity \in [Slots -> Slots]
    OBVIOUS
  <2>3. 0 \in Slots /\ 0 \in 0 .. Capacity - 1
    BY CapacityAssumption DEF Slots
  <2> HIDE DEF identity
  <2> QED
    BY <2>1, <2>2, <2>3 DEF TypeOK
<1>5. CASE UNCHANGED rb
  BY <1>5 DEF TypeOK
<1> QED
  BY <1>1, <1>2, <1>3, <1>4, <1>5 DEF Next

\* Every reachable buffer has its positions and its count in range.
THEOREM TypeCorrect == Spec => []TypeOK
BY InitTypeOK, NextTypeOK, PTL DEF Spec

-----------------------------------------------------------------------------
(* The count and the two positions agree, whatever indices clients consume  *)
(* at: the indices do not enter into it.                                    *)

LEMMA NextSizeMatches ==
  TypeOK /\ SizeMatchesPositions /\ [Next]_rb => SizeMatchesPositions'
<1> SUFFICES ASSUME TypeOK, SizeMatchesPositions, [Next]_rb
             PROVE  SizeMatchesPositions'
  OBVIOUS
<1> USE DEF SizeMatchesPositions
<1>0. rb.read \in Slots /\ rb.write \in Slots /\ rb.size \in 0 .. Capacity - 1
  BY DEF TypeOK
<1>1. ASSUME NEW v \in Value, NewValue(v) PROVE SizeMatchesPositions'
  BY <1>1 DEF NewValue, WithNewValue, TypeOK
<1>2. CASE Commit
  <2> DEFINE w == NextPos(rb.write)
  <2>1. /\ rb'.write = w
        /\ rb'.size = IF rb.size < Capacity - 1 THEN rb.size + 1 ELSE rb.size
        /\ rb'.read = IF w = rb.read THEN NextPos(rb.read) ELSE rb.read
    BY <1>2 DEF Commit, Committed, TypeOK
  <2>2. rb'.read \in Slots /\ rb'.size \in 0 .. Capacity - 1
    BY <1>0, <2>1, NextPosSlot, CapacityAssumption
  <2>3. rb.write = IF rb.read + rb.size < Capacity
                   THEN rb.read + rb.size ELSE rb.read + rb.size - Capacity
    BY <1>0, OffsetPos, CapacityAssumption
  <2>4. (rb'.read + rb'.size) % Capacity =
          IF rb'.read + rb'.size < Capacity
          THEN rb'.read + rb'.size ELSE rb'.read + rb'.size - Capacity
    BY <2>2, OffsetPos, CapacityAssumption
  <2>5. /\ w = IF rb.write = Capacity - 1 THEN 0 ELSE rb.write + 1
        /\ NextPos(rb.read) = IF rb.read = Capacity - 1 THEN 0 ELSE rb.read + 1
    BY <1>0, NextPosSlot
  <2> HIDE DEF w
  <2>6. rb'.write = w /\ w \in Slots
    BY <1>0, <2>1, NextPosSlot DEF w
  <2>7. CASE rb.size < Capacity - 1
    <3>1. w # rb.read
      BY <1>0, <2>3, <2>5, <2>7, CapacityAssumption DEF Slots
    <3> QED
      BY <1>0, <2>1, <2>3, <2>4, <2>5, <2>7, <3>1, CapacityAssumption DEF Slots
  <2>8. CASE rb.size = Capacity - 1
    <3>1. w = rb.read
      BY <1>0, <2>3, <2>5, <2>8, CapacityAssumption DEF Slots
    <3> QED
      BY <1>0, <2>1, <2>4, <2>5, <2>8, <3>1, CapacityAssumption DEF Slots
  <2> QED
    BY <1>0, <2>7, <2>8, CapacityAssumption
<1>3. ASSUME NEW i \in ConsumeAt, Consume(i) PROVE SizeMatchesPositions'
  <2>1. /\ rb'.write = rb.write
        /\ rb'.size = rb.size - 1
        /\ rb'.read = NextPos(rb.read)
    BY <1>3 DEF Consume, Consumed, TypeOK
  <2>2. rb'.read \in Slots /\ rb'.size \in 0 .. Capacity - 1
    BY <1>0, <1>3, <2>1, NextPosSlot, CapacityAssumption, ConsumeAtAssumption
    DEF Consume
  <2>3. rb.write = IF rb.read + rb.size < Capacity
                   THEN rb.read + rb.size ELSE rb.read + rb.size - Capacity
    BY <1>0, OffsetPos, CapacityAssumption
  <2>4. (rb'.read + rb'.size) % Capacity =
          IF rb'.read + rb'.size < Capacity
          THEN rb'.read + rb'.size ELSE rb'.read + rb'.size - Capacity
    BY <2>2, OffsetPos, CapacityAssumption
  <2>5. NextPos(rb.read) = IF rb.read = Capacity - 1 THEN 0 ELSE rb.read + 1
    BY <1>0, NextPosSlot
  <2> QED
    BY <1>0, <2>1, <2>2, <2>3, <2>4, <2>5, CapacityAssumption DEF Slots
<1>4. CASE Clear
  BY <1>4, CapacityAssumption, ModBelow DEF Clear, Cleared, TypeOK
<1>5. CASE UNCHANGED rb
  BY <1>5
<1> QED
  BY <1>1, <1>2, <1>3, <1>4, <1>5 DEF Next

\* The count never disagrees with the positions.
THEOREM SizeAgrees == Spec => []SizeMatchesPositions
<1>1. Init => SizeMatchesPositions
  BY CapacityAssumption, ModBelow DEF Init, NewRingBuffer, Cleared, SizeMatchesPositions
<1> QED
  BY <1>1, NextSizeMatches, TypeCorrect, PTL DEF Spec

-----------------------------------------------------------------------------
(***************************************************************************)
(* Clients that consume only the oldest value. Their buffers never permute *)
(* the indices, so distinct positions are distinct slots and the slot that *)
(* is reserved for writing is never one a reader reaches.                  *)
(***************************************************************************)

HeadOnly == ConsumeAt = {0}

Identity == rb.indices = [k \in Slots |-> k]

FifoInv == TypeOK /\ SizeMatchesPositions /\ Identity

LEMMA InitFifoInv == Init => FifoInv
<1>1. Init => SizeMatchesPositions /\ Identity
  BY CapacityAssumption, ModBelow
  DEF Init, NewRingBuffer, Cleared, SizeMatchesPositions, Identity
<1> QED
  BY <1>1, InitTypeOK DEF FifoInv

LEMMA NextFifoInv ==
  ASSUME HeadOnly PROVE FifoInv /\ [Next]_rb => FifoInv'
<1> SUFFICES ASSUME FifoInv, [Next]_rb PROVE Identity'
  BY NextTypeOK, NextSizeMatches DEF FifoInv
<1> USE DEF FifoInv, Identity
<1>1. ASSUME NEW v \in Value, NewValue(v) PROVE Identity'
  BY <1>1 DEF NewValue, WithNewValue, TypeOK
<1>2. CASE Commit
  BY <1>2 DEF Commit, Committed, TypeOK
<1>3. ASSUME Consume(0) PROVE Identity'
  <2> DEFINE moved == {(rb.read + k) % Capacity : k \in 1 .. 0}
  <2>1. moved = {}
    OBVIOUS
  <2>2. rb'.indices = [j \in Slots |-> IF j \in moved
                                      THEN rb.indices[IndexMod(j - 1, Capacity)]
                                      ELSE rb.indices[j]]
    BY <1>3 DEF Consume, Consumed, TypeOK
  <2> QED
    BY <2>1, <2>2
<1>4. CASE Clear
  BY <1>4 DEF Clear, Cleared, TypeOK
<1>5. CASE UNCHANGED rb
  BY <1>5
<1> QED
  BY <1>1, <1>2, <1>3, <1>4, <1>5 DEF Next, HeadOnly

\* Under the invariant a readable slot is a position, and not the write one.
LEMMA OldestSlotPos ==
  ASSUME FifoInv, NEW i \in 0 .. Capacity - 1
  PROVE  /\ OldestSlot(rb, i) \in Slots
         /\ OldestSlot(rb, i) = IF rb.read + i < Capacity
                                THEN rb.read + i ELSE rb.read + i - Capacity
         /\ NewSlot(rb) = rb.write
         /\ rb.write = IF rb.read + rb.size < Capacity
                       THEN rb.read + rb.size ELSE rb.read + rb.size - Capacity
<1>1. rb.read \in Slots /\ rb.write \in Slots /\ rb.size \in 0 .. Capacity - 1
  BY DEF FifoInv, TypeOK
<1>2. /\ (rb.read + i) % Capacity \in Slots
      /\ (rb.read + i) % Capacity = IF rb.read + i < Capacity
                                    THEN rb.read + i ELSE rb.read + i - Capacity
  BY <1>1, OffsetPos, CapacityAssumption
<1>3. rb.write = IF rb.read + rb.size < Capacity
                 THEN rb.read + rb.size ELSE rb.read + rb.size - Capacity
  BY <1>1, OffsetPos, CapacityAssumption DEF FifoInv, SizeMatchesPositions
<1> QED
  BY <1>1, <1>2, <1>3 DEF OldestSlot, NewSlot, FifoInv, Identity

LEMMA FifoInvHides == FifoInv => NewValueNotVisible
<1> SUFFICES ASSUME FifoInv, NEW i \in 0 .. rb.size - 1
             PROVE  OldestSlot(rb, i) # NewSlot(rb)
  BY DEF NewValueNotVisible
<1>1. rb.read \in Slots /\ rb.size \in 0 .. Capacity - 1
  BY DEF FifoInv, TypeOK
<1>2. i \in 0 .. Capacity - 1
  BY <1>1, CapacityAssumption
<1> QED
  BY <1>1, <1>2, OldestSlotPos, CapacityAssumption DEF Slots

\* A value being written in place cannot be seen by a reader before Commit(), in a full
\* buffer either, of which ring_buffer.h:79 says that NewValue() returns its oldest value.
THEOREM NewValueHidden == ASSUME HeadOnly PROVE Spec => []NewValueNotVisible
BY InitFifoInv, NextFifoInv, FifoInvHides, PTL DEF Spec

-----------------------------------------------------------------------------
(***************************************************************************)
(* The contents of such a buffer behave as a bounded first-in first-out    *)
(* queue. What a step does to the contents is shown position by position;  *)
(* Regular(r) is the invariant of a single buffer value r, so that it can  *)
(* be used of the buffer before and after a step.                          *)
(***************************************************************************)

Regular(r) ==
  /\ r \in [values  : [Slots -> SlotValue],
            indices : [Slots -> Slots],
            read    : Slots,
            write   : Slots,
            size    : 0 .. Capacity - 1]
  /\ r.write = (r.read + r.size) % Capacity
  /\ r.indices = [k \in Slots |-> k]

LEMMA FifoInvRegular ==
  /\ FifoInv => Regular(rb)
  /\ FifoInv' => Regular(rb')
BY DEF FifoInv, Regular, TypeOK, SizeMatchesPositions, Identity

\* A position plus an offset, wrapped at the capacity.
Wrap(p) == IF p < Capacity THEN p ELSE p - Capacity

LEMMA WrapPos ==
  \A p \in Slots, k \in 0 .. Capacity :
    (p + k) % Capacity \in Slots /\ (p + k) % Capacity = Wrap(p + k)
<1> TAKE p \in Slots, k \in 0 .. Capacity
<1>1. (p + k) % Capacity \in Slots
  BY OffsetPos
<1>2. (p + k) % Capacity = IF p + k < Capacity THEN p + k ELSE p + k - Capacity
  BY OffsetPos
<1> QED
  BY <1>1, <1>2, CapacityAssumption DEF Wrap, Slots

\* The k-th readable value in terms of positions.
LEMMA ContentsAt ==
  ASSUME NEW r, Regular(r)
  PROVE  /\ r.read \in Slots
         /\ r.size \in 0 .. Capacity - 1
         /\ r.write = Wrap(r.read + r.size)
         /\ NewSlot(r) = r.write
         /\ Contents(r) \in Seq(SlotValue)
         /\ Len(Contents(r)) = r.size
         /\ \A k \in 1 .. r.size : Contents(r)[k] = r.values[Wrap(r.read + k - 1)]
<1>1. /\ r.read \in Slots /\ r.write \in Slots /\ r.size \in 0 .. Capacity - 1
      /\ r.values \in [Slots -> SlotValue]
  BY DEF Regular
<1>2. ASSUME NEW k \in 1 .. r.size
      PROVE  /\ OldestValue(r, k - 1) \in SlotValue
             /\ OldestValue(r, k - 1) = r.values[Wrap(r.read + k - 1)]
  <2>1. PICK n \in 0 .. Capacity : n = k - 1
    BY <1>1, CapacityAssumption
  <2>2. (r.read + n) % Capacity \in Slots /\ (r.read + n) % Capacity = Wrap(r.read + n)
    BY <1>1, WrapPos
  <2>3. OldestSlot(r, n) = Wrap(r.read + n)
    BY <2>2 DEF OldestSlot, Regular
  <2>4. r.read + n = r.read + k - 1
    BY <1>1, <2>1, CapacityAssumption DEF Slots
  <2> QED
    BY <1>1, <2>1, <2>2, <2>3, <2>4 DEF OldestValue
<1>3. Contents(r) \in [1 .. r.size -> SlotValue]
  BY <1>2 DEF Contents
<1>4. r.size \in Nat
  BY <1>1, CapacityAssumption
<1>5. Contents(r) \in Seq(SlotValue) /\ Len(Contents(r)) = r.size
  BY <1>3, <1>4
<1>6. \A k \in 1 .. r.size : Contents(r)[k] = OldestValue(r, k - 1)
  BY DEF Contents
<1>7. r.write = Wrap(r.read + r.size)
  <2>1. r.size \in 0 .. Capacity
    BY <1>1, CapacityAssumption
  <2>2. (r.read + r.size) % Capacity = Wrap(r.read + r.size)
    BY <1>1, <2>1, WrapPos
  <2> QED
    BY <2>2 DEF Regular
<1>8. NewSlot(r) = r.write
  BY <1>1 DEF NewSlot, Regular
<1> QED
  BY <1>1, <1>2, <1>5, <1>6, <1>7, <1>8

\* Two sequences of one length that agree everywhere are equal.
LEMMA SameSeq ==
  ASSUME NEW S, NEW s \in Seq(S), NEW t \in Seq(S), Len(s) = Len(t),
         \A k \in 1 .. Len(s) : s[k] = t[k]
  PROVE  s = t
OBVIOUS

\* Writing in place reaches no readable value.
LEMMA EditKeepsContents ==
  ASSUME NEW r, NEW q, NEW v, Regular(r), Regular(q), q = WithNewValue(r, v)
  PROVE  Contents(q) = Contents(r)
<1>1. /\ q.size = r.size /\ q.read = r.read
      /\ q.values = [r.values EXCEPT ![NewSlot(r)] = v]
  BY DEF WithNewValue, Regular
<1>2. ASSUME NEW k \in 1 .. r.size
      PROVE  Contents(q)[k] = Contents(r)[k]
  <2>1. Wrap(r.read + k - 1) # r.write /\ Wrap(r.read + k - 1) \in Slots
    BY ContentsAt, CapacityAssumption DEF Wrap, Slots
  <2>2. r.values \in [Slots -> SlotValue]
    BY DEF Regular
  <2> QED
    BY <1>1, <2>1, <2>2, ContentsAt
<1> QED
  BY <1>1, <1>2, ContentsAt, SameSeq

\* Committing appends the value written in place, and drops the oldest value
\* of a full buffer.
LEMMA CommitPushes ==
  ASSUME NEW r, NEW q, Regular(r), Regular(q), q = Committed(r)
  PROVE  Contents(q) = IF Len(Contents(r)) < Capacity - 1
                       THEN Append(Contents(r), r.values[NewSlot(r)])
                       ELSE Append(Tail(Contents(r)), r.values[NewSlot(r)])
<1> DEFINE v == r.values[r.write]
<1>1. /\ q.values = r.values
      /\ q.write = NextPos(r.write)
      /\ q.size = IF r.size < Capacity - 1 THEN r.size + 1 ELSE r.size
      /\ q.read = IF q.write = r.read THEN NextPos(r.read) ELSE r.read
  BY DEF Committed, Regular
<1>2. /\ r.read \in Slots /\ r.write \in Slots /\ q.read \in Slots
      /\ r.size \in 0 .. Capacity - 1 /\ q.size \in 0 .. Capacity - 1
      /\ v \in SlotValue
  BY DEF Regular
<1>3. /\ q.write = IF r.write = Capacity - 1 THEN 0 ELSE r.write + 1
      /\ NextPos(r.read) = IF r.read = Capacity - 1 THEN 0 ELSE r.read + 1
  BY <1>1, <1>2, NextPosSlot
<1>4. r.write = Wrap(r.read + r.size)
  BY ContentsAt
<1>5. v = r.values[NewSlot(r)]
  BY ContentsAt
<1>6. /\ Contents(r) \in Seq(SlotValue) /\ Len(Contents(r)) = r.size
      /\ \A k \in 1 .. r.size : Contents(r)[k] = r.values[Wrap(r.read + k - 1)]
  BY ContentsAt
<1>7. /\ Contents(q) \in Seq(SlotValue) /\ Len(Contents(q)) = q.size
      /\ \A k \in 1 .. q.size : Contents(q)[k] = r.values[Wrap(q.read + k - 1)]
  BY <1>1, ContentsAt
<1> HIDE DEF v
<1>8. CASE r.size < Capacity - 1
  <2> DEFINE t == Append(Contents(r), v)
  <2>1. q.size = r.size + 1 /\ q.read = r.read
    BY <1>1, <1>2, <1>3, <1>4, <1>8, CapacityAssumption DEF Wrap, Slots
  <2>2. t \in Seq(SlotValue) /\ Len(t) = r.size + 1
    BY <1>2, <1>6
  <2>3. ASSUME NEW k \in 1 .. r.size + 1 PROVE Contents(q)[k] = t[k]
    <3>1. CASE k = r.size + 1
      BY <1>2, <1>4, <1>6, <1>7, <2>1, <3>1, CapacityAssumption DEF v, Slots
    <3>2. CASE k # r.size + 1
      BY <1>2, <1>6, <1>7, <2>1, <3>2, CapacityAssumption
    <3> QED
      BY <3>1, <3>2
  <2>4. Contents(q) = t
    BY <1>7, <2>1, <2>2, <2>3, SameSeq
  <2> QED
    BY <1>5, <1>6, <1>8, <2>4
<1>9. CASE r.size = Capacity - 1
  <2> DEFINE t == Append(Tail(Contents(r)), v)
  <2>1. q.size = r.size /\ q.read = NextPos(r.read)
    BY <1>1, <1>2, <1>3, <1>4, <1>9, CapacityAssumption DEF Wrap, Slots
  <2>2. /\ Tail(Contents(r)) \in Seq(SlotValue)
        /\ Len(Tail(Contents(r))) = r.size - 1
        /\ \A k \in 1 .. r.size - 1 : Tail(Contents(r))[k] = Contents(r)[k + 1]
    BY <1>2, <1>6, <1>9, CapacityAssumption
  <2>3. t \in Seq(SlotValue) /\ Len(t) = r.size
    BY <1>2, <2>2, CapacityAssumption
  <2>4. ASSUME NEW k \in 1 .. r.size PROVE Contents(q)[k] = t[k]
    <3>1. CASE k = r.size
      <4>1. Wrap(q.read + k - 1) = r.write
        BY <1>2, <1>3, <1>4, <1>9, <2>1, <3>1, CapacityAssumption DEF Wrap, Slots
      <4>2. t[k] = v
        BY <1>2, <2>2, <3>1, CapacityAssumption
      <4> QED
        BY <1>7, <2>1, <4>1, <4>2 DEF v
    <3>2. CASE k # r.size
      <4>1. k \in 1 .. r.size - 1 /\ k + 1 \in 1 .. r.size
        BY <1>2, <3>2, CapacityAssumption
      <4>2. t[k] = Contents(r)[k + 1]
        BY <1>2, <2>2, <4>1, CapacityAssumption
      <4>3. Wrap(q.read + k - 1) = Wrap(r.read + (k + 1) - 1)
        BY <1>2, <1>3, <1>9, <2>1, <4>1, CapacityAssumption DEF Wrap, Slots
      <4> QED
        BY <1>6, <1>7, <2>1, <4>1, <4>2, <4>3
    <3> QED
      BY <3>1, <3>2
  <2>5. Contents(q) = t
    BY <1>7, <2>1, <2>3, <2>4, SameSeq
  <2> QED
    BY <1>5, <1>6, <1>9, <2>5
<1> QED
  BY <1>2, <1>8, <1>9, CapacityAssumption

\* Consuming the oldest value takes the head of the contents away.
LEMMA ConsumeRemovesHead ==
  ASSUME NEW r, NEW q, Regular(r), Regular(q), q = Consumed(r, 0), r.size > 0
  PROVE  Contents(r) # << >> /\ Contents(q) = Tail(Contents(r))
<1> DEFINE t == Tail(Contents(r))
<1>1. q.values = r.values /\ q.read = NextPos(r.read) /\ q.size = r.size - 1
  BY DEF Consumed, Regular
<1>2. r.read \in Slots /\ r.size \in 1 .. Capacity - 1
  BY CapacityAssumption DEF Regular
<1>3. NextPos(r.read) = IF r.read = Capacity - 1 THEN 0 ELSE r.read + 1
  BY <1>2, NextPosSlot
<1>4. /\ Contents(r) \in Seq(SlotValue) /\ Len(Contents(r)) = r.size
      /\ \A k \in 1 .. r.size : Contents(r)[k] = r.values[Wrap(r.read + k - 1)]
  BY ContentsAt
<1>5. /\ Contents(q) \in Seq(SlotValue) /\ Len(Contents(q)) = r.size - 1
      /\ \A k \in 1 .. r.size - 1 : Contents(q)[k] = r.values[Wrap(q.read + k - 1)]
  BY <1>1, ContentsAt
<1>6. Contents(r) # << >>
  BY <1>2, <1>4
<1>7. /\ t \in Seq(SlotValue) /\ Len(t) = r.size - 1
      /\ \A k \in 1 .. r.size - 1 : t[k] = Contents(r)[k + 1]
  BY <1>2, <1>4, <1>6, CapacityAssumption, HeadTailProperties
<1> HIDE DEF t
<1>8. ASSUME NEW k \in 1 .. r.size - 1 PROVE Contents(q)[k] = t[k]
  <2>1. Wrap(q.read + k - 1) = Wrap(r.read + (k + 1) - 1)
    BY <1>1, <1>2, <1>3, CapacityAssumption DEF Wrap, Slots
  <2>2. k + 1 \in 1 .. r.size
    BY <1>2, CapacityAssumption
  <2> QED
    BY <1>4, <1>5, <1>7, <2>1, <2>2
<1>9. Contents(q) = t
  BY <1>5, <1>7, <1>8, SameSeq
<1> QED
  BY <1>6, <1>9 DEF t

LEMMA EmptyContents ==
  ASSUME NEW r, Regular(r), r.size = 0
  PROVE  Contents(r) = << >>
BY ContentsAt

LEMMA FifoStep ==
  ASSUME HeadOnly, FifoInv, FifoInv', [Next]_rb
  PROVE  [Fifo!Next]_(Contents(rb))
<1> USE FifoInvRegular
<1>0. /\ rb.size \in 0 .. Capacity - 1
      /\ Contents(rb) \in Seq(SlotValue) /\ Len(Contents(rb)) = rb.size
  BY ContentsAt
<1>1. ASSUME NEW v \in Value, NewValue(v) PROVE Contents(rb)' = Contents(rb)
  BY <1>1, EditKeepsContents DEF NewValue
<1>2. ASSUME Commit PROVE Fifo!Next
  <2>1. rb.values[NewSlot(rb)] \in SlotValue
    BY ContentsAt DEF FifoInv, TypeOK
  <2>2. Fifo!Push(rb.values[NewSlot(rb)])
    BY <1>2, CommitPushes DEF Commit, Fifo!Push
  <2> QED
    BY <2>1, <2>2 DEF Fifo!Next
<1>3. ASSUME Consume(0) PROVE Fifo!Next
  <2>1. rb.size > 0 /\ rb' = Consumed(rb, 0)
    BY <1>3 DEF Consume
  <2>2. Fifo!Pop
    BY <2>1, ConsumeRemovesHead DEF Fifo!Pop
  <2> QED
    BY <2>2 DEF Fifo!Next
<1>4. ASSUME Clear PROVE Fifo!Next
  <2>1. rb'.size = 0
    BY <1>4 DEF Clear, Cleared, FifoInv, TypeOK
  <2>2. Fifo!Clear
    BY <2>1, EmptyContents DEF Fifo!Clear
  <2> QED
    BY <2>2 DEF Fifo!Next
<1>5. ASSUME UNCHANGED rb PROVE Contents(rb)' = Contents(rb)
  BY <1>5 DEF Contents, OldestValue, OldestSlot
<1> QED
  BY <1>1, <1>2, <1>3, <1>4, <1>5 DEF Next, HeadOnly

\* A ring buffer whose clients consume the oldest value only implements the
\* bounded queue: nothing is reordered, repeated or made up, and only a commit
\* to a full buffer loses a value, the oldest one.
THEOREM ImplementsFifo == ASSUME HeadOnly PROVE Spec => FifoSpec
<1>1. Init => Fifo!Init
  <2>1. Init => rb.size = 0
    BY DEF Init, NewRingBuffer, Cleared
  <2> QED
    BY <2>1, InitFifoInv, FifoInvRegular, EmptyContents DEF Fifo!Init
<1>2. FifoInv /\ FifoInv' /\ [Next]_rb => [Fifo!Next]_(Contents(rb))
  BY FifoStep
<1> QED
  BY <1>1, <1>2, InitFifoInv, NextFifoInv, PTL DEF Spec, FifoSpec, Fifo!Spec
=============================================================================
