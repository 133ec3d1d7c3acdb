--------------------------- MODULE RingBufferOps ---------------------------
(***************************************************************************)
(* The operations of RingBuffer<ValueType, kCapacity> (common/             *)
(* ring_buffer.h) as operators on a record that holds the object's fields: *)
(*                                                                         *)
(*   values   the kCapacity slots the values live in                       *)
(*   indices  logical position -> slot; only an indexed Consume changes it *)
(*   read     logical position of the oldest value                         *)
(*   write    logical position reserved for the next value                 *)
(*   size     number of values a reader can see                            *)
(*                                                                         *)
(* One position is always reserved for writing, so a buffer of Capacity    *)
(* slots holds at most Capacity - 1 values.                                *)
(***************************************************************************)
EXTENDS Integers

CONSTANT Capacity

\* static_assert(kCapacity > 1)
ASSUME CapacityAssumption == Capacity \in Nat /\ Capacity > 1

Slots == 0 .. Capacity - 1

\* The mathematical index modulo of common/utils.cpp. For a negative multiple
\* of n it answers n itself, which is outside 0 .. n - 1.
IndexMod(index, n) ==
  IF index >= 0 THEN index % n ELSE n - ((-index) % n)

\* Positions advance modulo the capacity.
NextPos(pos) == (pos + 1) % Capacity

Cleared(rb) ==
  [rb EXCEPT !.read = 0, !.write = 0, !.size = 0,
             !.indices = [k \in Slots |-> k]]

\* A constructed buffer: its slots hold whatever `initial` holds.
NewRingBuffer(initial) ==
  Cleared([values |-> initial, indices |-> [k \in Slots |-> k],
           read |-> 0, write |-> 0, size |-> 0])

IsFull(rb) == rb.size >= Capacity - 1

\* The slot of the i-th oldest value; OldestValue(i) is NULL unless i < size.
OldestSlot(rb, i) == rb.indices[(rb.read + i) % Capacity]
OldestValue(rb, i) == rb.values[OldestSlot(rb, i)]

\* The slot NewValue() hands out, full or not.
NewSlot(rb) == rb.indices[rb.write]

\* Writing through the reference NewValue() returned.
WithNewValue(rb, v) == [rb EXCEPT !.values[NewSlot(rb)] = v]

\* Fault: the reader is not moved on when the writer catches up with it.
CommittedNoReclaim(rb) ==
  [rb EXCEPT !.write = NextPos(@),
             !.size  = IF @ < Capacity - 1 THEN @ + 1 ELSE @]

\* Fault: the reserved slot is counted as a readable one.
CommittedOneTooMany(rb) ==
  LET w == NextPos(rb.write) IN
  [rb EXCEPT !.write = w,
             !.size  = IF @ < Capacity THEN @ + 1 ELSE @,
             !.read  = IF w = @ THEN NextPos(@) ELSE @]

\* Commit(): on a full buffer the size stays and the oldest value gives way.
Committed(rb) ==
  LET w == NextPos(rb.write) IN
  [rb EXCEPT !.write = w,
             !.size  = IF @ < Capacity - 1 THEN @ + 1 ELSE @,
             !.read  = IF w = @ THEN NextPos(@) ELSE @]

\* Fault: the position leaves the readable range but the count does not.
ConsumedUncounted(rb, i) == [rb EXCEPT !.read = NextPos(@)]

\* Fault: the newest value goes instead of the oldest.
ConsumedNewest(rb, i) ==
  [rb EXCEPT !.write = IndexMod(@ - 1, Capacity), !.size = @ - 1]

\* Consume(i): the indices at positions read .. read + i - 1 move one position
\* to the right, over the index of the discarded value, and the position they
\* leave behind keeps its old index. i < size.
Consumed(rb, i) ==
  LET moved == {(rb.read + k) % Capacity : k \in 1 .. i} IN
  [rb EXCEPT !.indices = [j \in Slots |->
                            IF j \in moved
                            THEN rb.indices[IndexMod(j - 1, Capacity)]
                            ELSE rb.indices[j]],
             !.read = NextPos(@),
             !.size = @ - 1]

\* The readable values, oldest first.
Contents(rb) == [k \in 1 .. rb.size |-> OldestValue(rb, k - 1)]
============================================================================
