----------------------------- MODULE RingBuffer -----------------------------
(***************************************************************************)
(* A RingBuffer object and a client that calls its operations in any       *)
(* order. The buffer is zero-copy: a client writes through the reference   *)
(* NewValue() returns, possibly several times, and makes the value visible *)
(* with Commit(). NewValue and Commit are separate actions here.           *)
(***************************************************************************)
EXTENDS RingBufferOps, Sequences

CONSTANTS Value,          \* what a client may write
          Uninitialized,  \* what a slot holds before its first write
          ConsumeAt       \* the indices clients pass to Consume()

ASSUME ConsumeAtAssumption == ConsumeAt \subseteq Nat
ASSUME UninitializedAssumption == Uninitialized \notin Value

VARIABLE rb

SlotValue == Value \cup {Uninitialized}

Init == rb = NewRingBuffer([s \in Slots |-> Uninitialized])

NewValue(v) == rb' = WithNewValue(rb, v)

Commit == rb' = Committed(rb)

Consume(i) ==
  /\ i < rb.size
  /\ rb' = Consumed(rb, i)

Clear == rb' = Cleared(rb)

Next ==
  \/ \E v \in Value : NewValue(v)
  \/ Commit
  \/ \E i \in ConsumeAt : Consume(i)
  \/ Clear

Spec == Init /\ [][Next]_rb

-----------------------------------------------------------------------------

TypeOK ==
  rb \in [values  : [Slots -> SlotValue],
          indices : [Slots -> Slots],
          read    : Slots,
          write   : Slots,
          size    : 0 .. Capacity - 1]

\* `size_` is kept next to the two positions and updated apart from them. This
\* says they always agree, so a buffer is neither empty with values in it nor
\* readable past the position reserved for writing, whatever index clients
\* consume at.
SizeMatchesPositions == rb.write = (rb.read + rb.size) % Capacity

\* "The value may be edited, but it won't be visible in OldestValue() or
\* Size() until Commit() is called" (ring_buffer.h:78): the slot NewValue()
\* hands out is none of the slots a reader can reach. The next line of that comment
\* says otherwise of a full buffer, that NewValue() returns the oldest value there: it does
\* not, one slot is always kept free, and the oldest value is dropped by Commit() only.
NewValueNotVisible == \A i \in 0 .. rb.size - 1 : OldestSlot(rb, i) # NewSlot(rb)

\* The buffer is a bounded first-in first-out queue that drops its oldest
\* value when a value is committed to a full one.
Fifo == INSTANCE BoundedFifo WITH
          Item <- SlotValue, Depth <- Capacity - 1, queue <- Contents(rb)

FifoSpec == Fifo!Spec
=============================================================================
