---------------------------- MODULE BoundedFifo ----------------------------
(***************************************************************************)
(* What a RingBuffer promises to a client that consumes the oldest value   *)
(* only: a queue of at most Depth items, taken in the order they were put. *)
(* Pushing to a full queue drops the oldest item.                          *)
(***************************************************************************)
EXTENDS Naturals, Sequences

CONSTANTS Item, Depth

VARIABLE queue

Init == queue = << >>

Push(v) ==
  queue' = IF Len(queue) < Depth THEN Append(queue, v) ELSE Append(Tail(queue), v)

Pop ==
  /\ queue # << >>
  /\ queue' = Tail(queue)

Clear == queue' = << >>

Next ==
  \/ \E v \in Item : Push(v)
  \/ Pop
  \/ Clear

Spec == Init /\ [][Next]_queue
============================================================================
