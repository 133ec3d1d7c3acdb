-------------------------- MODULE ReliableChannel --------------------------
(***************************************************************************)
(* What P2PPacketStream promises a program that sends packets with         *)
(* guaranteed delivery while no end restarts: on every channel (a sender   *)
(* and a priority) the packets arrive exactly once and in the order they   *)
(* were committed, and the receiver takes them in that order.              *)
(***************************************************************************)
EXTENDS Sequences

CONSTANTS Channel, Message

VARIABLES
  pending,   \* committed, not yet in the receiver's input buffer
  arrived    \* in the receiver's input buffer, not yet consumed

Init ==
  /\ pending = [c \in Channel |-> << >>]
  /\ arrived = [c \in Channel |-> << >>]

Send(c) ==
  /\ \E m \in Message : pending' = [pending EXCEPT ![c] = Append(@, m)]
  /\ UNCHANGED arrived

Arrive(c) ==
  /\ pending[c] # << >>
  /\ arrived' = [arrived EXCEPT ![c] = Append(@, Head(pending[c]))]
  /\ pending' = [pending EXCEPT ![c] = Tail(@)]

Take(c) ==
  /\ arrived[c] # << >>
  /\ arrived' = [arrived EXCEPT ![c] = Tail(@)]
  /\ UNCHANGED pending

Next == \E c \in Channel : Send(c) \/ Arrive(c) \/ Take(c)

Spec == Init /\ [][Next]_<<pending, arrived>>
=============================================================================
