--------------------------- MODULE MCPacketStream ---------------------------
(***************************************************************************)
(* Instances of PacketStream for TLC. "robot" is the Arduino end, "host"   *)
(* the Linux one. The shapes below are bound in the .cfg files.            *)
(***************************************************************************)
EXTENDS PacketStream

CONSTANTS robot, host

Msg(from, p, reliable, total) ==
  [from |-> from, p |-> p, requires_ack |-> reliable, total |-> total]

\* The host sends reliable packets of one unit.
HostReliable == {Msg(host, 2, TRUE, 1)}
\* Longer packets and urgent ones that break them off.
Preempted == {Msg(host, 2, TRUE, 2), Msg(host, 1, FALSE, 1)}
RobotPreempted == {Msg(robot, 2, TRUE, 1), Msg(robot, 1, FALSE, 1)}

Roomy == [e \in Ends |-> 4]
Small == [e \in Ends |-> IF e = robot THEN 2 ELSE 4]

NoRestart == [e \in Ends |-> 1]
HostRestarts == [e \in Ends |-> IF e = host THEN 2 ELSE 1]
BothRestart == [e \in Ends |-> 2]
=============================================================================
