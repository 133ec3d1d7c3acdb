---------------------------- MODULE MCRobotClock ----------------------------
(* An instance of RobotClock. *)
EXTENDS RobotClock

\* The left wheel changes its direction.
LeftTurns == [w \in Wheels |-> IF w = "left" THEN BOOLEAN ELSE {FALSE}]
=============================================================================
