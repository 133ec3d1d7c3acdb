---------------------------- MODULE MCTimeSync ----------------------------
(* Instances of TimeSync. *)
EXTENDS TimeSync

\* The robot's clock is ahead, and drifts between two edges.
Drift == {2, 3}
=============================================================================
