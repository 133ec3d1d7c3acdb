-------------------------- MODULE MCActionExchange --------------------------
(* Instances of ActionExchange for TLC: the shapes bound in the .cfg files. *)
EXTENDS ActionExchange

All == <<"monitor", "create", "execute">>
CreateExecute == <<"create", "execute">>
MonitorOnly == <<"monitor">>
CreateOnly == <<"create">>

\* P2PPriority: kMedium, and kHigh for what moves the robot.
Urgent == [a \in Actions |-> IF a = "execute" THEN 1 ELSE 2]

NoRestart == [host |-> 1, robot |-> 1]
EitherRestarts == [host |-> 2, robot |-> 2]
=============================================================================
