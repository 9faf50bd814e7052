----------------------------- MODULE MCPidTasks -----------------------------
(* Instances of PidTasks for TLC. *)
EXTENDS PidTasks, TLC

Symmetric == Permutations(Task \ {InitTask}) \cup Permutations(Pid \ {InitPid})
             \cup Permutations(Ns \ {InitNs})
=============================================================================
