----------------------------- MODULE MCPidAlloc -----------------------------
(***************************************************************************)
(* PidAlloc on small instances.                                            *)
(***************************************************************************)
EXTENDS PidAllocInv, TLC

(* Struct pids other than that of init, threads and readers are            *)
(* interchangeable.                                                        *)
Symmetric == Permutations(Pid \ {InitPid}) \cup Permutations(Thread)
               \cup Permutations(Reader)
=============================================================================
