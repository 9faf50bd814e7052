--------------------------- MODULE MCPidSkiplist ---------------------------
(***************************************************************************)
(* PidSkiplist on small instances.                                         *)
(***************************************************************************)
EXTENDS PidSkiplistInv, TLC

(* The calls of the readers: a number with others below and above it.      *)
LookupCalls == {<<"lookup", 2>>}
AllCalls    == {<<"lookup", 2>>, <<"find_ge", 2>>, <<"iter", 1>>}

(* Heap cells, readers and struct pid pointers are interchangeable.        *)
Symmetric == Permutations(Node) \cup Permutations(Reader) \cup Permutations(Pid)
=============================================================================
