---------------------------- MODULE MCRbSkiplist ----------------------------
(***************************************************************************)
(* RbSkiplist on small instances.                                          *)
(***************************************************************************)
EXTENDS RbSkiplist, TLC

(* The calls of the readers: a number with another one below it, and an    *)
(* iteration over both.                                                    *)
NoCalls  == {}
AllCalls == {<<"lookup", 2>>, <<"find_ge", 2>>, <<"iter", 1>>}

(* Which interleavings the run drops, none of which a reader can tell: a   *)
(* cell no grace period protects is freed, and a reader that has its       *)
(* answer leaves, before anything else happens.                            *)
FreedAtOnce ==
  w.pc \notin {"sync", "free", "down"} /\ (\E n \in dying : gp[n] = {}) =>
    dying' # dying /\ dying' \subseteq dying
LeavesAtOnce == \A t \in Reader : r[t].pc = "done" => r'[t].pc = "idle"
Prompt == FreedAtOnce /\ LeavesAtOnce

(* What the run leaves out: readers while a publication was lost; number 1 *)
(* shared by two calls; and with number 2 shared, readers that start       *)
(* before a node for it is linked.                                         *)
Explored ==
  /\ lost # {} => Active = {}
  /\ shared \subseteq {2}
  /\ shared = {} \/ Active = {} \/ Spoiled # {} \/ w.pc = "link"

(* Heap cells, struct pids and readers are interchangeable.                *)
Symmetric == Permutations(Node) \cup Permutations(Pid) \cup Permutations(Reader)
=============================================================================
