----------------------------- MODULE MCSpuSched -----------------------------
(* The instance of SpuSched for TLC: one node with two SPUs; a real-time   *)
(* context a and a normal one b that form a gang, a NOSCHED context n.     *)
EXTENDS SpuSched

CONSTANTS a, b, n, s1, s2, ab

OneNode == [m \in Node |-> <<s1, s2>>]
OneInfo == [c \in Ctx |-> {[prio |-> IF c = a THEN 0 ELSE 1, fifo |-> FALSE,
                            cpus |-> Node]}]
GangAB == [c \in Ctx |-> IF c \in {a, b} THEN ab ELSE NULL]
ListBA == [x \in Gang |-> <<b, a>>]
RefB == [x \in Gang |-> b]
=============================================================================
