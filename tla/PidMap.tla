------------------------------- MODULE PidMap -------------------------------
(***************************************************************************)
(* What the PID index of a namespace promises its callers: a map from PID  *)
(* numbers to struct pid pointers.  A number is absent, reserved (present  *)
(* with a NULL pointer, the placeholder alloc_pid() inserts) or bound to a *)
(* struct pid.  Every operation of the index takes effect at one instant.  *)
(* The IDR of the unmodified kernel keeps this promise; PidSkiplist is     *)
(* shown to implement it.                                                  *)
(***************************************************************************)

CONSTANTS Key,     \* PID numbers
          Pid,     \* struct pid pointers
          NULL,    \* the null pointer
          ABSENT   \* "no entry", distinct from an entry holding NULL

VARIABLE map

Value == Pid \cup {NULL}

TypeOK == map \in [Key -> Value \cup {ABSENT}]

Init == map = [k \in Key |-> ABSENT]

(* Insert a number, or replace the pointer of a number that is present.    *)
Insert(k, p) == map' = [map EXCEPT ![k] = p]

Remove(k) == /\ map[k] # ABSENT
             /\ map' = [map EXCEPT ![k] = ABSENT]

Next == \/ \E k \in Key, p \in Value : Insert(k, p)
        \/ \E k \in Key : Remove(k)

Spec == Init /\ [][Next]_map
=============================================================================
