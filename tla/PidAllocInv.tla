---------------------------- MODULE PidAllocInv ----------------------------
(***************************************************************************)
(* The inductive invariant of PidAlloc, from which its safety properties   *)
(* follow (PidAllocProofs).                                                *)
(***************************************************************************)
EXTENDS PidAlloc

(* The struct pids that pid_allocated of a namespace counts, and those     *)
(* that hold a reference to it.                                            *)
LiveAt(l) == {p \in Live : l <= level[p]}
Referring(l) == {p \in Pid : level[p] = l /\ HoldsNs(p)}

(* The places in alloc_pid() before the struct pid is published or freed.  *)
Reserving == {"reserve", "prepare", "publish", "out_free"}

(* What the locals of alloc_pid() and of its caller mean: the struct pid   *)
(* is the call's own, the numbers reserved so far are those above th[t].i, *)
(* and the forking task is alive, holds its nsproxy and does not zap.      *)
CallInv(t) ==
  /\ th[t].pc \in {"idle", "failed"} => th[t].pid = NULL
  /\ th[t].pc \in Reserving =>
       /\ th[t].pid \in Pid
       /\ state[th[t].pid] = "new"
       /\ level[th[t].pid] = th[t].ns
       /\ th[t].i <= th[t].ns
       /\ \A l \in Level :
            numbers[th[t].pid][l] # 0 <=> l \in th[t].i + 1 .. th[t].ns
  /\ th[t].pc = "reserve" => th[t].i >= 0
  /\ th[t].pc \in {"prepare", "publish"} => th[t].i = -1
  /\ th[t].pc = "copy_process" =>
       /\ th[t].pid \in Pid
       /\ state[th[t].pid] = "published"
       /\ level[th[t].pid] = th[t].ns

ThreadInv ==
  /\ \A t \in Thread : CallInv(t)
  /\ \A t, u \in Thread : t # u /\ th[t].pid # NULL => th[u].pid # th[t].pid

(* A struct pid has a number on each of its levels once it is published,   *)
(* and none when it is free.                                               *)
PidInv ==
  \A p \in Pid :
    /\ state[p] = "free" => numbers[p] = NoNumbers
    /\ p \in Live => \A l \in Level : numbers[p][l] # 0 <=> l <= level[p]

(* The tasks that are inside fork, and whose namespace cannot go.          *)
ForkInv ==
  \A t \in Thread :
    th[t].pc # "idle" =>
      /\ th[t].current \in Pid
      /\ state[th[t].current] = "attached"
      /\ th[t].current \notin init_tasks[level[th[t].current]]
      /\ nsproxy[th[t].ns]
      /\ child_reaper[th[t].ns] = NULL => level[th[t].current] = th[t].ns - 1

(* The init task keeps number 1 of init_pid_ns and never exits.            *)
BootInv ==
  /\ state[InitPid] = "attached" /\ level[InitPid] = 0
  /\ child_reaper[0] = InitPid
  /\ map[0][1] = InitPid
  /\ \A q \in Pid \ {InitPid} : numbers[q][0] # 1
  /\ zap[0] = "none" /\ nsproxy[0]

(* pid->count is the reference of alloc_pid() and those of the readers; a  *)
(* reader in its section keeps the struct pid from its delayed put.        *)
Holding(p) == {t \in Reader : rd[t].pc = "holds" /\ rd[t].pid = p}

RefInv ==
  /\ \A t \in Thread : th[t].pc = "publish" => count[th[t].pid] = 1
  /\ \A p \in Pid :
       /\ p \in Live \/ state[p] = "dead" => count[p] = Cardinality(Holding(p)) + 1
       /\ state[p] = "stale" => count[p] = Cardinality(Holding(p))
  /\ \A t \in Reader :
       /\ rd[t].pc # "idle" => rd[t].pid \in Pid
       /\ rd[t].pc = "holds" => state[rd[t].pid] \notin {"free", "new"}
       /\ rd[t].pc = "section" =>
            \/ rd[t].pid \in Live
            \/ state[rd[t].pid] = "dead" /\ t \in gp[rd[t].pid]

(* The index of a number that was given out once: a placeholder until the  *)
(* struct pid is published, then the struct pid.                           *)
IndexInv ==
  /\ \A p, q \in Pid : \A l \in Level :
       /\ p # q /\ numbers[p][l] # 0 /\ numbers[p][l] = numbers[q][l]
       /\ p \in Live \/ state[p] = "new"
       /\ q \in Live \/ state[q] = "new"
       => p \in shared /\ q \in shared
  /\ \A t \in Thread : \A l \in Level :
       /\ th[t].pc \in Reserving /\ th[t].pid \notin shared
       /\ l \in th[t].i + 1 .. th[t].ns
       => map[l][numbers[th[t].pid][l]] = NULL

(* A namespace outlives those below it.                                    *)
ChainInv == \A l \in Level : Exists(l) => \A m \in 0 .. l : Exists(m)

(* pid_allocated is the count, with or without the flag.                   *)
CountInv ==
  \A l \in Level :
    Exists(l) => \/ pid_allocated[l] = Cardinality(LiveAt(l))
                 \/ pid_allocated[l] = Cardinality(LiveAt(l)) + PIDNS_ADDING

(* The life of a namespace: no reaper yet, a reaper that is alive, a       *)
(* thread group that zaps it and is last to go.                            *)
ZapGroup(l) ==
  /\ init_tasks[l] \subseteq {p \in Pid : state[p] = "attached" /\ level[p] = l}
  /\ zap[l] = "none" => init_tasks[l] = {}
  /\ zap[l] \notin {"none", "done"} =>
       \E x \in init_tasks[l] : numbers[x][l] = 1 /\ init_tasks[l] = {x, child_reaper[l]}
  /\ zap[l] = "done" =>
       \/ init_tasks[l] = {}
       \/ \E x \in init_tasks[l] : numbers[x][l] = 1
            /\ (init_tasks[l] = {x, child_reaper[l]} \/ init_tasks[l] = {x})

ReaperLife(l) ==
  /\ child_reaper[l] = NULL => zap[l] = "none" /\ (Adding(l) \/ LiveAt(l) = {})
  /\ child_reaper[l] # NULL /\ zap[l] = "none" =>
       /\ Adding(l)
       /\ state[child_reaper[l]] = "attached"
       /\ level[child_reaper[l]] = l
       /\ numbers[child_reaper[l]][l] = 1
  /\ zap[l] # "none" => ~Adding(l)
  /\ zap[l] = "done" => LiveAt(l) = init_tasks[l]

ReaperInv == \A l \in Level : ZapGroup(l) /\ (Exists(l) => ReaperLife(l))

(* A namespace that never had a process starts from number 1, and has no   *)
(* namespace below it.                                                     *)
FirstInv ==
  \A l \in Level :
    Exists(l) /\ pid_allocated[l] = PIDNS_ADDING =>
      /\ (\A t \in Forking(l) : th[t].pc = "failed") => last_pid[l] = 0
      /\ \A m \in Level : m > l => ~Exists(m)

Inv ==
  /\ TypeOK /\ ThreadInv /\ PidInv /\ ForkInv /\ BootInv /\ RefInv
  /\ EntriesOwned /\ IndexInv /\ IndexedUnlessShared /\ KrefExact /\ ChainInv
  /\ CountInv /\ ReaperInv /\ FirstInv /\ NoLostWakeup
=============================================================================
