---------------------------- MODULE PidTasksInv ----------------------------
(***************************************************************************)
(* An inductive invariant of PidTasks.  TaskPart is about the tasks and    *)
(* the struct pids and is inductive by itself; NsPart, about the tree of   *)
(* namespaces, is inductive together with it.                              *)
(***************************************************************************)
EXTENDS PidTasks

TaskType ==
  [st : {"none", "live", "zombie"}, leader : Task \cup {NULL},
   thread_pid : Pid \cup {NULL}, pids : [SignalType -> Pid \cup {NULL}],
   kids : Ns \cup {NULL}]

StructPid ==
  [st : {"none", "new", "live", "dead", "unhashed"}, level : Depth,
   numbers : [Depth -> Ns \cup {NULL}], count : Int,
   tasks : [PidType -> SUBSET Task]]

NsType ==
  [st : {"none", "live", "destroyed"}, level : Depth,
   path : [Depth -> Ns \cup {NULL}], kref : Int, pid_allocated : Int,
   adding : BOOLEAN, first : Pid \cup {NULL}, child_reaper : BOOLEAN]

ForkType == [pid : Pid, kids : Ns, thread : BOOLEAN]

TypeInv ==
  /\ k \in [task : [Task -> TaskType], pid : [Pid -> StructPid],
            ns : [Ns -> NsType]]
  /\ fork \in [Task -> ForkType \cup {NULL}]
  /\ opening \in [Task -> Pid \cup {NULL}]
  /\ pidfd \subseteq Pid
  /\ nsfile \subseteq Ns
  /\ ucounts \in Int

-----------------------------------------------------------------------------
(* Tasks and struct pids.                                                  *)

(* An empty slot is as it was at boot; a task has a struct pid and a       *)
(* leader, which is a task as well and leads itself; its nsproxy goes when *)
(* it exits.                                                               *)
TaskInv(T) ==
  \A t \in Task :
    /\ T[t].st = "none" => T[t] = NoTask
    /\ T[t].st = "live" <=> T[t].kids \in Ns
    /\ T[t].st # "none" =>
         /\ T[t].thread_pid \in Pid
         /\ T[t].leader \in Task
         /\ LET l == T[T[t].leader] IN
            /\ l.st # "none"
            /\ l.leader = T[t].leader
            /\ \A ty \in SignalType : l.pids[ty] \in Pid

(* The lists are exact while lists and pointers of a task are changed one  *)
(* by one.                                                                 *)
LinksIn(s) ==
  \A p \in Pid :
    /\ \A ty \in PidType : s.pid[p].tasks[ty] = Attached(s, p, ty)
    /\ s.pid[p].st = "live" <=> ~Unused(s, p)

(* A struct pid is freed when nothing refers to it.                        *)
SlotInv(P) ==
  \A p \in Pid : /\ P[p].st = "none" => P[p] = NoPid
                 /\ P[p].st # "none" => P[p].count > 0

(* A fork in progress has a struct pid to itself, which is no task's yet.  *)
ForkIn(s, f) ==
  \A t \in Task : f[t] # NULL =>
    /\ s.task[t].st = "live"
    /\ s.pid[f[t].pid].st = "new"
    /\ \A u \in Task \ {t} : f[u] # NULL => f[u].pid # f[t].pid

TaskPart ==
  /\ TypeInv
  /\ TaskInv(k.task)
  /\ SlotInv(k.pid)
  /\ ForkIn(k, fork)
  /\ LinksExact
  /\ PidRefsExact

-----------------------------------------------------------------------------
(* Namespaces.                                                             *)

(* The ancestors of a namespace in use are in use, each on its level, and  *)
(* its chain continues theirs.                                             *)
PathInv(N) ==
  /\ N[InitNs].st = "live" /\ N[InitNs].level = 0
  /\ \A n \in Ns : N[n].st = "live" =>
       /\ N[n].path[N[n].level] = n
       /\ N[n].path[0] = InitNs
       /\ \A i \in 0 .. N[n].level :
            LET a == N[n].path[i] IN
            /\ a \in Ns
            /\ N[a].st = "live"
            /\ N[a].level = i
            /\ \A j \in 0 .. i : N[a].path[j] = N[n].path[j]

(* A struct pid has a number in its namespace and in each one above.       *)
NumberInv ==
  \A p \in Pid : k.pid[p].st # "none" =>
    LET n == ns_of_pid(p) IN
    /\ n \in Ns
    /\ k.ns[n].st = "live"
    /\ k.pid[p].level = k.ns[n].level
    /\ k.pid[p].numbers = k.ns[n].path

(* A thread is in the namespace of its leader, and a fork in progress is   *)
(* for a namespace the forking task may give its children.                 *)
ActiveInv ==
  /\ \A t \in Task : k.task[t].st # "none" =>
       task_active_pid_ns(t) = task_active_pid_ns(k.task[t].leader)
  /\ \A t \in Task : fork[t] # NULL =>
       /\ ns_of_pid(fork[t].pid) = fork[t].kids
       /\ fork[t].thread => fork[t].kids = task_active_pid_ns(t)

NsPart == PathInv(k.ns) /\ NumberInv /\ NsRefsExact /\ ActiveInv /\ NoEscape

Inv == TaskPart /\ NsPart
=============================================================================
