------------------------------ MODULE PidTasks ------------------------------
(***************************************************************************)
(* Tasks, the struct pids they are attached to, and the tree of PID        *)
(* namespaces: the part of pid.c and pid_namespace.c that does not depend  *)
(* on the index of the numbers, and is the same in both variants.          *)
(*                                                                         *)
(* The callers in fork.c, exit.c, sys.c, exec.c and nsproxy.c are external *)
(* and are modelled as far as they use these operations.  What they do     *)
(* under the tasklist_lock is one step.  A number is abstracted to whether *)
(* it is 0; alloc_pid() and the shutdown of a namespace are in PidAlloc.   *)
(***************************************************************************)
EXTENDS Integers, FiniteSets

CONSTANTS
  Task, InitTask,       \* slots for struct task_struct
  Pid, InitPid,         \* slots for struct pid
  Ns, InitNs,           \* slots for struct pid_namespace
  MAX_PID_NS_LEVEL,
  MaxPidNamespaces,     \* the limit of UCOUNT_PID_NAMESPACES
  PidfdCaller,          \* Bound: the tasks that call pidfd_open()
  NULL

ASSUME SlotsAssumption ==
  /\ IsFiniteSet(Task) /\ IsFiniteSet(Pid) /\ IsFiniteSet(Ns)
  /\ InitTask \in Task /\ InitPid \in Pid /\ InitNs \in Ns
  /\ NULL \notin Task \cup Pid \cup Ns
  /\ NULL \notin [pid : Pid, kids : Ns, thread : BOOLEAN]
  /\ MAX_PID_NS_LEVEL \in Nat /\ MaxPidNamespaces \in Nat
  /\ PidfdCaller \subseteq Task

PidType    == {"PID", "TGID", "PGID", "SID"}
SignalType == PidType \ {"PID"}
Depth      == 0 .. MAX_PID_NS_LEVEL
Nowhere    == [i \in Depth |-> NULL]

VARIABLES
  k,            \* [task, pid, ns]: the objects in their slots, see Init
  fork,         \* copy_process() of a task: [pid, kids, thread], or NULL
  opening,      \* pidfd_open() of a task: the pid found, or NULL
  pidfd,        \* the pids an open pidfd refers to
  nsfile,       \* the namespaces an open file refers to
  ucounts       \* UCOUNT_PID_NAMESPACES in use

vars == <<k, fork, opening, pidfd, nsfile, ucounts>>

NoTask == [st |-> "none", leader |-> NULL, thread_pid |-> NULL,
           pids |-> [ty \in SignalType |-> NULL], kids |-> NULL]
NoPid == [st |-> "none", level |-> 0, numbers |-> Nowhere, count |-> 0,
          tasks |-> [ty \in PidType |-> {}]]
NoNs == [st |-> "none", level |-> 0, path |-> Nowhere, kref |-> 0,
         pid_allocated |-> 0, adding |-> FALSE, first |-> NULL,
         child_reaper |-> FALSE]

-----------------------------------------------------------------------------
(* Namespaces.  path has the chain of parents from init_pid_ns on level 0  *)
(* to the namespace itself on its level; a struct pid has it in            *)
(* numbers[].ns.  N is the function from slots to namespaces.              *)

parent(n) == k.ns[n].path[k.ns[n].level - 1]
ns_of(s, p) == s.pid[p].numbers[s.pid[p].level]
ns_of_pid(p) == ns_of(k, p)
task_active_pid_ns(t) == ns_of_pid(k.task[t].thread_pid)

\* The namespaces on a chain that ends on level l.
Chain(path, l) == {path[i] : i \in 0 .. l}

get_pid_ns(N, n) == IF n = InitNs THEN N ELSE [N EXCEPT ![n].kref = @ + 1]

\* The levels of the namespaces whose last reference goes with one of n.
LastRefs(N, n) ==
  {i \in 1 .. N[n].level : \A j \in i .. N[n].level : N[N[n].path[j]].kref = 1}

\* put_pid_ns(): the loop ends at the first one that is still referenced.
StopsAt(N, n) ==
  {i \in (1 .. N[n].level) \ LastRefs(N, n) :
     i = N[n].level \/ i + 1 \in LastRefs(N, n)}

put_pid_ns(N, n) ==
  [m \in Ns |->
     IF \E i \in LastRefs(N, n) : N[n].path[i] = m
     THEN [N[m] EXCEPT !.kref = 0, !.st = "destroyed"]
     ELSE IF \E i \in StopsAt(N, n) : N[n].path[i] = m
     THEN [N[m] EXCEPT !.kref = @ - 1]
     ELSE N[m]]

\* create_pid_namespace() in slot n; the first reference is the caller's.
create_pid_namespace(N, old, n) ==
  [get_pid_ns(N, old) EXCEPT
     ![n] = [NoNs EXCEPT !.st = "live", !.kref = 1, !.adding = TRUE,
                         !.level = N[old].level + 1,
                         !.path = [N[old].path EXCEPT ![N[old].level + 1] = n]]]

\* copy_pid_ns() with CLONE_NEWPID succeeds.
CanCreate(t, n) ==
  /\ k.ns[n].st = "none"
  /\ task_active_pid_ns(t) = k.task[t].kids
  /\ k.ns[k.task[t].kids].level + 1 <= MAX_PID_NS_LEVEL
  /\ ucounts < MaxPidNamespaces

delayed_free_pidns(n) ==
  /\ k.ns[n].st = "destroyed"
  /\ ucounts' = ucounts - 1
  /\ k' = [k EXCEPT !.ns[n] = NoNs]
  /\ UNCHANGED <<fork, opening, pidfd, nsfile>>

-----------------------------------------------------------------------------
(* struct pid.                                                             *)

put_pid(s, p) ==
  IF s.pid[p].count = 1
  THEN [s EXCEPT !.pid[p] = NoPid, !.ns = put_pid_ns(s.ns, ns_of(s, p))]
  ELSE [s EXCEPT !.pid[p].count = @ - 1]

\* alloc_pid() in namespace n; the first pid of n has number 1.
Counted(N, p, n) ==
  [m \in Ns |->
     IF m \notin Chain(N[n].path, N[n].level) THEN N[m]
     ELSE [N[m] EXCEPT !.pid_allocated = @ + 1,
             !.first = IF m = n /\ @ = NULL THEN p ELSE @]]

alloc_pid(s, p, n) ==
  [s EXCEPT
     !.pid[p] = [NoPid EXCEPT !.st = "new", !.level = s.ns[n].level,
                              !.numbers = s.ns[n].path, !.count = 1],
     !.ns = Counted(get_pid_ns(s.ns, n), p, n)]

\* free_pid(): a namespace whose first process was never forked is closed.
Uncounted(N, p, on) ==
  [m \in Ns |->
     IF m \notin on THEN N[m]
     ELSE [N[m] EXCEPT !.pid_allocated = @ - 1,
             !.first = IF @ = p THEN NULL ELSE @,
             !.adding = @ /\ N[m].pid_allocated # 1]]

free_pid(s, p) ==
  [s EXCEPT
     !.pid[p].st = "dead",
     !.ns = Uncounted(s.ns, p, Chain(s.pid[p].numbers, s.pid[p].level))]

delayed_put_pid(p) ==
  /\ k.pid[p].st = "dead"
  /\ k' = put_pid([k EXCEPT !.pid[p].st = "unhashed"], p)
  /\ UNCHANGED <<fork, opening, pidfd, nsfile, ucounts>>

\* pid_nr_ns() # 0: the pid has a number in n.
SeenIn(p, n) ==
  /\ k.ns[n].level <= k.pid[p].level
  /\ k.pid[p].numbers[k.ns[n].level] = n

-----------------------------------------------------------------------------
(* The lists of a struct pid.  task_pid_ptr() is thread_pid of the task or *)
(* pids[type] of its signal, which is kept with the group leader.          *)

task_pid_ptr(s, t, ty) ==
  IF ty = "PID" THEN s.task[t].thread_pid
  ELSE s.task[s.task[t].leader].pids[ty]

SetPtr(s, t, ty, p) ==
  IF ty = "PID" THEN [s EXCEPT !.task[t].thread_pid = p]
  ELSE [s EXCEPT !.task[s.task[t].leader].pids[ty] = p]

\* A struct pid with a task put on, or taken off, its list of a type.
Linked(r, t, ty)   == [r EXCEPT !.tasks[ty] = @ \cup {t}, !.st = "live"]
Unlinked(r, t, ty) == [r EXCEPT !.tasks[ty] = @ \ {t}]

attach_pid(s, t, ty) ==
  LET p == task_pid_ptr(s, t, ty)
  IN  [s EXCEPT !.pid[p] = Linked(s.pid[p], t, ty)]

\* Mutant: only one of the lists is looked at.
UnusedAsType(s, p) == s.pid[p].tasks["PID"] = {}

Unused(s, p) == \A ty \in PidType : s.pid[p].tasks[ty] = {}

__change_pid(s, t, ty, new) ==
  LET p == task_pid_ptr(s, t, ty)
      x == SetPtr([s EXCEPT !.pid[p] = Unlinked(s.pid[p], t, ty)], t, ty, new)
  IN  IF Unused(x, p) THEN free_pid(x, p) ELSE x

detach_pid(s, t, ty) == __change_pid(s, t, ty, NULL)

change_pid(s, t, ty, p) == attach_pid(__change_pid(s, t, ty, p), t, ty)

\* transfer_pid() of the types that are kept in the signal.
transfer_pid(s, old, new, ty) ==
  LET p == s.task[old].pids[ty]
  IN  [s EXCEPT !.pid[p] = Linked(Unlinked(s.pid[p], old, ty), new, ty)]

pid_task(p, ty) == k.pid[p].tasks[ty] # {}

-----------------------------------------------------------------------------
(* fork.c                                                                  *)

\* Bound: files are opened one at a time, except by pidns_get_parent().
NoFile == pidfd \cup nsfile = {}

Busy(t) == fork[t] # NULL \/ opening[t] # NULL
Runs(t) == k.task[t].st = "live" /\ ~Busy(t)
Group(t) == {c \in Task : k.task[c].leader = t}

\* copy_process() up to alloc_pid(), with the namespaces N.
Allocates(t, N, n, p, thread) ==
  /\ k.pid[p].st = "none"
  /\ N[n].adding
  /\ k' = alloc_pid([k EXCEPT !.ns = N], p, n)
  /\ fork' = [fork EXCEPT ![t] = [pid |-> p, kids |-> n, thread |-> thread]]
  /\ UNCHANGED <<opening, pidfd, nsfile>>

Fork(t, p) ==
  /\ Runs(t)
  /\ Allocates(t, get_pid_ns(k.ns, k.task[t].kids), k.task[t].kids, p, FALSE)
  /\ UNCHANGED ucounts

\* CLONE_THREAD is refused unless the child stays in the namespace.
ForkThread(t, p) ==
  /\ Runs(t)
  /\ task_active_pid_ns(t) = k.task[t].kids
  /\ Allocates(t, get_pid_ns(k.ns, k.task[t].kids), k.task[t].kids, p, TRUE)
  /\ UNCHANGED ucounts

ForkNewPid(t, p, n) ==
  /\ Runs(t)
  /\ CanCreate(t, n)
  /\ Allocates(t, create_pid_namespace(k.ns, k.task[t].kids, n), n, p, FALSE)
  /\ ucounts' = ucounts + 1

ForkAttach(t, c) ==
  LET f == fork[t]
      new == [st |-> "live", thread_pid |-> f.pid, kids |-> f.kids,
              leader |-> IF f.thread THEN k.task[t].leader ELSE c,
              pids |-> IF f.thread THEN NoTask.pids
                       ELSE [ty \in SignalType |->
                               IF ty = "TGID" THEN f.pid
                               ELSE task_pid_ptr(k, t, ty)]]
      n == ns_of_pid(f.pid)
      s == attach_pid([k EXCEPT !.task[c] = new,
                         !.ns[n].child_reaper = @ \/ k.ns[n].first = f.pid],
                      c, "PID")
  IN  /\ f # NULL
      /\ k.task[c].st = "none"
      /\ k.ns[n].adding
      /\ k' = IF f.thread THEN s
              ELSE attach_pid(attach_pid(attach_pid(s, c, "TGID"),
                                         c, "PGID"), c, "SID")
      /\ fork' = [fork EXCEPT ![t] = NULL]
      /\ UNCHANGED <<opening, pidfd, nsfile, ucounts>>

ForkFails(t) ==
  /\ fork[t] # NULL
  /\ LET s == free_pid(k, fork[t].pid)
     IN  k' = [s EXCEPT !.ns = put_pid_ns(s.ns, fork[t].kids)]
  /\ fork' = [fork EXCEPT ![t] = NULL]
  /\ UNCHANGED <<opening, pidfd, nsfile, ucounts>>

-----------------------------------------------------------------------------
(* exit.c and exec.c                                                       *)

\* The last thread of the group of a reaper shuts its namespace down.
Exit(t) ==
  LET N == put_pid_ns(k.ns, k.task[t].kids)
      ends == \A c \in Group(k.task[t].leader) \ {t} : k.task[c].st # "live"
      tgid == task_pid_ptr(k, t, "TGID")
      n == ns_of_pid(tgid)
  IN  /\ Runs(t)
      /\ t # InitTask
      /\ k' = [k EXCEPT !.task[t].st = "zombie", !.task[t].kids = NULL,
                        !.ns = IF ends /\ k.ns[n].first = tgid
                               THEN [N EXCEPT ![n].adding = FALSE] ELSE N]
      /\ UNCHANGED <<fork, opening, pidfd, nsfile, ucounts>>

\* release_task(): a thread that is not the leader is reaped at once or by
\* de_thread(), the leader once it is alone and, if it is the reaper of its
\* namespace, once no other number is in use there.
Release(t) ==
  LET r == k.task[t]
      s == detach_pid(k, t, "PID")
      n == task_active_pid_ns(t)
      all == detach_pid(detach_pid(detach_pid(s, t, "TGID"), t, "PGID"),
                        t, "SID")
  IN  /\ r.st = "zombie"
      /\ r.leader = t => /\ Group(t) = {t}
                         /\ \/ k.ns[n].first # r.thread_pid
                            \/ k.ns[n].pid_allocated = 1
      /\ k' = [(IF r.leader = t THEN all ELSE s) EXCEPT !.task[t] = NoTask]
      /\ UNCHANGED <<fork, opening, pidfd, nsfile, ucounts>>

\* The signal is kept with t instead of old.
Leads(T, t, old) ==
  [T EXCEPT ![t]   = [T[t] EXCEPT !.leader = t, !.pids = T[old].pids],
            ![old] = [T[old] EXCEPT !.leader = t, !.pids = NoTask.pids]]

\* execve() by a thread t takes over the identity of the dead leader.
de_thread(t) ==
  LET old == k.task[t].leader
      s == change_pid(k, t, "PID", k.task[old].thread_pid)
      x == transfer_pid(transfer_pid(transfer_pid(s, old, t, "TGID"),
                                     old, t, "PGID"), old, t, "SID")
  IN  /\ Runs(t)
      /\ old # t
      /\ k.task[old].st = "zombie"
      /\ Group(old) = {old, t}
      /\ k' = [x EXCEPT !.task = Leads(x.task, t, old)]
      /\ UNCHANGED <<fork, opening, pidfd, nsfile, ucounts>>

-----------------------------------------------------------------------------
(* sys.c                                                                   *)

ChangeIfOther(s, t, ty, p) ==
  IF task_pid_ptr(s, t, ty) = p THEN s ELSE change_pid(s, t, ty, p)

setsid(t) ==
  LET l == k.task[t].leader
      sid == k.task[l].thread_pid
  IN  /\ Runs(t)
      /\ ~pid_task(sid, "PGID")
      /\ k' = ChangeIfOther(ChangeIfOther(k, l, "SID", sid), l, "PGID", sid)
      /\ UNCHANGED <<fork, opening, pidfd, nsfile, ucounts>>

setpgid(t, p) ==
  LET l == k.task[t].leader
  IN  /\ Runs(t)
      /\ k.task[l].pids["SID"] # k.task[l].thread_pid
      /\ \/ p = k.task[l].thread_pid
         \/ \E c \in k.pid[p].tasks["PGID"] :
              k.task[c].pids["SID"] = k.task[l].pids["SID"]
      /\ k.task[l].pids["PGID"] # p
      /\ k' = change_pid(k, l, "PGID", p)
      /\ UNCHANGED <<fork, opening, pidfd, nsfile, ucounts>>

-----------------------------------------------------------------------------
(* pidfd_open(): the pid is looked up, and checked later.                  *)

find_get_pid(t, p) ==
  /\ t \in PidfdCaller /\ NoFile
  /\ Runs(t)
  /\ k.pid[p].st \in {"new", "live"}
  /\ SeenIn(p, task_active_pid_ns(t))
  /\ k' = [k EXCEPT !.pid[p].count = @ + 1]
  /\ opening' = [opening EXCEPT ![t] = p]
  /\ UNCHANGED <<fork, pidfd, nsfile, ucounts>>

\* Mutant: nothing is put when the pid turns out not to be a process.
OpenKeeps(t) ==
  LET p == opening[t]
  IN  /\ p # NULL
      /\ \/ /\ pid_task(p, "TGID")
            /\ NoFile
            /\ pidfd' = {p}
            /\ k' = put_pid([k EXCEPT !.pid[p].count = @ + 1], p)
         \/ UNCHANGED <<k, pidfd>>
      /\ opening' = [opening EXCEPT ![t] = NULL]
      /\ UNCHANGED <<fork, nsfile, ucounts>>

\* pidfd_create() takes a reference of its own; it may fail, and the one of
\* find_get_pid() is put on all paths.
pidfd_open(t) ==
  LET p == opening[t]
  IN  /\ p # NULL
      /\ \/ /\ pid_task(p, "TGID")
            /\ NoFile
            /\ pidfd' = {p}
            /\ k' = put_pid([k EXCEPT !.pid[p].count = @ + 1], p)
         \/ /\ k' = put_pid(k, p)
            /\ UNCHANGED pidfd
      /\ opening' = [opening EXCEPT ![t] = NULL]
      /\ UNCHANGED <<fork, nsfile, ucounts>>

pidfd_close(p) ==
  /\ p \in pidfd
  /\ pidfd' = pidfd \ {p}
  /\ k' = put_pid(k, p)
  /\ UNCHANGED <<fork, opening, nsfile, ucounts>>

-----------------------------------------------------------------------------
(* Namespace files and nsproxy.c.                                          *)

Opens(n) ==
  /\ n \notin nsfile
  /\ nsfile' = nsfile \cup {n}
  /\ k' = [k EXCEPT !.ns = get_pid_ns(k.ns, n)]
  /\ UNCHANGED <<fork, opening, pidfd, ucounts>>

pidns_get(t) ==
  /\ NoFile
  /\ k.task[t].st # "none"
  /\ Opens(task_active_pid_ns(t))

pidns_for_children_get(t) ==
  LET n == k.task[t].kids
  IN  /\ NoFile
      /\ n # NULL
      /\ k.ns[n].child_reaper
      /\ Opens(n)

pidns_get_parent(t, n) ==
  /\ Runs(t)
  /\ n \in nsfile \ {InitNs}
  /\ task_active_pid_ns(t) \in Chain(k.ns[parent(n)].path, k.ns[parent(n)].level)
  /\ Opens(parent(n))

pidns_put(n) ==
  /\ n \in nsfile
  /\ nsfile' = nsfile \ {n}
  /\ k' = [k EXCEPT !.ns = put_pid_ns(k.ns, n)]
  /\ UNCHANGED <<fork, opening, pidfd, ucounts>>

\* Mutant: a namespace deep enough will do, wherever it is in the tree.
EntersByLevel(t, n) == k.ns[n].level >= k.ns[task_active_pid_ns(t)].level

\* pidns_install() lets a task enter its namespace or one below it.
Enters(t, n) ==
  LET active == task_active_pid_ns(t)
  IN  /\ k.ns[n].level >= k.ns[active].level
      /\ k.ns[n].path[k.ns[active].level] = active

\* Mutant: the namespace that is left is not put.
InstallKeeps(t, n) ==
  /\ Runs(t)
  /\ n \in nsfile
  /\ Enters(t, n)
  /\ k' = [k EXCEPT !.task[t].kids = n, !.ns = get_pid_ns(k.ns, n)]
  /\ UNCHANGED <<fork, opening, pidfd, nsfile, ucounts>>

pidns_install(t, n) ==
  /\ Runs(t)
  /\ n \in nsfile
  /\ Enters(t, n)
  /\ k' = [k EXCEPT !.task[t].kids = n,
                    !.ns = get_pid_ns(put_pid_ns(k.ns, k.task[t].kids), n)]
  /\ UNCHANGED <<fork, opening, pidfd, nsfile, ucounts>>

\* unshare(CLONE_NEWPID)
unshare(t, n) ==
  /\ Runs(t)
  /\ CanCreate(t, n)
  /\ k' = [k EXCEPT !.task[t].kids = n,
                    !.ns = put_pid_ns(
                             create_pid_namespace(k.ns, k.task[t].kids, n),
                             k.task[t].kids)]
  /\ ucounts' = ucounts + 1
  /\ UNCHANGED <<fork, opening, pidfd, nsfile>>

-----------------------------------------------------------------------------
Init ==
  /\ k = [task |-> [t \in Task |-> IF t # InitTask THEN NoTask
             ELSE [st |-> "live", leader |-> t, thread_pid |-> InitPid,
                   pids |-> [ty \in SignalType |-> InitPid],
                   kids |-> InitNs]],
          pid |-> [p \in Pid |-> IF p # InitPid THEN NoPid
             ELSE [NoPid EXCEPT !.st = "live", !.numbers[0] = InitNs, !.count = 1,
                     !.tasks = [ty \in PidType |-> {InitTask}]]],
          ns |-> [n \in Ns |-> IF n # InitNs THEN NoNs
             ELSE [NoNs EXCEPT !.st = "live", !.path[0] = n, !.adding = TRUE,
                     !.pid_allocated = 1, !.first = InitPid,
                     !.child_reaper = TRUE]]]
  /\ fork = [t \in Task |-> NULL]
  /\ opening = [t \in Task |-> NULL]
  /\ pidfd = {}
  /\ nsfile = {}
  /\ ucounts = 0

Next ==
  \/ \E t \in Task :
       \/ ForkFails(t) \/ Exit(t) \/ Release(t) \/ de_thread(t) \/ setsid(t)
       \/ pidfd_open(t) \/ pidns_get(t) \/ pidns_for_children_get(t)
       \/ \E c \in Task : ForkAttach(t, c)
       \/ \E p \in Pid : \/ Fork(t, p) \/ ForkThread(t, p)
                         \/ setpgid(t, p) \/ find_get_pid(t, p)
                         \/ \E n \in Ns : ForkNewPid(t, p, n)
       \/ \E n \in Ns : \/ pidns_get_parent(t, n) \/ pidns_install(t, n)
                        \/ unshare(t, n)
  \/ \E p \in Pid : delayed_put_pid(p) \/ pidfd_close(p)
  \/ \E n \in Ns : pidns_put(n) \/ delayed_free_pidns(n)

Spec == Init /\ [][Next]_vars

-----------------------------------------------------------------------------
(* Properties.                                                             *)

Attached(s, p, ty) ==
  {t \in Task : /\ s.task[t].st # "none"
                /\ ty # "PID" => s.task[t].leader = t
                /\ task_pid_ptr(s, t, ty) = p}

\* A list of a struct pid has exactly the tasks that point to it; the last
\* one to leave frees the pid, and no earlier one does.
LinksExact ==
  \A p \in Pid :
    /\ \A ty \in PidType : k.pid[p].tasks[ty] = Attached(k, p, ty)
    /\ k.pid[p].st = "live" <=> ~Unused(k, p)

HoldsNs(n) ==
  Cardinality({p \in Pid : k.pid[p].st # "none" /\ ns_of_pid(p) = n})
  + Cardinality({t \in Task : k.task[t].kids = n})
  + Cardinality({t \in Task : fork[t] # NULL /\ fork[t].kids = n})
  + Cardinality({n} \cap nsfile)
  + Cardinality({m \in Ns : k.ns[m].st = "live" /\ m # InitNs /\ parent(m) = n})

\* kref of a namespace counts the pids, nsproxies, files and child
\* namespaces that refer to it, it is destroyed with the last of them, and
\* ucounts has the namespaces that exist or wait for a grace period.
NsRefsExact ==
  /\ \A n \in Ns \ {InitNs} :
       /\ k.ns[n].kref = HoldsNs(n)
       /\ k.ns[n].st = "live" <=> k.ns[n].kref > 0
  /\ ucounts = Cardinality({n \in Ns \ {InitNs} : k.ns[n].st # "none"})
  /\ ucounts <= MaxPidNamespaces

\* pid->count is one until the grace period after the last task has left has
\* passed, and one more for each pidfd and each pidfd_open() under way.
PidRefsExact ==
  \A p \in Pid :
    k.pid[p].count = (IF k.pid[p].st \in {"new", "live", "dead"} THEN 1 ELSE 0)
                     + Cardinality({p} \cap pidfd)
                     + Cardinality({t \in Task : opening[t] = p})

\* pidns_install(): "required for fork to return a usable pid value", and
\* "processes and their children can not escape their current pid
\* namespace".
NoEscape ==
  \A t \in Task : k.task[t].st = "live" =>
    /\ LET n == k.task[t].kids
       IN  task_active_pid_ns(t) \in Chain(k.ns[n].path, k.ns[n].level)
    /\ fork[t] # NULL => SeenIn(fork[t].pid, task_active_pid_ns(t))
=============================================================================
