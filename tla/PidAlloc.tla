------------------------------ MODULE PidAlloc ------------------------------
(***************************************************************************)
(* The life of struct pid and of PID namespaces: alloc_pid(), free_pid(),  *)
(* put_pid(), find_get_pid() (skiplist/pid.c) and create_pid_namespace(),  *)
(* put_pid_ns(), zap_pid_ns_processes() (skiplist/pid_namespace.c).        *)
(*                                                                         *)
(* Every section of alloc_pid() under pidmap_lock is one action, and the   *)
(* sections of several callers interleave.  The PID index of a namespace   *)
(* is the atomic map of PidMap, which PidSkiplist implements: a number is  *)
(* ABSENT, reserved (NULL, the placeholder) or bound to a struct pid.      *)
(* Namespaces form one chain and are named by their level; level 0 is      *)
(* init_pid_ns, which is never freed.                                      *)
(***************************************************************************)
EXTENDS Integers, FiniteSets

CONSTANTS
  DEPTH,           \* the deepest level (MAX_PID_NS_LEVEL)
  PID_MAX,         \* pid_max: numbers are below it
  PIDNS_ADDING,    \* the flag bit in pid_allocated
  Pid,             \* struct pid objects
  InitPid,         \* the struct pid of the init task
  Thread,          \* tasks calling fork
  Reader,          \* tasks looking numbers up
  NoMemory,        \* whether GFP_ATOMIC allocations may fail
  LastPidWrites,   \* the values written to ns_last_pid
  NULL, ABSENT

Level == 0 .. DEPTH
Nr    == 1 .. PID_MAX - 1

ASSUME SizeAssumption ==
  /\ DEPTH \in Nat
  /\ PID_MAX \in Nat /\ PID_MAX > 2
  /\ LastPidWrites \subseteq 0 .. PID_MAX
  /\ NoMemory \in BOOLEAN

ASSUME PidAssumption ==
  /\ IsFiniteSet(Pid) /\ InitPid \in Pid /\ IsFiniteSet(Reader)
  /\ NULL \notin Pid /\ ABSENT \notin Pid \cup {NULL}

(* BUILD_BUG_ON(PID_MAX_LIMIT >= PIDNS_ADDING), and the two counts that    *)
(* free_pid() treats specially are not the flag.                           *)
ASSUME AddingAssumption ==
  PIDNS_ADDING \in Nat /\ PIDNS_ADDING > Cardinality(Pid) + 2

VARIABLES
  map,            \* level -> ns->pid_sl, as a map from numbers
  last_pid,       \* level -> ns->last_pid
  pid_allocated,  \* level -> ns->pid_allocated
  kref,           \* level -> ns->kref; 0 when there is no such namespace
  child_reaper,   \* level -> the struct pid of ns->child_reaper
  proc_mnt,       \* level -> whether /proc is mounted, which holds the ns
  proc_work,      \* level -> whether ns->proc_work is queued
  nsproxy,        \* level -> whether forking tasks still point to the ns
  zap,            \* level -> where zap_pid_ns_processes() is
  init_tasks,     \* level -> the struct pids of the zapping thread group
  awake,          \* level -> whether the zapping task is runnable
  state,          \* pid -> where the struct pid is in its life
  level,          \* pid -> pid->level
  numbers,        \* pid -> pid->numbers
  count,          \* pid -> pid->count
  gp,             \* pid -> the readers the grace period of pid->rcu awaits
  killed,         \* the tasks SIGKILL was sent to
  th,             \* thread -> its place in alloc_pid() and its locals
  rd,             \* reader -> its place in find_get_pid() and its pid
  shared,         \* history: the struct pids given a number another one had
  missed          \* history: the levels whose zap left a task unsignalled

nsVars  == <<last_pid, kref, nsproxy>>
zapVars == <<zap, init_tasks, missed>>
refVars == <<count, gp, rd>>
vars == <<map, last_pid, pid_allocated, kref, child_reaper, proc_mnt,
          proc_work, nsproxy, zap, init_tasks, awake, state, level, numbers,
          count, gp, killed, th, rd, shared, missed>>

NoNumbers == [l \in Level |-> 0]
NoEntries == [n \in Nr |-> ABSENT]
IdleThread == [pc |-> "idle", current |-> NULL, ns |-> 0, i |-> 0,
               pid |-> NULL, retval |-> 0]
IdleReader == [pc |-> "idle", pid |-> NULL]

Exists(l) == l = 0 \/ kref[l] > 0
Forking(l) == {t \in Thread : th[t].pc # "idle" /\ th[t].ns = l}

(* The tasks that can make a system call: they are neither inside fork     *)
(* nor exiting as the init of a namespace.  The init task also stands for  *)
(* the other tasks of level 0 that never exit, so it may be in fork twice. *)
Runnable(p) ==
  /\ state[p] = "attached" /\ p \notin init_tasks[level[p]]
  /\ p = InitPid \/ \A t \in Thread : th[t].current # p

(* The system after boot: init_pid_ns, with the init task as number 1.     *)
Init ==
  /\ map = [l \in Level |-> IF l = 0 THEN [NoEntries EXCEPT ![1] = InitPid]
                                     ELSE NoEntries]
  /\ last_pid = [l \in Level |-> IF l = 0 THEN 1 ELSE 0]
  /\ pid_allocated = [l \in Level |-> IF l = 0 THEN PIDNS_ADDING + 1 ELSE 0]
  /\ kref = [l \in Level |-> 0]
  /\ child_reaper = [l \in Level |-> IF l = 0 THEN InitPid ELSE NULL]
  /\ proc_mnt = [l \in Level |-> l = 0]
  /\ proc_work = [l \in Level |-> FALSE]
  /\ nsproxy = [l \in Level |-> l = 0]
  /\ zap = [l \in Level |-> "none"]
  /\ init_tasks = [l \in Level |-> {}]
  /\ awake = [l \in Level |-> TRUE]
  /\ state = [p \in Pid |-> IF p = InitPid THEN "attached" ELSE "free"]
  /\ level = [p \in Pid |-> 0]
  /\ numbers = [p \in Pid |-> IF p = InitPid THEN [NoNumbers EXCEPT ![0] = 1]
                                             ELSE NoNumbers]
  /\ count = [p \in Pid |-> IF p = InitPid THEN 1 ELSE 0]
  /\ gp = [p \in Pid |-> {}]
  /\ killed = {}
  /\ th = [t \in Thread |-> IdleThread]
  /\ rd = [t \in Reader |-> IdleReader]
  /\ shared = {}
  /\ missed = {}
-----------------------------------------------------------------------------
(* Reference counts of namespaces.                                         *)

(* get_pid_ns() counts every namespace but init_pid_ns.                    *)
get_pid_ns(k, l) == IF l = 0 THEN k ELSE [k EXCEPT ![l] = @ + 1]

(* Mutant: the result of kref_put() is not looked at.                      *)
PutNeverStops(l) == 0

(* put_pid_ns() drops a reference, and goes on to the parent as long as it *)
(* was the last one: this is the level where it stops.                     *)
PutStopsAt(l) ==
  CHOOSE m \in 0 .. l : /\ m = 0 \/ kref[m] # 1
                        /\ \A j \in m + 1 .. l : kref[j] = 1

(* A namespace whose count reaches 0 is destroyed, and its index with it.  *)
put_pid_ns(l) ==
  LET m == PutStopsAt(l) IN
  /\ kref' = [j \in Level |-> CASE j > m /\ j <= l -> 0
                                [] j = m /\ m # 0  -> kref[j] - 1
                                [] OTHER           -> kref[j]]
  /\ map' = [j \in Level |-> IF j > m /\ j <= l THEN NoEntries ELSE map[j]]

(* create_pid_namespace(), by a task that runs in the parent.  A failure   *)
(* undoes everything and leaves no trace.  The work item is a new one: what *)
(* runs of an old one is work on a namespace that no longer exists.        *)
create_pid_namespace(l) ==
  /\ l > 0 /\ ~Exists(l)
  /\ nsproxy[l - 1] /\ \E c \in Pid : Runnable(c) /\ level[c] = l - 1
  /\ kref' = get_pid_ns([kref EXCEPT ![l] = 1], l - 1)
  /\ map' = [map EXCEPT ![l] = NoEntries]
  /\ last_pid' = [last_pid EXCEPT ![l] = 0]
  /\ pid_allocated' = [pid_allocated EXCEPT ![l] = PIDNS_ADDING]
  /\ child_reaper' = [child_reaper EXCEPT ![l] = NULL]
  /\ nsproxy' = [nsproxy EXCEPT ![l] = TRUE]
  /\ zap' = [zap EXCEPT ![l] = "none"]
  /\ awake' = [awake EXCEPT ![l] = TRUE]
  /\ missed' = missed \ {l}
  /\ proc_work' = [proc_work EXCEPT ![l] = FALSE]
  /\ UNCHANGED <<proc_mnt, init_tasks, state, level, numbers, refVars,
                 killed, th, shared>>

(* The last task whose nsproxy points to the namespace exits or moves on;  *)
(* it is not inside fork.                                                  *)
PutNsproxy(l) ==
  /\ l > 0 /\ Exists(l) /\ nsproxy[l] /\ Forking(l) = {}
  /\ nsproxy' = [nsproxy EXCEPT ![l] = FALSE]
  /\ put_pid_ns(l)
  /\ UNCHANGED <<last_pid, pid_allocated, child_reaper, proc_mnt, proc_work,
                 zapVars, awake, state, level, numbers, refVars, killed, th,
                 shared>>

(* The work free_pid() queues unmounts /proc, whose superblock holds a     *)
(* reference to the namespace.                                             *)
proc_cleanup_work(l) ==
  /\ proc_work[l]
  /\ proc_work' = [proc_work EXCEPT ![l] = FALSE]
  /\ proc_mnt' = [proc_mnt EXCEPT ![l] = FALSE]
  /\ IF proc_mnt[l] THEN put_pid_ns(l) ELSE UNCHANGED <<kref, map>>
  /\ UNCHANGED <<last_pid, pid_allocated, child_reaper, nsproxy, zapVars,
                 awake, state, level, numbers, refVars, killed, th, shared>>

(* A write to ns_last_pid, by a task of the namespace, without a lock.     *)
pid_ns_ctl_handler(l, next) ==
  /\ Exists(l)
  /\ \E p \in Pid : state[p] = "attached" /\ level[p] = l
  /\ last_pid' = [last_pid EXCEPT ![l] = next]
  /\ UNCHANGED <<map, pid_allocated, kref, child_reaper, proc_mnt, proc_work,
                 nsproxy, zapVars, awake, state, level, numbers, refVars,
                 killed, th, shared>>
-----------------------------------------------------------------------------
(* alloc_pid().                                                            *)

(* The call, by task c: kmem_cache_alloc() of the struct pid, of which a   *)
(* failure leaves no trace.  A task forks into its own namespace or one    *)
(* below, and not after it was killed; until a namespace has its first     *)
(* process only the task that created it, which runs in the parent, forks  *)
(* into it.                                                                *)
alloc_pid(t, c, l) ==
  /\ th[t].pc = "idle" /\ Runnable(c) /\ c \notin killed /\ level[c] <= l
  /\ Exists(l) /\ nsproxy[l]
  /\ child_reaper[l] = NULL => level[c] = l - 1 /\ Forking(l) = {}
  /\ \E p \in Pid :
       /\ state[p] = "free"
       /\ state' = [state EXCEPT ![p] = "new"]
       /\ level' = [level EXCEPT ![p] = l]
       /\ th' = [th EXCEPT ![t] = [pc |-> "reserve", current |-> c, ns |-> l,
                                   i |-> l, pid |-> p, retval |-> -12]]
  /\ UNCHANGED <<map, nsVars, pid_allocated, child_reaper, proc_mnt,
                 proc_work, zapVars, awake, numbers, refVars, killed, shared>>

(* The first number the scan tries, and the order in which it goes on:     *)
(* up to pid_max, then from 1.                                             *)
StartPid(l) == IF last_pid[l] + 1 \in Nr THEN last_pid[l] + 1 ELSE 1
Distance(l, n) == (n - StartPid(l)) % (PID_MAX - 1)

(* The scan takes a number for free when the lookup returns NULL.          *)
LooksFree(l, n) == map[l][n] \in {ABSENT, NULL}

(* It passes over such a number only if the insertion fails, which it      *)
(* cannot where there is a node already.                                   *)
InsertFails(l, n) == NoMemory /\ map[l][n] = ABSENT

ScanStopsAt(l, n) ==
  /\ LooksFree(l, n)
  /\ \A m \in Nr : LooksFree(l, m) /\ Distance(l, m) < Distance(l, n)
                     => InsertFails(l, m)

(* The struct pids that have the number, reserved or published.            *)
Holders(l, n) ==
  {q \in Pid : state[q] \in {"new", "published", "attached"} /\ numbers[q][l] = n}

(* One level: a number is reserved with a placeholder.                     *)
Reserve(t) ==
  LET p == th[t].pid
      l == th[t].i
  IN
  /\ th[t].pc = "reserve"
  /\ \E n \in Nr :
       /\ ScanStopsAt(l, n)
       /\ map' = [map EXCEPT ![l][n] = NULL]
       /\ last_pid' = [last_pid EXCEPT ![l] = n]
       /\ numbers' = [numbers EXCEPT ![p][l] = n]
       /\ shared' = IF Holders(l, n) = {} THEN shared
                    ELSE shared \cup Holders(l, n) \cup {p}
  /\ th' = [th EXCEPT ![t].i = l - 1, ![t].retval = 0,
                      ![t].pc = IF l > 0 THEN "reserve" ELSE "prepare"]
  /\ UNCHANGED <<pid_allocated, kref, child_reaper, proc_mnt, proc_work,
                 nsproxy, zapVars, awake, state, level, refVars, killed>>

(* No number is free, or no node could be allocated for one.               *)
ReserveFails(t) ==
  LET l == th[t].i IN
  /\ th[t].pc = "reserve"
  /\ \A n \in Nr : LooksFree(l, n) => InsertFails(l, n)
  /\ th' = [th EXCEPT ![t].pc = "out_free", ![t].retval = -1]
  /\ UNCHANGED <<map, nsVars, pid_allocated, child_reaper, proc_mnt,
                 proc_work, zapVars, awake, state, level, numbers, refVars,
                 killed, shared>>

is_child_reaper(p) == numbers[p][level[p]] = 1

(* Mutant: alloc_pid() does not take the struct pid's reference.           *)
PrepareNoGet(t) ==
  LET l == th[t].ns
      mounts == is_child_reaper(th[t].pid) /\ ~proc_mnt[l]
  IN
  /\ th[t].pc = "prepare"
  /\ proc_mnt' = [proc_mnt EXCEPT ![l] = @ \/ mounts]
  /\ kref' = IF mounts THEN get_pid_ns(kref, l) ELSE kref
  /\ count' = [count EXCEPT ![th[t].pid] = 1]
  /\ th' = [th EXCEPT ![t].pc = "publish"]
  /\ UNCHANGED <<map, last_pid, pid_allocated, child_reaper, proc_work,
                 nsproxy, zapVars, awake, state, level, numbers, gp, rd,
                 killed, shared>>

(* /proc is mounted for the first process, and the struct pid takes its    *)
(* reference to the namespace.                                             *)
Prepare(t) ==
  LET p == th[t].pid
      l == th[t].ns
      mounts == is_child_reaper(p) /\ ~proc_mnt[l]
  IN
  /\ th[t].pc = "prepare"
  /\ proc_mnt' = [proc_mnt EXCEPT ![l] = @ \/ mounts]
  /\ kref' = get_pid_ns(IF mounts THEN get_pid_ns(kref, l) ELSE kref, l)
  /\ count' = [count EXCEPT ![p] = 1]
  /\ th' = [th EXCEPT ![t].pc = "publish"]
  /\ UNCHANGED <<map, last_pid, pid_allocated, child_reaper, proc_work,
                 nsproxy, zapVars, awake, state, level, numbers, gp, rd,
                 killed, shared>>

PrepareFails(t) ==
  /\ th[t].pc = "prepare" /\ is_child_reaper(th[t].pid)
  /\ th' = [th EXCEPT ![t].pc = "out_free"]
  /\ UNCHANGED <<map, nsVars, pid_allocated, child_reaper, proc_mnt,
                 proc_work, zapVars, awake, state, level, numbers, refVars,
                 killed, shared>>

(* Mutant: the flag is not looked at.                                      *)
AddingIgnored(l) == TRUE

(* pid_allocated & PIDNS_ADDING                                            *)
Adding(l) == pid_allocated[l] >= PIDNS_ADDING

(* Mutant: the loop ends before numbers[0].                                *)
PublishedLevelsShort(p) == 1 .. level[p]

(* for ( ; upid >= pid->numbers; --upid)                                   *)
PublishedLevels(p) == 0 .. level[p]

(* The placeholders are replaced on every level.  Where a placeholder has  *)
(* gone a node is allocated for it, and a failure of that is not noticed.  *)
Publish(t) ==
  LET p == th[t].pid
      Lost == {l \in PublishedLevels(p) : InsertFails(l, numbers[p][l])}
  IN
  /\ th[t].pc = "publish" /\ Adding(th[t].ns)
  /\ \E lost \in SUBSET Lost :
       map' = [l \in Level |->
                 IF l \in PublishedLevels(p) \ lost
                 THEN [map[l] EXCEPT ![numbers[p][l]] = p]
                 ELSE map[l]]
  /\ pid_allocated' = [l \in Level |-> IF l \in PublishedLevels(p)
                                       THEN pid_allocated[l] + 1
                                       ELSE pid_allocated[l]]
  /\ state' = [state EXCEPT ![p] = "published"]
  /\ th' = [th EXCEPT ![t].pc = "copy_process"]
  /\ UNCHANGED <<nsVars, child_reaper, proc_mnt, proc_work, zapVars, awake,
                 level, numbers, refVars, killed, shared>>

(* Mutant: out_unlock without put_pid_ns().                                *)
PublishRefusedLeaks(t) ==
  /\ th[t].pc = "publish" /\ ~Adding(th[t].ns)
  /\ th' = [th EXCEPT ![t].pc = "out_free"]
  /\ UNCHANGED <<map, nsVars, pid_allocated, child_reaper, proc_mnt,
                 proc_work, zapVars, awake, state, level, numbers, refVars,
                 killed, shared>>

(* out_unlock: the namespace takes no more processes.                      *)
PublishRefused(t) ==
  /\ th[t].pc = "publish" /\ ~Adding(th[t].ns)
  /\ put_pid_ns(th[t].ns)
  /\ th' = [th EXCEPT ![t].pc = "out_free"]
  /\ UNCHANGED <<last_pid, pid_allocated, child_reaper, proc_mnt, proc_work,
                 nsproxy, zapVars, awake, state, level, numbers, refVars,
                 killed, shared>>

(* kmem_cache_free() of a struct pid.                                      *)
FreeObject(p) ==
  /\ state' = [state EXCEPT ![p] = "free"]
  /\ level' = [level EXCEPT ![p] = 0]
  /\ numbers' = [numbers EXCEPT ![p] = NoNumbers]
  /\ shared' = shared \ {p}

(* Mutant: init_pid_ns is forgotten.                                       *)
UnmapSkipsInit(p, levels) ==
  [l \in Level |-> IF l \in levels \ {0}
                   THEN [map[l] EXCEPT ![numbers[p][l]] = ABSENT]
                   ELSE map[l]]

(* The index without the numbers p has on the given levels.                *)
Unmap(p, levels) ==
  [l \in Level |-> IF l \in levels
                   THEN [map[l] EXCEPT ![numbers[p][l]] = ABSENT]
                   ELSE map[l]]

(* Mutant: while (++i < ns->level)                                         *)
GivenBackShort(t) == th[t].i + 1 .. th[t].ns - 1

(* while (++i <= ns->level)                                                *)
GivenBack(t) == th[t].i + 1 .. th[t].ns

(* Mutant: the flag in the count is forgotten.                             *)
NeverUsedNoFlag(l) == pid_allocated[l] = 0

(* if (ns->pid_allocated == PIDNS_ADDING)                                  *)
NeverUsed(l) == pid_allocated[l] = PIDNS_ADDING

(* out_free: the numbers reserved so far are given back, and an empty      *)
(* namespace starts again from number 1.                                   *)
OutFree(t) ==
  LET p == th[t].pid
      l == th[t].ns
  IN
  /\ th[t].pc = "out_free"
  /\ map' = Unmap(p, GivenBack(t))
  /\ last_pid' = IF NeverUsed(l) THEN [last_pid EXCEPT ![l] = 0] ELSE last_pid
  /\ FreeObject(p)
  /\ count' = [count EXCEPT ![p] = 0]
  /\ th' = [th EXCEPT ![t].pc = "failed", ![t].pid = NULL]
  /\ UNCHANGED <<pid_allocated, kref, child_reaper, proc_mnt, proc_work,
                 nsproxy, zapVars, awake, gp, rd, killed>>

(* return ERR_PTR(retval): fork gives up.                                  *)
ReturnError(t) ==
  /\ th[t].pc = "failed"
  /\ th' = [th EXCEPT ![t] = IdleThread]
  /\ UNCHANGED <<map, nsVars, pid_allocated, child_reaper, proc_mnt,
                 proc_work, zapVars, awake, state, level, numbers, refVars,
                 killed, shared>>
-----------------------------------------------------------------------------
(* free_pid() and the end of a struct pid.                                 *)

(* Mutant: free_pid() does not wait for a grace period.                    *)
NoSection == {}

(* The readers a grace period that starts now waits for.                   *)
InSection == {t \in Reader : rd[t].pc = "section"}

(* Mutant: one of the two cases is missing.                                *)
WakesAtTwo == {2}

(* The counts at which free_pid() wakes the child_reaper.                  *)
WakeCounts == {1, 2}

(* Mutant: only the failure of the first fork is handled.                  *)
CleansUpFailure == {PIDNS_ADDING}

(* The counts at which free_pid() queues the cleanup of /proc.             *)
CleanupCounts == {0, PIDNS_ADDING}

free_pid(p) ==
  LET left(l) == pid_allocated[l] - 1
      levels == 0 .. level[p]
  IN
  /\ pid_allocated' = [l \in Level |->
       IF l \notin levels THEN pid_allocated[l]
       ELSE IF left(l) = PIDNS_ADDING THEN 0 ELSE left(l)]
  /\ awake' = [l \in Level |-> awake[l] \/ (l \in levels /\ left(l) \in WakeCounts)]
  /\ proc_work' = [l \in Level |->
       proc_work[l] \/ (l \in levels /\ left(l) \in CleanupCounts)]
  /\ map' = Unmap(p, levels)
  /\ state' = [state EXCEPT ![p] = "dead"]
  /\ gp' = [gp EXCEPT ![p] = InSection]

(* A reference is dropped; the last one frees the struct pid and drops its *)
(* reference to the namespace.                                             *)
put_pid(p, left) ==
  /\ count' = [count EXCEPT ![p] = @ - 1]
  /\ IF count[p] = 1
     THEN FreeObject(p) /\ put_pid_ns(level[p])
     ELSE /\ state' = [state EXCEPT ![p] = left]
          /\ UNCHANGED <<level, numbers, shared, kref, map>>

(* The callback free_pid() queued, after its grace period.                 *)
delayed_put_pid(p) ==
  /\ state[p] = "dead" /\ gp[p] = {}
  /\ put_pid(p, "stale")
  /\ UNCHANGED <<last_pid, pid_allocated, child_reaper, proc_mnt, proc_work,
                 nsproxy, zapVars, awake, gp, rd, killed, th>>

(* find_get_pid(): inside a read-side section a bound number is looked up, *)
(* then the struct pid is referenced.  A miss leaves no trace.             *)
find_vpid(t, l, n) ==
  /\ rd[t].pc = "idle" /\ Exists(l) /\ map[l][n] \in Pid
  /\ rd' = [rd EXCEPT ![t] = [pc |-> "section", pid |-> map[l][n]]]
  /\ UNCHANGED <<map, nsVars, pid_allocated, child_reaper, proc_mnt,
                 proc_work, zapVars, awake, state, level, numbers, count, gp,
                 killed, th, shared>>

get_pid(t) ==
  /\ rd[t].pc = "section"
  /\ count' = [count EXCEPT ![rd[t].pid] = @ + 1]
  /\ gp' = [p \in Pid |-> gp[p] \ {t}]
  /\ rd' = [rd EXCEPT ![t].pc = "holds"]
  /\ UNCHANGED <<map, nsVars, pid_allocated, child_reaper, proc_mnt,
                 proc_work, zapVars, awake, state, level, numbers, killed, th,
                 shared>>

ReaderPut(t) ==
  /\ rd[t].pc = "holds"
  /\ put_pid(rd[t].pid, state[rd[t].pid])
  /\ rd' = [rd EXCEPT ![t] = IdleReader]
  /\ UNCHANGED <<last_pid, pid_allocated, child_reaper, proc_mnt, proc_work,
                 nsproxy, zapVars, awake, gp, killed, th>>
-----------------------------------------------------------------------------
(* The callers in fork.c and exit.c.                                       *)

(* copy_process() attaches the new task, unless the namespace has stopped  *)
(* taking processes in the meantime or a signal is pending.                *)
AttachTask(t) ==
  LET p == th[t].pid IN
  /\ th[t].pc = "copy_process" /\ Adding(th[t].ns)
  /\ th[t].current \notin killed
  /\ state' = [state EXCEPT ![p] = "attached"]
  /\ child_reaper' = IF is_child_reaper(p)
                     THEN [child_reaper EXCEPT ![th[t].ns] = p]
                     ELSE child_reaper
  /\ th' = [th EXCEPT ![t] = IdleThread]
  /\ UNCHANGED <<map, nsVars, pid_allocated, proc_mnt, proc_work, zapVars,
                 awake, level, numbers, refVars, killed, shared>>

(* copy_process() fails after alloc_pid().                                 *)
ForkFails(t) ==
  /\ th[t].pc = "copy_process"
  /\ free_pid(th[t].pid)
  /\ th' = [th EXCEPT ![t] = IdleThread]
  /\ UNCHANGED <<nsVars, child_reaper, proc_mnt, zapVars, level, numbers,
                 count, rd, killed, shared>>

(* A task exits and its last attachment goes.  The init of a namespace has *)
(* to zap it first; its zombie leader goes after its last thread.          *)
MayExit(p) ==
  LET l == level[p] IN
  IF p \in init_tasks[l]
  THEN zap[l] = "done" /\ (is_child_reaper(p) => init_tasks[l] = {p})
  ELSE Runnable(p) /\ p # child_reaper[l]

Exit(p) ==
  /\ state[p] = "attached" /\ MayExit(p)
  /\ free_pid(p)
  /\ init_tasks' = [init_tasks EXCEPT ![level[p]] = @ \ {p}]
  /\ killed' = killed \ {p}
  /\ UNCHANGED <<nsVars, child_reaper, proc_mnt, zap, missed, level, numbers,
                 count, rd, th, shared>>
-----------------------------------------------------------------------------
(* zap_pid_ns_processes(), by the last thread of the init of a namespace:  *)
(* the leader itself, or another thread with the leader a zombie.          *)

(* Mutant: the count is cleared with the flag.                             *)
ClearAllocated(l) == pid_allocated' = [pid_allocated EXCEPT ![l] = 0]

(* pid_allocated &= ~PIDNS_ADDING                                          *)
disable_pid_allocation(l) ==
  pid_allocated' = [pid_allocated EXCEPT ![l] = @ % PIDNS_ADDING]

ZapStart(l) ==
  LET leader == child_reaper[l]
      Threads == {p \in Pid : Runnable(p) /\ level[p] = l}
  IN
  /\ l > 0 /\ Exists(l) /\ zap[l] = "none"
  /\ leader \in Threads
  /\ \E me \in Threads :
       /\ init_tasks' = [init_tasks EXCEPT ![l] = {leader, me}]
       /\ child_reaper' = [child_reaper EXCEPT ![l] = me]
  /\ disable_pid_allocation(l)
  /\ zap' = [zap EXCEPT ![l] = "signal"]
  /\ UNCHANGED <<map, nsVars, proc_mnt, proc_work, awake, state, level,
                 numbers, refVars, killed, th, shared, missed>>

(* The tasks the iteration from number 2 reaches: it ends at the first     *)
(* entry whose pointer is NULL.                                            *)
Reached(l) ==
  {p \in Pid : /\ state[p] = "attached"
               /\ \E n \in Nr \ {1} : /\ map[l][n] = p
                                      /\ \A m \in 2 .. n : map[l][m] # NULL}

ZapSignal(l) ==
  LET tasks == {p \in Pid : state[p] = "attached" /\ l <= level[p]} IN
  /\ zap[l] = "signal"
  /\ killed' = killed \cup Reached(l)
  /\ missed' = IF tasks \subseteq killed' \cup init_tasks[l]
               THEN missed ELSE missed \cup {l}
  /\ zap' = [zap EXCEPT ![l] = "wait"]
  /\ UNCHANGED <<map, nsVars, pid_allocated, child_reaper, proc_mnt,
                 proc_work, init_tasks, awake, state, level, numbers, refVars,
                 th, shared>>

ZapMoves(l, from, to) ==
  /\ zap[l] = from
  /\ zap' = [zap EXCEPT ![l] = to]
  /\ UNCHANGED <<map, nsVars, pid_allocated, child_reaper, proc_mnt,
                 proc_work, init_tasks, state, level, numbers, refVars,
                 killed, th, shared, missed>>

(* set_current_state(TASK_INTERRUPTIBLE)                                   *)
ZapPrepareToSleep(l) ==
  ZapMoves(l, "wait", "check") /\ awake' = [awake EXCEPT ![l] = FALSE]

(* if (pid_ns->pid_allocated == init_pids) break;                          *)
OnlyInitLeft(l) == pid_allocated[l] = Cardinality(init_tasks[l])

ZapDone(l) ==
  /\ OnlyInitLeft(l)
  /\ ZapMoves(l, "check", "done")
  /\ awake' = [awake EXCEPT ![l] = TRUE]

ZapSleep(l) ==
  ~OnlyInitLeft(l) /\ ZapMoves(l, "check", "sleep") /\ UNCHANGED awake

(* schedule() returns once the task is runnable again.                     *)
ZapWake(l) == awake[l] /\ ZapMoves(l, "sleep", "wait") /\ UNCHANGED awake
-----------------------------------------------------------------------------
ThreadStep(t) ==
  \/ Reserve(t) \/ ReserveFails(t) \/ Prepare(t) \/ PrepareFails(t)
  \/ Publish(t) \/ PublishRefused(t) \/ OutFree(t) \/ ReturnError(t)
  \/ AttachTask(t) \/ ForkFails(t)

ZapStep(l) ==
  \/ ZapSignal(l) \/ ZapPrepareToSleep(l) \/ ZapDone(l) \/ ZapSleep(l)
  \/ ZapWake(l)

Next ==
  \/ \E l \in Level : \/ create_pid_namespace(l) \/ PutNsproxy(l)
                      \/ proc_cleanup_work(l) \/ ZapStart(l) \/ ZapStep(l)
  \/ \E l \in Level, n \in LastPidWrites : pid_ns_ctl_handler(l, n)
  \/ \E t \in Thread, c \in Pid, l \in Level : alloc_pid(t, c, l)
  \/ \E t \in Thread : ThreadStep(t)
  \/ \E p \in Pid : Exit(p) \/ delayed_put_pid(p)
  \/ \E t \in Reader, l \in Level, n \in Nr : find_vpid(t, l, n)
  \/ \E t \in Reader : get_pid(t) \/ ReaderPut(t)

Spec == Init /\ [][Next]_vars
(* A task inside fork, a reader, RCU, the workqueue and the zapping init   *)
(* keep running.  A killed task exits, or zaps its namespace first if it   *)
(* is the init there, and so do the tasks that have finished zapping.      *)
Fairness ==
  /\ \A t \in Thread : WF_vars(ThreadStep(t))
  /\ \A t \in Reader : WF_vars(get_pid(t) \/ ReaderPut(t))
  /\ \A p \in Pid : /\ WF_vars(delayed_put_pid(p))
                    /\ WF_vars(p \in killed /\ Exit(p))
                    /\ WF_vars(p \in init_tasks[level[p]] /\ Exit(p))
  /\ \A l \in Level : /\ WF_vars(ZapStep(l))
                      /\ WF_vars(proc_cleanup_work(l))
                      /\ WF_vars(child_reaper[l] \in killed /\ ZapStart(l))

FairSpec == Spec /\ Fairness
-----------------------------------------------------------------------------
(* Properties.                                                             *)

ThreadType ==
  [pc : {"idle", "reserve", "prepare", "publish", "copy_process", "out_free",
         "failed"},
   current : Pid \cup {NULL}, ns : Level, i : -1 .. DEPTH,
   pid : Pid \cup {NULL}, retval : {-12, -1, 0}]

ReaderType == [pc : {"idle", "section", "holds"}, pid : Pid \cup {NULL}]

(* Every field has the type its C declaration and its use give it; in      *)
(* particular no count is ever below 0.                                    *)
TypeOK ==
  /\ map \in [Level -> [Nr -> Pid \cup {NULL, ABSENT}]]
  /\ last_pid \in [Level -> 0 .. PID_MAX]
  /\ pid_allocated \in [Level -> Nat]
  /\ kref \in [Level -> Nat]
  /\ child_reaper \in [Level -> Pid \cup {NULL}]
  /\ proc_mnt \in [Level -> BOOLEAN]
  /\ proc_work \in [Level -> BOOLEAN]
  /\ nsproxy \in [Level -> BOOLEAN]
  /\ zap \in [Level -> {"none", "signal", "wait", "check", "sleep", "done"}]
  /\ init_tasks \in [Level -> SUBSET Pid]
  /\ awake \in [Level -> BOOLEAN]
  /\ state \in [Pid -> {"free", "new", "published", "attached", "dead", "stale"}]
  /\ level \in [Pid -> Level]
  /\ numbers \in [Pid -> [Level -> 0 .. PID_MAX - 1]]
  /\ count \in [Pid -> Nat]
  /\ gp \in [Pid -> SUBSET Reader]
  /\ killed \subseteq Pid
  /\ th \in [Thread -> ThreadType]
  /\ rd \in [Reader -> ReaderType]
  /\ shared \subseteq Pid
  /\ missed \subseteq Level

(* The struct pids alloc_pid() has published and free_pid() has not taken  *)
(* back.                                                                   *)
Live == {p \in Pid : state[p] \in {"published", "attached"}}

(* The numbers a call of alloc_pid() has reserved and not yet published or *)
(* given back.                                                             *)
Reserves(t, l, n) ==
  /\ th[t].pc \in {"reserve", "prepare", "publish", "out_free"}
  /\ l \in th[t].i + 1 .. th[t].ns
  /\ numbers[th[t].pid][l] = n

(* Every entry of every index has an owner: a struct pid that is live and  *)
(* carries that number on that level, or, for a placeholder, a call of     *)
(* alloc_pid() that will publish or remove it.  No error path leaves a     *)
(* pointer to a freed struct pid or a number that is never given back.     *)
EntriesOwned ==
  \A l \in Level, n \in Nr :
    /\ map[l][n] \in Pid =>
         LET p == map[l][n] IN
         p \in Live /\ l <= level[p] /\ numbers[p][l] = n
    /\ map[l][n] = NULL => \E t \in Thread : Reserves(t, l, n)

(* pid_allocated, without its flag, is the number of live struct pids of   *)
(* the namespace, on every path through alloc_pid() and free_pid().        *)
CountExact ==
  \A l \in Level :
    Exists(l) => pid_allocated[l] % PIDNS_ADDING
                   = Cardinality({p \in Live : l <= level[p]})

One(b) == IF b THEN 1 ELSE 0

(* A struct pid holds its namespace from get_pid_ns() in alloc_pid() to    *)
(* its last put_pid().                                                     *)
HoldsNs(p) ==
  \/ state[p] \notin {"free", "new"}
  \/ \E t \in Thread : th[t].pc = "publish" /\ th[t].pid = p

(* The reference count of a namespace is exactly the number of its         *)
(* holders: the forking tasks, the struct pids of its level, its child and *)
(* the superblock of its /proc.                                            *)
KrefExact ==
  \A l \in Level \ {0} :
    kref[l] = One(nsproxy[l]) + One(proc_mnt[l])
              + One(l < DEPTH /\ Exists(l + 1))
              + Cardinality({p \in Pid : level[p] = l /\ HoldsNs(p)})

(* No namespace is destroyed with entries in its index, while its init is  *)
(* still zapping it, or with its cleanup work queued, which the reference  *)
(* of its /proc prevents.  The exception is a namespace that never had a   *)
(* process with number 1, since there was no memory for it when its first  *)
(* process was forked: nothing mounted /proc, and the work holds no        *)
(* reference.                                                              *)
DestroyedUnused ==
  [][\A l \in Level : Exists(l) /\ ~Exists(l)' =>
       /\ map[l] = NoEntries
       /\ zap[l] \in {"none", "done"}
       /\ proc_work'[l] => NoMemory /\ child_reaper[l] = NULL]_vars

(* A live struct pid is in the index of each of its namespaces under its   *)
(* number, through every failure and interleaving of the others, unless    *)
(* alloc_pid() gave the number to two callers.                             *)
IndexedUnlessShared ==
  \A p \in Live \ shared : \A l \in 0 .. level[p] : map[l][numbers[p][l]] = p

(* A reader in its section never references a struct pid whose count has   *)
(* reached 0, and the count is never below the references outstanding.     *)
RefcountSafe ==
  /\ \A t \in Reader : rd[t].pc # "idle" => count[rd[t].pid] > 0
  /\ \A p \in Pid :
       count[p] >= Cardinality({t \in Reader : rd[t] = [pc |-> "holds", pid |-> p]})
                   + One(p \in Live)

(* free_pid() finds a child_reaper to wake when one or two struct pids are *)
(* left, and none when the last one goes while the namespace still takes   *)
(* processes (its WARN_ON).                                                *)
ReaperAtHand ==
  [][\A l \in Level : \A p \in Live \ Live' : l <= level[p] =>
       /\ pid_allocated'[l] \in {1, 2} =>
            child_reaper[l] # NULL /\ state[child_reaper[l]] = "attached"
       /\ pid_allocated[l] = PIDNS_ADDING + 1 => child_reaper[l] = NULL]_vars

(* The scan for the first process of a namespace starts at number 1, which *)
(* makes it the child_reaper, even after earlier forks have failed.        *)
FirstIsReaper ==
  \A l \in Level :
    Exists(l) /\ pid_allocated[l] = PIDNS_ADDING /\ Forking(l) = {} =>
      last_pid[l] = 0

(* The zapping init never stays asleep once only its own tasks are left:   *)
(* free_pid() wakes it, whichever side of set_current_state() the last     *)
(* task goes on.                                                           *)
NoLostWakeup ==
  \A l \in Level : zap[l] = "sleep" /\ OnlyInitLeft(l) => awake[l]

(* The init of a namespace that signalled every task of it does not sleep  *)
(* for ever: it sees the last of them go.                                  *)
ZapEnds ==
  \A l \in Level :
    zap[l] = "wait" /\ l \notin missed ~> zap[l] = "done" \/ l \in missed

(* A zapped namespace without a child is freed once no task forks into it  *)
(* any more, if they stopped before its init exits, or if /proc is not     *)
(* mounted.  (A later fork that wraps around to number 1 mounts /proc      *)
(* again, is refused and leaves the mount behind.)                         *)
NamespaceFreed ==
  \A l \in Level \ {0} :
    /\ zap[l] = "done" /\ ~nsproxy[l] /\ (l = DEPTH \/ ~Exists(l + 1))
    /\ init_tasks[l] # {} \/ ~proc_mnt[l]
    ~> ~Exists(l)
-----------------------------------------------------------------------------
(* What the code's comments say, without the exception above.              *)

(* Two live struct pids never have the same number in a namespace.         *)
NumbersUnique ==
  \A p, q \in Live : \A l \in Level :
    p # q /\ l <= level[p] /\ l <= level[q] => numbers[p][l] # numbers[q][l]

(* A call of alloc_pid() for a namespace that takes no more processes does *)
(* not succeed: it returns an error pointer.                               *)
RefusalIsReported ==
  \A t \in Thread :
    th[t].pc = "failed" /\ ~Adding(th[t].ns) => th[t].retval < 0

(* Zapping signals every task of the namespace.                            *)
ZapSignalsAll == missed = {}
=============================================================================
