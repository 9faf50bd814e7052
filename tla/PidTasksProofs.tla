-------------------------- MODULE PidTasksProofs ---------------------------
(***************************************************************************)
(* Proofs about PidTasks, for any finite sets of tasks, struct pids and    *)
(* namespaces and any depth of namespaces.                                 *)
(***************************************************************************)
EXTENDS PidTasksInv, FiniteSetTheorems, TLAPS

State == [task : [Task -> TaskType], pid : [Pid -> StructPid],
          ns : [Ns -> NsType]]

-----------------------------------------------------------------------------
(* Types.                                                                  *)

(* NULL is no slot.                                                        *)
LEMMA NullIsNone ==
  /\ NULL \notin Task /\ NULL \notin Pid /\ NULL \notin Ns
  /\ NULL \notin ForkType
BY SlotsAssumption DEF ForkType

(* The updates of a namespace that the operators make.                     *)
LEMMA NsUpdates ==
  ASSUME NEW r \in NsType, NEW v \in Int, NEW a \in Pid \cup {NULL},
         NEW b \in BOOLEAN
  PROVE  /\ [r EXCEPT !.kref = v] \in NsType
         /\ [r EXCEPT !.kref = v, !.st = "destroyed"] \in NsType
         /\ [r EXCEPT !.pid_allocated = v, !.first = a] \in NsType
         /\ [r EXCEPT !.pid_allocated = v, !.first = a, !.adding = b] \in NsType
         /\ [r EXCEPT !.adding = b] \in NsType
         /\ [r EXCEPT !.child_reaper = b] \in NsType
BY Zenon DEF NsType

(* The fields of a namespace.                                              *)
LEMMA NsFields ==
  ASSUME NEW r \in NsType
  PROVE  /\ r.st \in {"none", "live", "destroyed"}
         /\ r.level \in Depth /\ r.path \in [Depth -> Ns \cup {NULL}]
         /\ r.kref \in Int /\ r.pid_allocated \in Int
         /\ r.adding \in BOOLEAN /\ r.first \in Pid \cup {NULL}
         /\ r.child_reaper \in BOOLEAN
BY DEF NsType

(* get_pid_ns() makes a namespace of each.                                 *)
LEMMA GetNsType ==
  ASSUME NEW N \in [Ns -> NsType], NEW n
  PROVE  get_pid_ns(N, n) \in [Ns -> NsType]
<1>1. CASE n \in Ns
  <2>1. N[n].kref + 1 \in Int
    BY <1>1, NsFields
  <2>2. [N[n] EXCEPT !.kref = N[n].kref + 1] \in NsType
    BY <1>1, <2>1, NsUpdates, Zenon
  <2> QED
    BY <2>2, Zenon DEF get_pid_ns
<1>2. CASE n \notin Ns
  BY <1>2, Zenon DEF get_pid_ns
<1> QED
  BY <1>1, <1>2

(* put_pid_ns() makes a namespace of each.                                 *)
LEMMA PutNsType ==
  ASSUME NEW N \in [Ns -> NsType], NEW n
  PROVE  put_pid_ns(N, n) \in [Ns -> NsType]
<1> SUFFICES ASSUME NEW m \in Ns PROVE put_pid_ns(N, n)[m] \in NsType
  BY Zenon DEF put_pid_ns
<1>1. N[m] \in NsType /\ N[m].kref - 1 \in Int /\ 0 \in Int
  BY NsFields
<1>2. /\ [N[m] EXCEPT !.kref = 0, !.st = "destroyed"] \in NsType
      /\ [N[m] EXCEPT !.kref = N[m].kref - 1] \in NsType
  BY <1>1, NsUpdates, Zenon
<1> QED
  BY <1>1, <1>2, Zenon DEF put_pid_ns

(* alloc_pid() counts in namespaces.                                       *)
LEMMA CountedType ==
  ASSUME NEW N \in [Ns -> NsType], NEW n, NEW p \in Pid
  PROVE  Counted(N, p, n) \in [Ns -> NsType]
<1> SUFFICES ASSUME NEW m \in Ns PROVE Counted(N, p, n)[m] \in NsType
  BY Zenon DEF Counted
<1> DEFINE first == IF m = n /\ N[m].first = NULL THEN p ELSE N[m].first
<1>1. N[m] \in NsType /\ N[m].pid_allocated + 1 \in Int /\ first \in Pid \cup {NULL}
  BY NsFields
<1>2. [N[m] EXCEPT !.pid_allocated = N[m].pid_allocated + 1, !.first = first]
        \in NsType
  <2> HIDE DEF first
  <2> QED
    BY <1>1, NsUpdates, Zenon
<1> QED
  BY <1>1, <1>2, Zenon DEF Counted

(* free_pid() counts in namespaces.                                        *)
LEMMA UncountedType ==
  ASSUME NEW N \in [Ns -> NsType], NEW p, NEW on
  PROVE  Uncounted(N, p, on) \in [Ns -> NsType]
<1> SUFFICES ASSUME NEW m \in Ns PROVE Uncounted(N, p, on)[m] \in NsType
  BY Zenon DEF Uncounted
<1> DEFINE first  == IF N[m].first = p THEN NULL ELSE N[m].first
           adding == N[m].adding /\ N[m].pid_allocated # 1
<1>1. N[m] \in NsType /\ N[m].pid_allocated - 1 \in Int /\ first \in Pid \cup {NULL}
  BY NsFields
<1>2. adding \in BOOLEAN
  OBVIOUS
<1>3. [N[m] EXCEPT !.pid_allocated = N[m].pid_allocated - 1, !.first = first,
                   !.adding = adding] \in NsType
  <2> HIDE DEF first, adding
  <2> QED
    BY <1>1, <1>2, NsUpdates, Zenon
<1> QED
  BY <1>1, <1>3, Zenon DEF Uncounted

(* A new namespace.                                                        *)
LEMMA NewNs ==
  ASSUME NEW l \in Depth, NEW path \in [Depth -> Ns \cup {NULL}]
  PROVE  LET new == [NoNs EXCEPT !.st = "live", !.kref = 1, !.adding = TRUE,
                                 !.level = l, !.path = path] IN
         /\ new \in NsType
         /\ new.st = "live" /\ new.kref = 1 /\ new.level = l /\ new.path = path
<1>1. NoNs \in NsType
  <2>1. 0 \in Depth
    BY SlotsAssumption DEF Depth
  <2>2. Nowhere \in [Depth -> Ns \cup {NULL}]
    BY DEF Nowhere
  <2>3. 0 \in Int
    OBVIOUS
  <2> QED
    BY <2>1, <2>2, <2>3, Zenon DEF NoNs, NsType
<1>2. ASSUME NEW r \in NsType, NEW v \in Int
      PROVE  LET new == [r EXCEPT !.st = "live", !.kref = v, !.adding = TRUE,
                                  !.level = l, !.path = path] IN
             /\ new \in NsType
             /\ new.st = "live" /\ new.kref = v /\ new.level = l /\ new.path = path
  BY Zenon DEF NsType
<1>3. 1 \in Int
  OBVIOUS
<1> QED
  BY <1>1, <1>2, <1>3, Zenon

(* create_pid_namespace() makes a namespace.                               *)
LEMMA CreateType ==
  ASSUME NEW N \in [Ns -> NsType], NEW old \in Ns, NEW n \in Ns,
         N[old].level + 1 <= MAX_PID_NS_LEVEL
  PROVE  create_pid_namespace(N, old, n) \in [Ns -> NsType]
<1>1. N[old].level \in 0 .. MAX_PID_NS_LEVEL /\ MAX_PID_NS_LEVEL \in Nat
  BY NsFields, SlotsAssumption DEF Depth
<1>2. N[old].level + 1 \in Depth
  BY <1>1 DEF Depth
<1>3. [N[old].path EXCEPT ![N[old].level + 1] = n] \in [Depth -> Ns \cup {NULL}]
  BY <1>2, NsFields
<1> DEFINE lvl  == N[old].level + 1
           path == [N[old].path EXCEPT ![N[old].level + 1] = n]
           new  == [NoNs EXCEPT !.st = "live", !.kref = 1, !.adding = TRUE,
                                !.level = lvl, !.path = path]
<1>4. new \in NsType
  BY <1>2, <1>3, NewNs
<1>5. [get_pid_ns(N, old) EXCEPT ![n] = new] \in [Ns -> NsType]
  <2> HIDE DEF new
  <2> QED
    BY <1>4, GetNsType, Zenon
<1> QED
  BY <1>5, Zenon DEF create_pid_namespace


-----------------------------------------------------------------------------
(* The operators on the lists of a struct pid.                             *)

(* What is put on and taken off a list.                                    *)
(* a is r with task t put on a list.                                       *)
On(r, a, t, ty) ==
  /\ a \in StructPid /\ a.st = "live" /\ a.count = r.count
  /\ a.level = r.level /\ a.numbers = r.numbers
  /\ \A y \in PidType, u \in Task :
       u \in a.tasks[y] <=> u \in r.tasks[y] \/ (u = t /\ y = ty)

(* Linked puts a task on one list and on no other.                         *)
LEMMA LinkedIs ==
  ASSUME NEW r \in StructPid, NEW ty \in PidType, NEW t \in Task,
         NEW a, a = Linked(r, t, ty)
  PROVE  On(r, a, t, ty)
<1> DEFINE f == [r.tasks EXCEPT ![ty] = r.tasks[ty] \cup {t}]
<1>1. r.tasks \in [PidType -> SUBSET Task]
  BY DEF StructPid
<1>2. /\ f \in [PidType -> SUBSET Task]
      /\ \A y \in PidType : f[y] = IF y = ty THEN r.tasks[y] \cup {t} ELSE r.tasks[y]
  BY <1>1
<1>3. a = [r EXCEPT !.tasks = f, !.st = "live"]
  BY Zenon DEF Linked
<1> HIDE DEF f
<1>4. /\ a \in StructPid /\ a.st = "live" /\ a.count = r.count
      /\ a.level = r.level /\ a.numbers = r.numbers /\ a.tasks = f
  BY <1>2, <1>3, Zenon DEF StructPid
<1> QED
  BY <1>2, <1>4 DEF On

(* a is r with task t taken off a list.                                    *)
Off(r, a, t, ty) ==
  /\ a \in StructPid /\ a.st = r.st /\ a.count = r.count
  /\ a.level = r.level /\ a.numbers = r.numbers
  /\ \A y \in PidType, u \in Task :
       u \in a.tasks[y] <=> u \in r.tasks[y] /\ ~(u = t /\ y = ty)

(* Unlinked takes a task off one list and off no other.                    *)
LEMMA UnlinkedIs ==
  ASSUME NEW r \in StructPid, NEW ty \in PidType, NEW t \in Task,
         NEW a, a = Unlinked(r, t, ty)
  PROVE  Off(r, a, t, ty)
<1> DEFINE f == [r.tasks EXCEPT ![ty] = r.tasks[ty] \ {t}]
<1>1. r.tasks \in [PidType -> SUBSET Task]
  BY DEF StructPid
<1>2. /\ f \in [PidType -> SUBSET Task]
      /\ \A y \in PidType : f[y] = IF y = ty THEN r.tasks[y] \ {t} ELSE r.tasks[y]
  BY <1>1
<1>3. a = [r EXCEPT !.tasks = f]
  BY Zenon DEF Unlinked
<1> HIDE DEF f
<1>4. /\ a \in StructPid /\ a.st = r.st /\ a.count = r.count
      /\ a.level = r.level /\ a.numbers = r.numbers /\ a.tasks = f
  BY <1>2, <1>3, Zenon DEF StructPid
<1> QED
  BY <1>2, <1>4 DEF Off

(* A struct pid in another state.                                          *)
LEMMA WithSt ==
  ASSUME NEW r \in StructPid,
         NEW z, z \in {"none", "new", "live", "dead", "unhashed"},
         NEW a, a = [r EXCEPT !.st = z]
  PROVE  /\ a \in StructPid
         /\ a.st = z /\ a.count = r.count /\ a.level = r.level
         /\ a.numbers = r.numbers /\ a.tasks = r.tasks
BY Zenon DEF StructPid

(* A struct pid with another count.                                        *)
LEMMA WithCount ==
  ASSUME NEW r \in StructPid, NEW v \in Int,
         NEW a, a = [r EXCEPT !.count = v]
  PROVE  /\ a \in StructPid
         /\ a.st = r.st /\ a.count = v /\ a.level = r.level
         /\ a.numbers = r.numbers /\ a.tasks = r.tasks
BY Zenon DEF StructPid

(* The fields of a state.                                                  *)
LEMMA StateFields ==
  ASSUME NEW s \in State
  PROVE  /\ s.task \in [Task -> TaskType] /\ s.pid \in [Pid -> StructPid]
         /\ s.ns \in [Ns -> NsType]
BY DEF State

(* A state with one or two components replaced.                            *)
LEMMA WithPid ==
  ASSUME NEW s \in State, NEW P \in [Pid -> StructPid],
         NEW x, x = [s EXCEPT !.pid = P]
  PROVE  x \in State /\ x.task = s.task /\ x.pid = P /\ x.ns = s.ns
BY Zenon DEF State

(* A state with other tasks.                                               *)
LEMMA WithTask ==
  ASSUME NEW s \in State, NEW T \in [Task -> TaskType],
         NEW x, x = [s EXCEPT !.task = T]
  PROVE  x \in State /\ x.task = T /\ x.pid = s.pid /\ x.ns = s.ns
BY Zenon DEF State

(* A state with other namespaces.                                          *)
LEMMA WithNs ==
  ASSUME NEW s \in State, NEW N \in [Ns -> NsType],
         NEW x, x = [s EXCEPT !.ns = N]
  PROVE  x \in State /\ x.task = s.task /\ x.pid = s.pid /\ x.ns = N
BY Zenon DEF State

(* A state with other struct pids and namespaces.                          *)
LEMMA WithPidNs ==
  ASSUME NEW s \in State, NEW P \in [Pid -> StructPid], NEW N \in [Ns -> NsType],
         NEW x, x = [s EXCEPT !.pid = P, !.ns = N]
  PROVE  x \in State /\ x.task = s.task /\ x.pid = P /\ x.ns = N
BY Zenon DEF State

(* A state with other tasks and namespaces.                                *)
LEMMA WithTaskNs ==
  ASSUME NEW s \in State, NEW T \in [Task -> TaskType], NEW N \in [Ns -> NsType],
         NEW x, x = [s EXCEPT !.task = T, !.ns = N]
  PROVE  x \in State /\ x.task = T /\ x.pid = s.pid /\ x.ns = N
BY Zenon DEF State

(* A task's own pointer of each type; task_pid_ptr() is the leader's.      *)
PtrOf(r, ty) == IF ty = "PID" THEN r.thread_pid ELSE r.pids[ty]

WithPtr(r, ty, p) ==
  IF ty = "PID" THEN [r EXCEPT !.thread_pid = p]
  ELSE [r EXCEPT !.pids = [r.pids EXCEPT ![ty] = p]]

(* The fields of a task.                                                   *)
LEMMA TaskFields ==
  ASSUME NEW r \in TaskType
  PROVE  /\ r.st \in {"none", "live", "zombie"}
         /\ r.leader \in Task \cup {NULL} /\ r.thread_pid \in Pid \cup {NULL}
         /\ r.pids \in [SignalType -> Pid \cup {NULL}]
         /\ r.kids \in Ns \cup {NULL}
BY DEF TaskType

(* a is r with another pointer of a type.                                  *)
Points(r, a, ty, p) ==
  /\ a \in TaskType
  /\ a.st = r.st /\ a.leader = r.leader /\ a.kids = r.kids
  /\ PtrOf(a, ty) = p
  /\ \A y \in PidType \ {ty} : PtrOf(a, y) = PtrOf(r, y)

(* One pointer of a task is set.                                           *)
LEMMA WithPtrFacts ==
  ASSUME NEW r \in TaskType, NEW ty \in PidType, NEW p \in Pid \cup {NULL},
         NEW a, a = WithPtr(r, ty, p)
  PROVE  Points(r, a, ty, p)
<1>1. CASE ty = "PID"
  <2>1. LET b == [r EXCEPT !.thread_pid = p] IN
        /\ b \in TaskType
        /\ b.st = r.st /\ b.leader = r.leader /\ b.kids = r.kids
        /\ b.thread_pid = p /\ b.pids = r.pids
    BY Zenon DEF TaskType
  <2>2. a = [r EXCEPT !.thread_pid = p]
    BY <1>1, Zenon DEF WithPtr
  <2>3. /\ a \in TaskType
        /\ a.st = r.st /\ a.leader = r.leader /\ a.kids = r.kids
        /\ a.thread_pid = p /\ a.pids = r.pids
    BY <2>1, <2>2, Zenon
  <2> QED
    BY <1>1, <2>3 DEF PtrOf, Points
<1>2. CASE ty # "PID"
  <2>1. ty \in SignalType
    BY <1>2 DEF SignalType
  <2> DEFINE f == [r.pids EXCEPT ![ty] = p]
             b == [r EXCEPT !.pids = f]
  <2>2. f \in [SignalType -> Pid \cup {NULL}] /\ r.pids \in [SignalType -> Pid \cup {NULL}]
    BY <2>1, TaskFields
  <2>3. \A y \in SignalType : f[y] = IF y = ty THEN p ELSE r.pids[y]
    BY <2>2
  <2> HIDE DEF f
  <2>5. a = b
    BY <1>2, Zenon DEF WithPtr, f
  <2>4. /\ a \in TaskType
        /\ a.st = r.st /\ a.leader = r.leader /\ a.kids = r.kids
        /\ a.thread_pid = r.thread_pid /\ a.pids = f
    BY <2>2, <2>5, Zenon DEF TaskType
  <2> HIDE DEF b
  <2>6. /\ PtrOf(a, ty) = p
        /\ \A y \in PidType \ {ty} : PtrOf(a, y) = PtrOf(r, y)
    BY <1>2, <2>1, <2>3, <2>4 DEF PtrOf, SignalType
  <2> QED
    BY <2>4, <2>6, Zenon DEF Points
<1> QED
  BY <1>1, <1>2

(* Attached, by the pointers of the tasks themselves.                      *)
LEMMA AttachedIs ==
  ASSUME NEW s, NEW p, NEW ty \in PidType
  PROVE  Attached(s, p, ty) =
           {u \in Task : /\ s.task[u].st # "none"
                         /\ ty # "PID" => s.task[u].leader = u
                         /\ PtrOf(s.task[u], ty) = p}
BY DEF Attached, task_pid_ptr, PtrOf

(* SetPtr changes a pointer of one task.                                   *)
LEMMA SetPtrFacts ==
  ASSUME NEW s \in State, NEW t \in Task, NEW ty \in PidType,
         NEW p \in Pid \cup {NULL}, ty # "PID" => s.task[t].leader = t,
         NEW x, x = SetPtr(s, t, ty, p)
  PROVE  /\ x \in State /\ x.pid = s.pid /\ x.ns = s.ns
         /\ x.task[t] = WithPtr(s.task[t], ty, p)
         /\ \A u \in Task \ {t} : x.task[u] = s.task[u]
<1>1. s.task[t] \in TaskType /\ s.task \in [Task -> TaskType]
  BY StateFields
<1>2. PICK a : a = WithPtr(s.task[t], ty, p)
  OBVIOUS
<1>3. a \in TaskType
  BY <1>1, <1>2, WithPtrFacts DEF Points
<1> DEFINE T == [s.task EXCEPT ![t] = a]
<1>4. /\ T \in [Task -> TaskType] /\ T[t] = a
      /\ \A u \in Task \ {t} : T[u] = s.task[u]
  BY <1>1, <1>3
<1>5. x = [s EXCEPT !.task = T]
  <2>1. x = [s EXCEPT !.task = [s.task EXCEPT ![t] = WithPtr(s.task[t], ty, p)]]
    <3>1. CASE ty = "PID"
      BY <3>1, Zenon DEF SetPtr, WithPtr
    <3>2. CASE ty # "PID"
      BY <3>2, Zenon DEF SetPtr, WithPtr
    <3> QED
      BY <3>1, <3>2
  <2> QED
    BY <2>1, <1>2
<1> HIDE DEF T
<1>6. x \in State /\ x.task = T /\ x.pid = s.pid /\ x.ns = s.ns
  BY <1>4, <1>5, Zenon DEF State
<1> QED
  BY <1>2, <1>4, <1>6

(* What leaves the references between namespaces alone.                    *)
NsSame(N, M) ==
  \A n \in Ns : /\ M[n].st = N[n].st /\ M[n].level = N[n].level
                /\ M[n].path = N[n].path /\ M[n].kref = N[n].kref

(* free_pid() changes neither the references nor the paths of a namespace. *)
LEMMA UncountedSame ==
  ASSUME NEW N \in [Ns -> NsType], NEW p, NEW on
  PROVE  NsSame(N, Uncounted(N, p, on))
<1> SUFFICES ASSUME NEW n \in Ns
             PROVE  LET m == Uncounted(N, p, on)[n] IN
                    /\ m.st = N[n].st /\ m.level = N[n].level
                    /\ m.path = N[n].path /\ m.kref = N[n].kref
  BY Zenon DEF NsSame
<1> DEFINE m == Uncounted(N, p, on)[n]
           a == N[n].pid_allocated - 1
           b == IF N[n].first = p THEN NULL ELSE N[n].first
           c == N[n].adding /\ N[n].pid_allocated # 1
<1>1. \/ m = N[n]
      \/ m = [N[n] EXCEPT !.pid_allocated = a, !.first = b, !.adding = c]
  BY Zenon DEF Uncounted
<1> HIDE DEF m, a, b, c
<1>2. m.st = N[n].st /\ m.level = N[n].level /\ m.path = N[n].path /\ m.kref = N[n].kref
  BY <1>1, Zenon DEF NsType
<1> QED
  BY <1>2 DEF m

(* free_pid() of a struct pid no matter what its lists are.                *)
Frees(s, x, p) ==
  /\ x \in State /\ x.task = s.task /\ NsSame(s.ns, x.ns)
  /\ x.pid[p].st = "dead" /\ x.pid[p].count = s.pid[p].count
  /\ x.pid[p].level = s.pid[p].level
  /\ x.pid[p].numbers = s.pid[p].numbers
  /\ x.pid[p].tasks = s.pid[p].tasks
  /\ \A q \in Pid \ {p} : x.pid[q] = s.pid[q]

(* free_pid() makes a struct pid dead and changes no list.                 *)
LEMMA FreeFacts ==
  ASSUME NEW s \in State, NEW p \in Pid, NEW x, x = free_pid(s, p)
  PROVE  Frees(s, x, p)
<1> DEFINE r == [s.pid[p] EXCEPT !.st = "dead"]
           N == Uncounted(s.ns, p, Chain(s.pid[p].numbers, s.pid[p].level))
           P == [s.pid EXCEPT ![p] = r]
<1>1. s.pid[p] \in StructPid /\ s.pid \in [Pid -> StructPid]
  BY StateFields
<1>2. /\ r \in StructPid /\ r.st = "dead" /\ r.count = s.pid[p].count
      /\ r.level = s.pid[p].level /\ r.numbers = s.pid[p].numbers
      /\ r.tasks = s.pid[p].tasks
  BY <1>1, Zenon DEF StructPid
<1>3. N \in [Ns -> NsType] /\ NsSame(s.ns, N)
  BY UncountedType, UncountedSame, StateFields, Zenon
<1>4. x = [s EXCEPT !.pid = P, !.ns = N]
  BY Zenon DEF free_pid
<1> HIDE DEF r, N
<1>5. /\ P \in [Pid -> StructPid] /\ P[p] = r
      /\ \A q \in Pid \ {p} : P[q] = s.pid[q]
  BY <1>1, <1>2
<1> HIDE DEF P
<1>6. x \in State /\ x.task = s.task /\ x.pid = P /\ x.ns = N
  BY <1>3, <1>4, <1>5, Zenon DEF State
<1> QED
  BY <1>2, <1>3, <1>5, <1>6 DEF Frees

(* A state with another struct pid in slot p.                              *)
PutSlot(s, p, a) == [s EXCEPT !.pid[p] = a]

(* A state with another struct pid in one slot.                            *)
LEMMA PutSlotIs ==
  ASSUME NEW s \in State, NEW p \in Pid, NEW a \in StructPid,
         NEW x, x = PutSlot(s, p, a)
  PROVE  /\ x \in State /\ x.task = s.task /\ x.ns = s.ns
         /\ \A q \in Pid : x.pid[q] = IF q = p THEN a ELSE s.pid[q]
<1> DEFINE P == [s.pid EXCEPT ![p] = a]
<1>1. s.pid \in [Pid -> StructPid]
  BY StateFields
<1>2. P \in [Pid -> StructPid] /\ \A q \in Pid : P[q] = IF q = p THEN a ELSE s.pid[q]
  BY <1>1
<1>3. x = [s EXCEPT !.pid = P]
  BY DEF PutSlot
<1> HIDE DEF P
<1>4. x \in State /\ x.task = s.task /\ x.pid = P /\ x.ns = s.ns
  BY <1>2, <1>3, Zenon DEF State
<1> QED
  BY <1>2, <1>4

(* x is s with task t put on a list of p.                                  *)
Links(s, x, p, t, ty) ==
  /\ x \in State /\ x.task = s.task /\ x.ns = s.ns
  /\ \A q \in Pid :
       /\ x.pid[q].count = s.pid[q].count
       /\ x.pid[q].level = s.pid[q].level
       /\ x.pid[q].numbers = s.pid[q].numbers
       /\ x.pid[q].st = IF q = p THEN "live" ELSE s.pid[q].st
       /\ \A y \in PidType, u \in Task :
            u \in x.pid[q].tasks[y] <=>
              u \in s.pid[q].tasks[y] \/ (u = t /\ y = ty /\ q = p)
       /\ q # p => x.pid[q] = s.pid[q]

(* A task is put on one list of one struct pid.                            *)
LEMMA LinkFacts ==
  ASSUME NEW s \in State, NEW t \in Task, NEW ty \in PidType, NEW p \in Pid,
         NEW x, x = PutSlot(s, p, Linked(s.pid[p], t, ty))
  PROVE  Links(s, x, p, t, ty)
<1>1. s.pid[p] \in StructPid /\ s.pid \in [Pid -> StructPid]
  BY StateFields
<1>2. PICK a : a = Linked(s.pid[p], t, ty)
  OBVIOUS
<1>3. PICK r \in StructPid : r = s.pid[p]
  BY <1>1
<1>4. On(r, a, t, ty)
  BY <1>2, <1>3, LinkedIs
<1>5. /\ a \in StructPid /\ a.st = "live" /\ a.count = s.pid[p].count
      /\ a.level = s.pid[p].level /\ a.numbers = s.pid[p].numbers
      /\ \A y \in PidType, u \in Task :
           u \in a.tasks[y] <=> u \in s.pid[p].tasks[y] \/ (u = t /\ y = ty)
  BY <1>3, <1>4 DEF On
<1>6. x = PutSlot(s, p, a)
  BY <1>2
<1>7. /\ x \in State /\ x.task = s.task /\ x.ns = s.ns
      /\ \A q \in Pid : x.pid[q] = IF q = p THEN a ELSE s.pid[q]
  BY <1>5, <1>6, PutSlotIs
<1> QED
  BY <1>5, <1>7 DEF Links

(* x is s with task t taken off a list of p.                               *)
Unlinks(s, x, p, t, ty) ==
  /\ x \in State /\ x.task = s.task /\ x.ns = s.ns
  /\ \A q \in Pid :
       /\ x.pid[q].count = s.pid[q].count
       /\ x.pid[q].level = s.pid[q].level
       /\ x.pid[q].numbers = s.pid[q].numbers
       /\ x.pid[q].st = s.pid[q].st
       /\ \A y \in PidType, u \in Task :
            u \in x.pid[q].tasks[y] <=>
              u \in s.pid[q].tasks[y] /\ ~(u = t /\ y = ty /\ q = p)
       /\ q # p => x.pid[q] = s.pid[q]

(* A task is taken off one list of one struct pid.                         *)
LEMMA UnlinkFacts ==
  ASSUME NEW s \in State, NEW t \in Task, NEW ty \in PidType, NEW p \in Pid,
         NEW x, x = PutSlot(s, p, Unlinked(s.pid[p], t, ty))
  PROVE  Unlinks(s, x, p, t, ty)
<1>1. s.pid[p] \in StructPid /\ s.pid \in [Pid -> StructPid]
  BY StateFields
<1>2. PICK a : a = Unlinked(s.pid[p], t, ty)
  OBVIOUS
<1>3. PICK r \in StructPid : r = s.pid[p]
  BY <1>1
<1>4. Off(r, a, t, ty)
  BY <1>2, <1>3, UnlinkedIs
<1>5. /\ a \in StructPid /\ a.st = s.pid[p].st /\ a.count = s.pid[p].count
      /\ a.level = s.pid[p].level /\ a.numbers = s.pid[p].numbers
      /\ \A y \in PidType, u \in Task :
           u \in a.tasks[y] <=> u \in s.pid[p].tasks[y] /\ ~(u = t /\ y = ty)
  BY <1>3, <1>4 DEF Off
<1>6. x = PutSlot(s, p, a)
  BY <1>2
<1>7. /\ x \in State /\ x.task = s.task /\ x.ns = s.ns
      /\ \A q \in Pid : x.pid[q] = IF q = p THEN a ELSE s.pid[q]
  BY <1>5, <1>6, PutSlotIs
<1> QED
  BY <1>5, <1>7 DEF Unlinks

(* attach_pid() puts the task on the list of the pid it points to.         *)
LEMMA AttachFacts ==
  ASSUME NEW s \in State, NEW t \in Task, NEW ty \in PidType,
         NEW p \in Pid, p = task_pid_ptr(s, t, ty),
         NEW x, x = attach_pid(s, t, ty)
  PROVE  Links(s, x, p, t, ty)
<1>1. x = PutSlot(s, p, Linked(s.pid[p], t, ty))
  BY DEF attach_pid, PutSlot
<1> QED
  BY <1>1, LinkFacts

-----------------------------------------------------------------------------
(* The lists and the pointers of the tasks.                                *)

(* Task u has p as its pointer of type ty, in its own right.               *)
Belongs(s, u, ty, p) ==
  /\ s.task[u].st # "none"
  /\ ty # "PID" => s.task[u].leader = u
  /\ PtrOf(s.task[u], ty) = p

(* The lists are exact, but for task t, which is missing on those of the   *)
(* types Y.                                                                *)
LinksBut(s, t, Y) ==
  \A p \in Pid :
    /\ \A ty \in PidType, u \in Task :
         u \in s.pid[p].tasks[ty] <=> Belongs(s, u, ty, p) /\ ~(u = t /\ ty \in Y)
    /\ s.pid[p].st = "live" <=>
         \E ty \in PidType, u \in Task : u \in s.pid[p].tasks[ty]

(* LinksIn says that no task is missing on any list.                       *)
LEMMA LinksAre ==
  ASSUME NEW s \in State, NEW t
  PROVE  LinksIn(s) <=> LinksBut(s, t, {})
<1> SUFFICES ASSUME NEW p \in Pid
             PROVE  /\ \A ty \in PidType :
                         s.pid[p].tasks[ty] = Attached(s, p, ty) <=>
                         \A u \in Task : u \in s.pid[p].tasks[ty] <=> Belongs(s, u, ty, p)
                    /\ Unused(s, p) <=>
                         ~ \E ty \in PidType, u \in Task : u \in s.pid[p].tasks[ty]
  BY DEF LinksIn, LinksBut
<1>1. s.pid[p].tasks \in [PidType -> SUBSET Task]
  BY StateFields DEF StructPid
<1>2. ASSUME NEW ty \in PidType
      PROVE  s.pid[p].tasks[ty] = Attached(s, p, ty) <=>
             \A u \in Task : u \in s.pid[p].tasks[ty] <=> Belongs(s, u, ty, p)
  <2>1. s.pid[p].tasks[ty] \subseteq Task
    BY <1>1
  <2>2. Attached(s, p, ty) = {u \in Task : Belongs(s, u, ty, p)}
    BY AttachedIs DEF Belongs
  <2> QED
    BY <2>1, <2>2
<1>3. Unused(s, p) <=>
        ~ \E ty \in PidType, u \in Task : u \in s.pid[p].tasks[ty]
  BY <1>1 DEF Unused
<1> QED
  BY <1>2, <1>3

(* What changes of a struct pid when its lists change.                     *)
Kept(s, x) ==
  \A q \in Pid :
    /\ x.pid[q].count = s.pid[q].count
    /\ x.pid[q].level = s.pid[q].level
    /\ x.pid[q].numbers = s.pid[q].numbers
    /\ \/ x.pid[q] = s.pid[q]
       \/ /\ s.pid[q].st \in {"live", "dead"}
          /\ x.pid[q].st \in {"live", "dead"}

(* x is s with the pointer of a task changed, and the task off its list.   *)
Changes(s, x, t, ty, new) ==
  /\ x \in State /\ Kept(s, x) /\ NsSame(s.ns, x.ns)
  /\ Points(s.task[t], x.task[t], ty, new)
  /\ \A u \in Task \ {t} : x.task[u] = s.task[u]

(* __change_pid() takes a task off one list, frees the struct pid if all   *)
(* its lists are empty, and leaves the task off the list of the new one.   *)
LEMMA ChangeFacts ==
  ASSUME NEW s \in State, NEW t \in Task, NEW ty \in PidType, NEW p \in Pid,
         p = PtrOf(s.task[t], ty), s.task[t].st # "none",
         ty # "PID" => s.task[t].leader = t,
         LinksBut(s, t, {}), NEW new \in Pid \cup {NULL},
         NEW x, x = __change_pid(s, t, ty, new)
  PROVE  /\ Changes(s, x, t, ty, new)
         /\ LinksBut(x, t, IF new = NULL THEN {} ELSE {ty})
<1>1. s.pid[p] \in StructPid /\ s.pid \in [Pid -> StructPid]
      /\ s.task[t] \in TaskType
  BY StateFields
<1>2. task_pid_ptr(s, t, ty) = p
  BY DEF task_pid_ptr, PtrOf
<1>3. PICK m : m = PutSlot(s, p, Unlinked(s.pid[p], t, ty))
  OBVIOUS
<1>4. Unlinks(s, m, p, t, ty)
  BY <1>3, UnlinkFacts
<1>5. PICK c : c = SetPtr(m, t, ty, new)
  OBVIOUS
<1>6. /\ m \in State /\ m.task = s.task /\ m.ns = s.ns
      /\ \A q \in Pid :
           /\ m.pid[q].count = s.pid[q].count
           /\ m.pid[q].level = s.pid[q].level
           /\ m.pid[q].numbers = s.pid[q].numbers
           /\ m.pid[q].st = s.pid[q].st
           /\ \A y \in PidType, u \in Task :
                u \in m.pid[q].tasks[y] <=>
                  u \in s.pid[q].tasks[y] /\ ~(u = t /\ y = ty /\ q = p)
           /\ q # p => m.pid[q] = s.pid[q]
  BY <1>4, Zenon DEF Unlinks
<1>7. /\ c \in State /\ c.pid = m.pid /\ c.ns = s.ns
      /\ c.task[t] = WithPtr(s.task[t], ty, new)
      /\ \A u \in Task \ {t} : c.task[u] = s.task[u]
  BY <1>5, <1>6, SetPtrFacts
<1>8. Points(s.task[t], c.task[t], ty, new)
  BY <1>1, <1>7, WithPtrFacts, Zenon
<1>9. x = IF Unused(c, p) THEN free_pid(c, p) ELSE c
  <2>1. PICK C : C = [q \in Pid |-> SetPtr(PutSlot(s, q, Unlinked(s.pid[q], t, ty)), t, ty, new)]
    OBVIOUS
  <2>2. C[p] = c
    BY <2>1, <1>3, <1>5
  <2>3. \A q \in Pid : q = task_pid_ptr(s, t, ty) =>
          x = IF Unused(C[q], q) THEN free_pid(C[q], q) ELSE C[q]
    BY <2>1, Zenon DEF __change_pid, PutSlot
  <2> QED
    BY <2>2, <2>3, <1>2
<1>10. PICK f : f = free_pid(c, p)
  OBVIOUS
<1>11. Frees(c, f, p)
  BY <1>7, <1>10, FreeFacts, Zenon
<1>12. Unused(c, p) <=> ~ \E y \in PidType, u \in Task : u \in c.pid[p].tasks[y]
  <2>1. c.pid[p].tasks \in [PidType -> SUBSET Task]
    BY <1>7, StateFields DEF StructPid
  <2> QED
    BY <2>1 DEF Unused
<1>13. s.pid[p].st = "live"
  <2>1. Belongs(s, t, ty, p)
    BY DEF Belongs
  <2> QED
    BY <2>1 DEF LinksBut
<1>14. /\ x \in State /\ x.task = c.task /\ NsSame(s.ns, x.ns)
       /\ \A q \in Pid :
            /\ x.pid[q].count = s.pid[q].count
            /\ x.pid[q].level = s.pid[q].level
            /\ x.pid[q].numbers = s.pid[q].numbers
            /\ x.pid[q].tasks = c.pid[q].tasks
            /\ q # p => x.pid[q] = s.pid[q]
       /\ x.pid[p].st = IF Unused(c, p) THEN "dead" ELSE "live"
  <2>0. NsSame(s.ns, s.ns)
    BY DEF NsSame
  <2>1. CASE Unused(c, p)
    <3>1. x = f
      BY <2>1, <1>9, <1>10
    <3>2. /\ x \in State /\ x.task = c.task /\ NsSame(c.ns, x.ns)
          /\ x.pid[p].st = "dead" /\ x.pid[p].count = c.pid[p].count
          /\ x.pid[p].level = c.pid[p].level
          /\ x.pid[p].numbers = c.pid[p].numbers
          /\ x.pid[p].tasks = c.pid[p].tasks
          /\ \A q \in Pid \ {p} : x.pid[q] = c.pid[q]
      BY <3>1, <1>11, Zenon DEF Frees
    <3>3. NsSame(s.ns, x.ns)
      BY <3>2, <1>7, <1>6
    <3>4. ASSUME NEW q \in Pid
          PROVE  /\ x.pid[q].count = s.pid[q].count
                 /\ x.pid[q].level = s.pid[q].level
                 /\ x.pid[q].numbers = s.pid[q].numbers
                 /\ x.pid[q].tasks = c.pid[q].tasks
                 /\ q # p => x.pid[q] = s.pid[q]
      <4>1. CASE q = p
        BY <3>2, <4>1, <1>7, <1>6
      <4>2. CASE q # p
        BY <3>2, <4>2, <1>7, <1>6
      <4> QED
        BY <4>1, <4>2
    <3> QED
      BY <2>1, <3>2, <3>3, <3>4
  <2>2. CASE ~Unused(c, p)
    <3>1. x = c
      BY <2>2, <1>9
    <3> QED
      BY <2>0, <2>2, <3>1, <1>13, <1>7, <1>6
  <2> QED
    BY <2>1, <2>2
<1>15. Kept(s, x)
  BY <1>13, <1>14 DEF Kept
<1>16. /\ Points(s.task[t], x.task[t], ty, new)
       /\ \A u \in Task \ {t} : x.task[u] = s.task[u]
  BY <1>7, <1>8, <1>14
<1> DEFINE Y == IF new = NULL THEN {} ELSE {ty}
<1>17. ASSUME NEW q \in Pid, NEW y \in PidType, NEW u \in Task
       PROVE  u \in x.pid[q].tasks[y] <=> Belongs(x, u, y, q) /\ ~(u = t /\ y \in Y)
  <2>1. u \in x.pid[q].tasks[y] <=> Belongs(s, u, y, q) /\ ~(u = t /\ y = ty /\ q = p)
    BY <1>14, <1>7, <1>6 DEF LinksBut
  <2>4. CASE u # t
    <3>1. x.task[u] = s.task[u]
      BY <2>4, <1>16
    <3> QED
      BY <2>1, <2>4, <3>1 DEF Belongs
  <2>5. CASE u = t /\ y # ty
    <3>1. Belongs(x, u, y, q) <=> Belongs(s, u, y, q)
      BY <2>5, <1>16 DEF Belongs, Points
    <3> QED
      BY <2>1, <2>5, <3>1
  <2>6. CASE u = t /\ y = ty
    <3>1. ~(u \in x.pid[q].tasks[y])
      BY <2>1, <2>6 DEF Belongs
    <3>2. Belongs(x, u, y, q) => new = q
      BY <2>6, <1>16 DEF Belongs, Points
    <3>3. q # NULL
      BY NullIsNone
    <3> QED
      BY <2>6, <3>1, <3>2, <3>3
  <2> QED
    BY <2>4, <2>5, <2>6
<1>18. ASSUME NEW q \in Pid
       PROVE  x.pid[q].st = "live" <=>
                \E y \in PidType, u \in Task : u \in x.pid[q].tasks[y]
  <2>1. CASE q = p
    BY <2>1, <1>12, <1>14
  <2>2. CASE q # p
    BY <2>2, <1>14 DEF LinksBut
  <2> QED
    BY <2>1, <2>2
<1>19. LinksBut(x, t, Y)
  BY <1>17, <1>18 DEF LinksBut
<1> QED
  BY <1>14, <1>15, <1>16, <1>19 DEF Changes

(* A task put on the list it was missing on.                               *)
LEMMA AttachLinks ==
  ASSUME NEW s \in State, NEW t \in Task, NEW Y, NEW ty \in PidType,
         NEW p \in Pid, Belongs(s, t, ty, p), LinksBut(s, t, Y),
         NEW x, Links(s, x, p, t, ty)
  PROVE  LinksBut(x, t, Y \ {ty})
<1>1. /\ x.task = s.task
      /\ \A q \in Pid :
           /\ x.pid[q].st = IF q = p THEN "live" ELSE s.pid[q].st
           /\ \A y \in PidType, u \in Task :
                u \in x.pid[q].tasks[y] <=>
                  u \in s.pid[q].tasks[y] \/ (u = t /\ y = ty /\ q = p)
           /\ q # p => x.pid[q] = s.pid[q]
  BY Zenon DEF Links
<1>2. ASSUME NEW q \in Pid, NEW y \in PidType, NEW u \in Task
      PROVE  u \in x.pid[q].tasks[y] <=>
               Belongs(x, u, y, q) /\ ~(u = t /\ y \in Y \ {ty})
  <2>1. Belongs(x, u, y, q) <=> Belongs(s, u, y, q)
    BY <1>1 DEF Belongs
  <2>2. u = t /\ y = ty => (Belongs(s, u, y, q) <=> q = p)
    BY DEF Belongs
  <2>3. u \in s.pid[q].tasks[y] <=> Belongs(s, u, y, q) /\ ~(u = t /\ y \in Y)
    BY DEF LinksBut
  <2> QED
    BY <1>1, <2>1, <2>2, <2>3
<1>3. ASSUME NEW q \in Pid
      PROVE  x.pid[q].st = "live" <=>
               \E y \in PidType, u \in Task : u \in x.pid[q].tasks[y]
  <2>1. CASE q = p
    BY <2>1, <1>1
  <2>2. CASE q # p
    BY <2>2, <1>1 DEF LinksBut
  <2> QED
    BY <2>1, <2>2
<1> QED
  BY <1>2, <1>3 DEF LinksBut

(* Kept over two steps.                                                    *)
LEMMA KeptTrans ==
  ASSUME NEW s, NEW m, NEW x, Kept(s, m), Kept(m, x)
  PROVE  Kept(s, x)
<1> SUFFICES ASSUME NEW q \in Pid
             PROVE  /\ x.pid[q].count = s.pid[q].count
                    /\ x.pid[q].level = s.pid[q].level
                    /\ x.pid[q].numbers = s.pid[q].numbers
                    /\ \/ x.pid[q] = s.pid[q]
                       \/ /\ s.pid[q].st \in {"live", "dead"}
                          /\ x.pid[q].st \in {"live", "dead"}
  BY Zenon DEF Kept
<1> QED
  BY DEF Kept

(* NsSame over two steps.                                                  *)
LEMMA NsSameTrans ==
  ASSUME NEW N, NEW M, NEW O, NsSame(N, M), NsSame(M, O)
  PROVE  NsSame(N, O)
BY DEF NsSame

(* Putting a task on a list of a used struct pid keeps the rest.           *)
LEMMA LinksKept ==
  ASSUME NEW s, NEW p, NEW t, NEW ty, NEW x, Links(s, x, p, t, ty),
         s.pid[p].st \in {"live", "dead"}
  PROVE  Kept(s, x) /\ NsSame(s.ns, x.ns)
BY DEF Links, Kept, NsSame

(* What leaves the namespaces alone: a struct pid stays in its namespace    *)
(* and a task keeps its struct pid, its leader and its nsproxy.            *)
SamePids(P, Q) ==
  \A q \in Pid : /\ Q[q].level = P[q].level /\ Q[q].numbers = P[q].numbers
                 /\ Q[q].st = "none" <=> P[q].st = "none"

Quiet(s, x) ==
  /\ SamePids(s.pid, x.pid) /\ NsSame(s.ns, x.ns)
  /\ \A u \in Task :
       /\ x.task[u].kids = s.task[u].kids
       /\ x.task[u].st # "none" =>
            /\ x.task[u].st = s.task[u].st
            /\ x.task[u].leader = s.task[u].leader
            /\ x.task[u].thread_pid = s.task[u].thread_pid

(* Quiet over two steps.                                                   *)
LEMMA QuietTrans ==
  ASSUME NEW s, NEW m, NEW x, Quiet(s, m), Quiet(m, x)
  PROVE  Quiet(s, x)
<1>1. SamePids(s.pid, x.pid) /\ NsSame(s.ns, x.ns)
  BY NsSameTrans DEF Quiet, SamePids
<1> QED
  BY <1>1 DEF Quiet

(* Kept struct pids keep their namespaces.                                 *)
LEMMA KeptPids ==
  ASSUME NEW s, NEW x, Kept(s, x)
  PROVE  SamePids(s.pid, x.pid)
BY DEF Kept, SamePids

(* Changing a pointer of a signal is Quiet.                                *)
LEMMA ChangeQuiet ==
  ASSUME NEW s, NEW x, NEW t \in Task, NEW ty \in PidType, ty # "PID", NEW p,
         Changes(s, x, t, ty, p)
  PROVE  Quiet(s, x)
<1>1. SamePids(s.pid, x.pid) /\ NsSame(s.ns, x.ns)
  BY KeptPids DEF Changes
<1>2. "PID" \in PidType
  BY DEF PidType
<1> QED
  BY <1>1, <1>2 DEF Changes, Quiet, Points, PtrOf

(* change_pid() to a struct pid that is in use.                            *)
LEMMA ChangePidFacts ==
  ASSUME NEW s \in State, NEW t \in Task, NEW ty \in PidType,
         PtrOf(s.task[t], ty) \in Pid, s.task[t].st # "none",
         ty # "PID" => s.task[t].leader = t,
         LinksBut(s, t, {}), NEW new \in Pid,
         s.pid[new].st \in {"live", "dead"},
         NEW x, x = change_pid(s, t, ty, new)
  PROVE  Changes(s, x, t, ty, new) /\ LinksBut(x, t, {})
<1>1. PICK p \in Pid : p = PtrOf(s.task[t], ty)
  OBVIOUS
<1>2. PICK m : m = __change_pid(s, t, ty, new)
  OBVIOUS
<1>3. Changes(s, m, t, ty, new) /\ LinksBut(m, t, IF new = NULL THEN {} ELSE {ty})
  BY <1>1, <1>2, ChangeFacts, Zenon
<1>4. LinksBut(m, t, {ty})
  BY <1>3, NullIsNone
<1>5. /\ m \in State /\ Kept(s, m) /\ NsSame(s.ns, m.ns)
      /\ Points(s.task[t], m.task[t], ty, new)
      /\ \A u \in Task \ {t} : m.task[u] = s.task[u]
  BY <1>3, Zenon DEF Changes
<1>6. /\ m.task[t].st = s.task[t].st /\ m.task[t].leader = s.task[t].leader
      /\ PtrOf(m.task[t], ty) = new
  BY <1>5, Zenon DEF Points
<1>7. task_pid_ptr(m, t, ty) = new
  BY <1>6 DEF task_pid_ptr, PtrOf
<1>8. x = attach_pid(m, t, ty)
  BY <1>2, Zenon DEF change_pid
<1>9. Links(m, x, new, t, ty)
  BY <1>5, <1>7, <1>8, AttachFacts, Zenon
<1>10. LinksBut(x, t, {ty} \ {ty})
  <2>1. Belongs(m, t, ty, new)
    BY <1>6 DEF Belongs
  <2> QED
    BY <2>1, <1>4, <1>5, <1>9, AttachLinks, Zenon
<1>11. LinksBut(x, t, {})
  <2>1. {ty} \ {ty} = {}
    OBVIOUS
  <2> QED
    BY <1>10, <2>1
<1>12. m.pid[new].st \in {"live", "dead"}
  BY <1>5 DEF Kept
<1>13. Kept(m, x) /\ NsSame(m.ns, x.ns)
  BY <1>9, <1>12, LinksKept, Zenon
<1>14. x \in State /\ x.task = m.task
  BY <1>9, Zenon DEF Links
<1>15. Kept(s, x) /\ NsSame(s.ns, x.ns)
  BY <1>5, <1>13, KeptTrans, NsSameTrans
<1> QED
  BY <1>5, <1>11, <1>14, <1>15, Zenon DEF Changes

(* x is s with a list of p handed over from one task to another.           *)
Transfers(s, x, p, old, new, ty) ==
  /\ x \in State /\ x.task = s.task /\ x.ns = s.ns
  /\ \A q \in Pid :
       /\ x.pid[q].count = s.pid[q].count
       /\ x.pid[q].level = s.pid[q].level
       /\ x.pid[q].numbers = s.pid[q].numbers
       /\ x.pid[q].st = IF q = p THEN "live" ELSE s.pid[q].st
       /\ \A y \in PidType, u \in Task :
            u \in x.pid[q].tasks[y] <=>
              \/ u \in s.pid[q].tasks[y] /\ ~(u = old /\ y = ty /\ q = p)
              \/ u = new /\ y = ty /\ q = p
       /\ q # p => x.pid[q] = s.pid[q]

(* transfer_pid() replaces one task by another on a list.                  *)
LEMMA TransferFacts ==
  ASSUME NEW s \in State, NEW old \in Task, NEW new \in Task,
         NEW ty \in SignalType, NEW p \in Pid, p = s.task[old].pids[ty],
         NEW x, x = transfer_pid(s, old, new, ty)
  PROVE  Transfers(s, x, p, old, new, ty)
<1>0. ty \in PidType
  BY DEF SignalType
<1>1. s.pid[p] \in StructPid /\ s.pid \in [Pid -> StructPid]
  BY StateFields
<1>2. PICK b : b = Unlinked(s.pid[p], old, ty)
  OBVIOUS
<1>3. PICK a : a = Linked(b, new, ty)
  OBVIOUS
<1>4. Off(s.pid[p], b, old, ty)
  BY <1>0, <1>1, <1>2, UnlinkedIs
<1>5. On(b, a, new, ty)
  BY <1>0, <1>3, <1>4, LinkedIs DEF Off
<1>6. x = PutSlot(s, p, a)
  BY <1>2, <1>3 DEF transfer_pid, PutSlot
<1>7. /\ x \in State /\ x.task = s.task /\ x.ns = s.ns
      /\ \A q \in Pid : x.pid[q] = IF q = p THEN a ELSE s.pid[q]
  BY <1>5, <1>6, PutSlotIs DEF On
<1>8. /\ a.st = "live" /\ a.count = s.pid[p].count
      /\ a.level = s.pid[p].level /\ a.numbers = s.pid[p].numbers
  BY <1>4, <1>5 DEF On, Off
<1>9. \A y \in PidType, u \in Task :
        u \in a.tasks[y] <=> \/ u \in s.pid[p].tasks[y] /\ ~(u = old /\ y = ty)
                             \/ u = new /\ y = ty
  BY <1>4, <1>5 DEF On, Off
<1> QED
  BY <1>7, <1>8, <1>9 DEF Transfers

-----------------------------------------------------------------------------
(* The references of a struct pid.                                         *)

\* The open pidfds F and the tasks with a pidfd_open() under way, o.
Refs(q, o, F) ==
  Cardinality({q} \cap F) + Cardinality({t \in Task : o[t] = q})

Own(r) == IF r.st \in {"new", "live", "dead"} THEN 1 ELSE 0

(* A pidfd counts for one struct pid.                                      *)
LEMMA InOne ==
  ASSUME NEW q, NEW F, NEW c, c = Cardinality({q} \cap F)
  PROVE  c \in Nat /\ c = IF q \in F THEN 1 ELSE 0
<1>1. CASE q \in F
  <2>1. {q} \cap F = {q}
    BY <1>1
  <2>2. Cardinality({q}) = 1
    BY FS_Singleton
  <2>3. c = 1
    BY <2>1, <2>2
  <2> QED
    BY <1>1, <2>3
<1>2. CASE q \notin F
  <2>1. {q} \cap F = {}
    BY <1>2
  <2>2. Cardinality({}) = 0
    BY FS_EmptySet
  <2>3. c = 0
    BY <2>1, <2>2
  <2> QED
    BY <1>2, <2>3
<1> QED
  BY <1>1, <1>2

(* Finitely many calls of pidfd_open() are under way.                      *)
LEMMA OpeningFinite ==
  ASSUME NEW q, NEW o
  PROVE  /\ IsFiniteSet({t \in Task : o[t] = q})
         /\ Cardinality({t \in Task : o[t] = q}) \in Nat
<1>1. IsFiniteSet({t \in Task : o[t] = q})
  BY SlotsAssumption, FS_Subset, {t \in Task : o[t] = q} \subseteq Task
<1> QED
  BY <1>1, FS_CardinalityType

(* The references beside a struct pid's own are a natural.                 *)
LEMMA RefsNat ==
  ASSUME NEW q, NEW o, NEW F
  PROVE  Refs(q, o, F) \in Nat
<1>1. Cardinality({q} \cap F) \in Nat
  BY InOne
<1>2. Cardinality({t \in Task : o[t] = q}) \in Nat
  BY OpeningFinite, Zenon
<1> QED
  BY <1>1, <1>2 DEF Refs

(* A task looks a struct pid up, and has the reference put, or kept as the *)
(* one of a pidfd.                                                         *)
LEMMA OpeningCount ==
  ASSUME NEW o \in [Task -> Pid \cup {NULL}], NEW t \in Task, NEW q \in Pid,
         NEW p \in Pid, o[t] = NULL
  PROVE  Cardinality({u \in Task : [o EXCEPT ![t] = p][u] = q})
           = Cardinality({u \in Task : o[u] = q}) + (IF q = p THEN 1 ELSE 0)
<1>1. PICK w : w = [o EXCEPT ![t] = p]
  OBVIOUS
<1>2. w[t] = p /\ \A u \in Task \ {t} : w[u] = o[u]
  BY <1>1
<1>3. q # NULL
  BY NullIsNone
<1> DEFINE A == {u \in Task : o[u] = q}
<1>4. IsFiniteSet(A) /\ Cardinality(A) \in Nat
  BY OpeningFinite, Zenon
<1>5. CASE q = p
  <2>1. {u \in Task : w[u] = q} = A \cup {t} /\ t \notin A
    BY <1>2, <1>3, <1>5
  <2> HIDE DEF A
  <2>2. Cardinality(A \cup {t}) = Cardinality(A) + 1
    BY <1>4, <2>1, FS_AddElement
  <2> QED
    BY <1>1, <1>5, <2>1, <2>2 DEF A
<1>6. CASE q # p
  <2>1. {u \in Task : w[u] = q} = A
    BY <1>2, <1>3, <1>6
  <2> HIDE DEF A
  <2> QED
    BY <1>1, <1>4, <1>6, <2>1 DEF A
<1> QED
  BY <1>5, <1>6

With(o, t, p) == [o EXCEPT ![t] = p]

(* find_get_pid(), with which pidfd_open() begins, takes a reference.      *)
LEMMA OpeningAdds ==
  ASSUME NEW o \in [Task -> Pid \cup {NULL}], NEW F, NEW t \in Task,
         NEW q \in Pid, NEW p \in Pid, o[t] = NULL,
         NEW w, w = With(o, t, p)
  PROVE  Refs(q, w, F) = Refs(q, o, F) + (IF q = p THEN 1 ELSE 0)
<1>1. Cardinality({u \in Task : w[u] = q})
        = Cardinality({u \in Task : o[u] = q}) + (IF q = p THEN 1 ELSE 0)
  BY OpeningCount DEF With
<1>2. Cardinality({u \in Task : o[u] = q}) \in Nat
  BY OpeningFinite, Zenon
<1>3. Cardinality({q} \cap F) \in Nat
  BY InOne
<1> QED
  BY <1>1, <1>2, <1>3 DEF Refs

(* pidfd_open() puts it at its end, with or without a file.                *)
LEMMA OpeningDrops ==
  ASSUME NEW o \in [Task -> Pid \cup {NULL}], NEW F, NEW t \in Task,
         NEW q \in Pid, NEW p \in Pid, o[t] = p,
         NEW w, w = With(o, t, NULL)
  PROVE  Refs(q, w, F) = Refs(q, o, F) - (IF q = p THEN 1 ELSE 0)
<1>1. w \in [Task -> Pid \cup {NULL}] /\ w[t] = NULL
  BY DEF With
<1>2. o = With(w, t, p)
  BY DEF With
<1>3. Refs(q, o, F) = Refs(q, w, F) + (IF q = p THEN 1 ELSE 0)
  BY <1>1, <1>2, OpeningAdds
<1>4. Refs(q, w, F) \in Nat
  BY RefsNat
<1> QED
  BY <1>3, <1>4

(* Closing a pidfd gives its reference back.                               *)
LEMMA PidfdDrops ==
  ASSUME NEW o, NEW F, NEW q \in Pid, NEW p \in F
  PROVE  Refs(q, o, F \ {p}) = Refs(q, o, F) - (IF q = p THEN 1 ELSE 0)
<1> DEFINE c == Cardinality({q} \cap F)
           d == Cardinality({q} \cap (F \ {p}))
<1>1. c \in Nat /\ c = IF q \in F THEN 1 ELSE 0
  BY InOne
<1>2. d \in Nat /\ d = IF q \in F \ {p} THEN 1 ELSE 0
  BY InOne
<1>3. Cardinality({u \in Task : o[u] = q}) \in Nat
  BY OpeningFinite, Zenon
<1>4. c = d + (IF q = p THEN 1 ELSE 0)
  <2> HIDE DEF c, d
  <2> QED
    BY <1>1, <1>2
<1> QED
  BY <1>1, <1>2, <1>3, <1>4 DEF Refs

(* A pidfd has a reference.                                                *)
LEMMA PidfdAdds ==
  ASSUME NEW o, NEW q \in Pid, NEW p
  PROVE  Refs(q, o, {p}) = Refs(q, o, {}) + (IF q = p THEN 1 ELSE 0)
<1>1. PICK F : F = {p}
  OBVIOUS
<1>2. p \in F /\ F \ {p} = {}
  BY <1>1
<1>3. Refs(q, o, F \ {p}) = Refs(q, o, F) - (IF q = p THEN 1 ELSE 0)
  BY <1>2, PidfdDrops
<1>4. Refs(q, o, F) \in Nat
  BY RefsNat
<1> QED
  BY <1>1, <1>2, <1>3, <1>4

-----------------------------------------------------------------------------
(* TaskPart, but for the pointers of the tasks and the lists.              *)

RefsIn(P, o, F) == \A q \in Pid : P[q].count = Own(P[q]) + Refs(q, o, F)

Rest(s, f, o, F) ==
  /\ s \in State
  /\ f \in [Task -> ForkType \cup {NULL}]
  /\ o \in [Task -> Pid \cup {NULL}]
  /\ F \subseteq Pid
  /\ SlotInv(s.pid)
  /\ RefsIn(s.pid, o, F)
  /\ ForkIn(s, f)

(* RefsIn is PidRefsExact.                                                 *)
LEMMA RefsMeaning == RefsIn(k.pid, opening, pidfd) => PidRefsExact
<1> SUFFICES ASSUME RefsIn(k.pid, opening, pidfd), NEW q \in Pid
             PROVE  k.pid[q].count
                      = (IF k.pid[q].st \in {"new", "live", "dead"} THEN 1 ELSE 0)
                        + Cardinality({q} \cap pidfd)
                        + Cardinality({t \in Task : opening[t] = q})
  BY Zenon DEF PidRefsExact
<1> DEFINE c == Cardinality({q} \cap pidfd)
           d == Cardinality({t \in Task : opening[t] = q})
<1>1. c \in Nat
  BY InOne
<1>2. d \in Nat
  BY OpeningFinite, Zenon
<1>3. k.pid[q].count = Own(k.pid[q]) + (c + d)
  BY DEF RefsIn, Refs
<1> HIDE DEF c, d
<1>4. k.pid[q].count
        = (IF k.pid[q].st \in {"new", "live", "dead"} THEN 1 ELSE 0) + c + d
  BY <1>1, <1>2, <1>3 DEF Own
<1> QED
  BY <1>4 DEF c, d

(* Lists changed, and tasks that are not forking.                          *)
LEMMA KeptRest ==
  ASSUME NEW s, NEW f, NEW o, NEW F, Rest(s, f, o, F),
         NEW x \in State, Kept(s, x),
         \A t \in Task : f[t] # NULL => x.task[t].st = "live"
  PROVE  Rest(x, f, o, F)
<1>1. SlotInv(x.pid)
  BY DEF Rest, SlotInv, Kept
<1>2. RefsIn(x.pid, o, F)
  <2> SUFFICES ASSUME NEW q \in Pid
               PROVE  x.pid[q].count = Own(x.pid[q]) + Refs(q, o, F)
    BY DEF RefsIn
  <2>1. s.pid[q].count = Own(s.pid[q]) + Refs(q, o, F)
    BY DEF Rest, RefsIn
  <2>2. Own(x.pid[q]) = Own(s.pid[q]) /\ x.pid[q].count = s.pid[q].count
    BY DEF Kept, Own
  <2> QED
    BY <2>1, <2>2
<1>3. ForkIn(x, f)
  <2>1. \A t \in Task : f[t] # NULL => f[t].pid \in Pid
    BY DEF Rest, ForkType
  <2> QED
    BY <2>1 DEF Rest, ForkIn, Kept
<1> QED
  BY <1>1, <1>2, <1>3 DEF Rest

(* The fields of an unused struct pid.                                     *)
LEMMA NoPidIs ==
  /\ NoPid \in StructPid /\ NoPid.st = "none" /\ NoPid.count = 0
  /\ \A y \in PidType : NoPid.tasks[y] = {}
<1>1. 0 \in Depth
  BY SlotsAssumption DEF Depth
<1>2. Nowhere \in [Depth -> Ns \cup {NULL}]
  BY DEF Nowhere
<1>3. [ty \in PidType |-> {}] \in [PidType -> SUBSET Task]
  OBVIOUS
<1>4. 0 \in Int
  OBVIOUS
<1>5. /\ NoPid \in StructPid /\ NoPid.st = "none" /\ NoPid.count = 0
      /\ NoPid.tasks = [ty \in PidType |-> {}]
  BY <1>1, <1>2, <1>3, <1>4, Zenon DEF NoPid, StructPid
<1> QED
  BY <1>5

(* A struct pid that is not live is on no list of a task.                  *)
LEMMA EmptyLists ==
  ASSUME NEW s \in State, LinksIn(s), NEW p \in Pid, NEW ty \in PidType,
         s.pid[p].st # "live"
  PROVE  s.pid[p].tasks[ty] = {}
BY DEF LinksIn, Unused

(* x is s with another struct pid in a slot, and other namespaces.         *)
Slots(s, x, p, a) ==
  /\ x \in State /\ x.task = s.task /\ x.pid[p] = a
  /\ \A q \in Pid \ {p} : x.pid[q] = s.pid[q]

PutSlotNs(s, p, a, N) == [s EXCEPT !.pid = [s.pid EXCEPT ![p] = a], !.ns = N]

(* One struct pid and the namespaces change.                               *)
LEMMA SlotIs ==
  ASSUME NEW s \in State, NEW p \in Pid, NEW a \in StructPid,
         NEW N \in [Ns -> NsType],
         NEW x, x = PutSlotNs(s, p, a, N)
  PROVE  Slots(s, x, p, a) /\ x.ns = N
<1> DEFINE P == [s.pid EXCEPT ![p] = a]
<1>1. s.pid \in [Pid -> StructPid]
  BY StateFields
<1>2. P \in [Pid -> StructPid] /\ P[p] = a /\ \A q \in Pid \ {p} : P[q] = s.pid[q]
  BY <1>1
<1> HIDE DEF P
<1>3. x = [s EXCEPT !.pid = P, !.ns = N]
  BY DEF P, PutSlotNs
<1>4. x \in State /\ x.task = s.task /\ x.pid = P /\ x.ns = N
  BY <1>2, <1>3, Zenon DEF State
<1> QED
  BY <1>2, <1>4 DEF Slots

(* One struct pid changes.                                                 *)
LEMMA SlotOnly ==
  ASSUME NEW s \in State, NEW p \in Pid, NEW a \in StructPid,
         NEW x, x = PutSlot(s, p, a)
  PROVE  Slots(s, x, p, a) /\ x.ns = s.ns
<1> DEFINE P == [s.pid EXCEPT ![p] = a]
<1>1. s.pid \in [Pid -> StructPid]
  BY StateFields
<1>2. P \in [Pid -> StructPid] /\ P[p] = a /\ \A q \in Pid \ {p} : P[q] = s.pid[q]
  BY <1>1
<1> HIDE DEF P
<1>3. x = [s EXCEPT !.pid = P]
  BY DEF P, PutSlot
<1>4. x \in State /\ x.task = s.task /\ x.pid = P /\ x.ns = s.ns
  BY <1>2, <1>3, Zenon DEF State
<1> QED
  BY <1>2, <1>4 DEF Slots

(* put_pid()                                                               *)
LEMMA PutLast ==
  ASSUME NEW s \in State, NEW p \in Pid, s.pid[p].count = 1,
         NEW x, x = put_pid(s, p)
  PROVE  Slots(s, x, p, NoPid) /\ x.ns = put_pid_ns(s.ns, ns_of(s, p))
<1>1. put_pid_ns(s.ns, ns_of(s, p)) \in [Ns -> NsType]
  BY StateFields, PutNsType
<1>2. PICK N : N = put_pid_ns(s.ns, ns_of(s, p))
  OBVIOUS
<1>3. x = PutSlotNs(s, p, NoPid, N)
  BY <1>2, Zenon DEF put_pid, PutSlotNs
<1>4. N \in [Ns -> NsType]
  BY <1>1, <1>2
<1>5. PICK a \in StructPid : a = NoPid
  BY NoPidIs
<1>6. x = PutSlotNs(s, p, a, N)
  BY <1>3, <1>5
<1>7. Slots(s, x, p, a) /\ x.ns = N
  BY <1>4, <1>6, SlotIs
<1> QED
  BY <1>2, <1>5, <1>7

(* put_pid() of a reference that is not the last.                          *)
LEMMA PutOne ==
  ASSUME NEW s \in State, NEW p \in Pid, s.pid[p].count # 1,
         NEW x, x = put_pid(s, p)
  PROVE  /\ Slots(s, x, p, [s.pid[p] EXCEPT !.count = s.pid[p].count - 1])
         /\ x.ns = s.ns
<1>1. s.pid[p] \in StructPid
  BY StateFields
<1>2. s.pid[p].count - 1 \in Int
  BY <1>1 DEF StructPid
<1>3. [s.pid[p] EXCEPT !.count = s.pid[p].count - 1] \in StructPid
  BY <1>1, <1>2, WithCount
<1>4. PICK a : a = [s.pid[p] EXCEPT !.count = s.pid[p].count - 1]
  OBVIOUS
<1>5. x = PutSlot(s, p, a)
  BY <1>4, Zenon DEF put_pid, PutSlot
<1> QED
  BY <1>3, <1>4, <1>5, SlotOnly

(* The lists and the forks when one struct pid is changed otherwise.       *)
LEMMA SlotLinks ==
  ASSUME NEW s \in State, LinksIn(s), NEW p \in Pid, NEW a, NEW x,
         Slots(s, x, p, a),
         \A ty \in PidType : a.tasks[ty] = s.pid[p].tasks[ty],
         a.st = "live" <=> s.pid[p].st = "live"
  PROVE  LinksIn(x)
<1>1. x.task = s.task /\ x.pid[p] = a /\ \A q \in Pid \ {p} : x.pid[q] = s.pid[q]
  BY DEF Slots
<1>2. ASSUME NEW q \in Pid
      PROVE  /\ \A ty \in PidType : x.pid[q].tasks[ty] = s.pid[q].tasks[ty]
             /\ x.pid[q].st = "live" <=> s.pid[q].st = "live"
  BY <1>1
<1>3. \A q \in Pid, ty \in PidType : Attached(x, q, ty) = Attached(s, q, ty)
  BY <1>1, Zenon DEF Attached, task_pid_ptr
<1>4. \A q \in Pid : Unused(x, q) <=> Unused(s, q)
  BY <1>2 DEF Unused
<1> QED
  BY <1>2, <1>3, <1>4 DEF LinksIn

(* A fork keeps its struct pid if that stays new.                          *)
LEMMA SlotFork ==
  ASSUME NEW s \in State, NEW f \in [Task -> ForkType \cup {NULL}], ForkIn(s, f),
         NEW p \in Pid, NEW a, NEW x, Slots(s, x, p, a),
         s.pid[p].st = "new" => a.st = "new"
  PROVE  ForkIn(x, f)
<1>1. x.task = s.task /\ x.pid[p] = a /\ \A q \in Pid \ {p} : x.pid[q] = s.pid[q]
  BY DEF Slots
<1>2. \A t \in Task : f[t] # NULL => f[t].pid \in Pid
  BY DEF ForkType
<1> QED
  BY <1>1, <1>2 DEF ForkIn

(* Rest depends on the slot that changed only.                             *)
LEMMA SlotRest ==
  ASSUME NEW s, NEW f \in [Task -> ForkType \cup {NULL}],
         NEW o \in [Task -> Pid \cup {NULL}], NEW F \in SUBSET Pid,
         SlotInv(s.pid), NEW p \in Pid, NEW a, NEW x, Slots(s, x, p, a),
         a.st = "none" => a = NoPid, a.st # "none" => a.count > 0,
         a.count = Own(a) + Refs(p, o, F),
         \A q \in Pid \ {p} : s.pid[q].count = Own(s.pid[q]) + Refs(q, o, F),
         ForkIn(x, f)
  PROVE  Rest(x, f, o, F)
<1>1. x \in State /\ x.pid[p] = a /\ \A q \in Pid \ {p} : x.pid[q] = s.pid[q]
  BY DEF Slots
<1>2. SlotInv(x.pid)
  BY <1>1 DEF SlotInv
<1>3. RefsIn(x.pid, o, F)
  BY <1>1 DEF RefsIn
<1> QED
  BY <1>1, <1>2, <1>3 DEF Rest

(* put_pid() of a reference that is one too many.                          *)
(* The last reference of a struct pid goes with one of its namespace.      *)
PutsLast(s, x, p) ==
  /\ s.pid[p].st \notin {"none", "new", "live"} /\ x.pid[p].st = "none"
  /\ \A q \in Pid \ {p} : x.pid[q] = s.pid[q]
  /\ x.task = s.task
  /\ x.ns = put_pid_ns(s.ns, ns_of(s, p))

(* A change in one slot that frees no struct pid is Quiet.                 *)
LEMMA SlotQuiet ==
  ASSUME NEW s, NEW x, NEW p, NEW a, Slots(s, x, p, a), x.ns = s.ns,
         a.level = s.pid[p].level, a.numbers = s.pid[p].numbers,
         a.st = "none" <=> s.pid[p].st = "none"
  PROVE  Quiet(s, x)
BY DEF Slots, Quiet, SamePids, NsSame

(* put_pid() gives back one reference more than there are.                 *)
LEMMA PutGood ==
  ASSUME NEW s \in State, NEW f \in [Task -> ForkType \cup {NULL}],
         NEW o \in [Task -> Pid \cup {NULL}], NEW F \in SUBSET Pid,
         SlotInv(s.pid), ForkIn(s, f), LinksIn(s), NEW p \in Pid,
         s.pid[p].st # "none",
         s.pid[p].count = Own(s.pid[p]) + Refs(p, o, F) + 1,
         \A q \in Pid \ {p} : s.pid[q].count = Own(s.pid[q]) + Refs(q, o, F),
         NEW x, x = put_pid(s, p)
  PROVE  /\ Rest(x, f, o, F) /\ LinksIn(x) /\ x.task = s.task
         /\ Quiet(s, x) \/ PutsLast(s, x, p)
<1>1. s.pid[p] \in StructPid
  BY StateFields
<1>2. Own(s.pid[p]) \in {0, 1} /\ Refs(p, o, F) \in Nat
  BY RefsNat DEF Own
<1>3. CASE s.pid[p].count = 1
  <2>1. Own(s.pid[p]) = 0 /\ Refs(p, o, F) = 0
    BY <1>2, <1>3
  <2>2. s.pid[p].st \notin {"new", "live", "dead"}
    BY <2>1 DEF Own
  <2>3. PICK a : a = NoPid
    OBVIOUS
  <2>4. Slots(s, x, p, a)
    BY <1>3, <2>3, PutLast
  <2>5. /\ a.st = "none" /\ a.count = 0 /\ \A y \in PidType : a.tasks[y] = {}
        /\ Own(a) = 0
    BY <2>3, NoPidIs DEF Own
  <2>6. \A y \in PidType : s.pid[p].tasks[y] = {}
    BY <2>2, EmptyLists
  <2>7. LinksIn(x)
    <3>1. /\ \A ty \in PidType : a.tasks[ty] = s.pid[p].tasks[ty]
          /\ a.st = "live" <=> s.pid[p].st = "live"
      BY <2>2, <2>5, <2>6
    <3> QED
      BY <2>4, <3>1, SlotLinks
  <2>8. ForkIn(x, f)
    BY <2>2, <2>4, SlotFork
  <2>9. Rest(x, f, o, F)
    BY <2>1, <2>3, <2>4, <2>5, <2>8, SlotRest
  <2>10. PutsLast(s, x, p)
    <3>1. x.ns = put_pid_ns(s.ns, ns_of(s, p))
      BY <1>3, PutLast
    <3> QED
      BY <2>2, <2>4, <2>5, <3>1 DEF PutsLast, Slots
  <2> QED
    BY <2>4, <2>7, <2>9, <2>10 DEF Slots
<1>4. CASE s.pid[p].count # 1
  <2>1. s.pid[p].count - 1 \in Int
    BY <1>1 DEF StructPid
  <2>2. PICK a : a = [s.pid[p] EXCEPT !.count = s.pid[p].count - 1]
    OBVIOUS
  <2>3. Slots(s, x, p, a)
    BY <1>4, <2>2, PutOne
  <2>4. /\ a.st = s.pid[p].st /\ a.count = s.pid[p].count - 1
        /\ a.tasks = s.pid[p].tasks
        /\ a.level = s.pid[p].level /\ a.numbers = s.pid[p].numbers
    BY <1>1, <2>1, <2>2, WithCount
  <2>5. Own(a) = Own(s.pid[p])
    BY <2>4 DEF Own
  <2>6. LinksIn(x)
    BY <2>3, <2>4, SlotLinks
  <2>7. ForkIn(x, f)
    BY <2>3, <2>4, SlotFork
  <2>8. a.count = Own(a) + Refs(p, o, F) /\ a.count > 0
    BY <1>2, <1>4, <2>4, <2>5
  <2>9. Rest(x, f, o, F)
    BY <2>3, <2>4, <2>7, <2>8, SlotRest
  <2>10. Quiet(s, x)
    <3>1. x.ns = s.ns
      BY <1>4, PutOne
    <3> QED
      BY <2>3, <2>4, <3>1, SlotQuiet
  <2> QED
    BY <2>3, <2>6, <2>9, <2>10 DEF Slots
<1> QED
  BY <1>3, <1>4

-----------------------------------------------------------------------------
(* The actions on references of a struct pid.                              *)

Good(s, f, o, F) == Rest(s, f, o, F) /\ TaskInv(s.task) /\ LinksIn(s)

(* The conjuncts of Good.                                                  *)
LEMMA GoodRest ==
  ASSUME NEW s, NEW f, NEW o, NEW F, Good(s, f, o, F)
  PROVE  /\ s \in State /\ f \in [Task -> ForkType \cup {NULL}]
         /\ o \in [Task -> Pid \cup {NULL}] /\ F \subseteq Pid
         /\ SlotInv(s.pid) /\ RefsIn(s.pid, o, F) /\ ForkIn(s, f)
         /\ TaskInv(s.task) /\ LinksIn(s)
BY DEF Good, Rest

(* A change in the slot of p before put_pid() of p.                        *)
LEMMA QuietPuts ==
  ASSUME NEW s, NEW m, NEW p \in Pid, NEW a, Slots(s, m, p, a), m.ns = s.ns,
         a.level = s.pid[p].level, a.numbers = s.pid[p].numbers,
         a.st # "none", s.pid[p].st # "none",
         a.st \in {"new", "live"} <=> s.pid[p].st \in {"new", "live"},
         NEW x, Quiet(m, x) \/ PutsLast(m, x, p)
  PROVE  Quiet(s, x) \/ PutsLast(s, x, p)
<1>1. Quiet(s, m)
  BY SlotQuiet
<1>2. CASE Quiet(m, x)
  BY <1>1, <1>2, QuietTrans
<1>3. CASE PutsLast(m, x, p)
  <2>1. ns_of(m, p) = ns_of(s, p)
    BY DEF ns_of, Slots
  <2> QED
    BY <1>3, <2>1 DEF PutsLast, Slots
<1> QED
  BY <1>2, <1>3

(* delayed_put_pid(): the grace period ends.                               *)
LEMMA DelayedPutGood ==
  ASSUME Good(k, fork, opening, pidfd), NEW p \in Pid, delayed_put_pid(p)
  PROVE  /\ Good(k', fork', opening', pidfd')
         /\ Quiet(k, k') \/ PutsLast(k, k', p)
<1>1. /\ k \in State /\ fork \in [Task -> ForkType \cup {NULL}]
      /\ opening \in [Task -> Pid \cup {NULL}] /\ pidfd \subseteq Pid
      /\ SlotInv(k.pid) /\ RefsIn(k.pid, opening, pidfd) /\ ForkIn(k, fork)
      /\ TaskInv(k.task) /\ LinksIn(k)
  BY GoodRest
<1>2. k.pid[p] \in StructPid /\ k.pid[p].st = "dead"
  BY <1>1, StateFields DEF delayed_put_pid
<1>3. PICK a : a = [k.pid[p] EXCEPT !.st = "unhashed"]
  OBVIOUS
<1>4. /\ a \in StructPid /\ a.st = "unhashed" /\ a.count = k.pid[p].count
      /\ a.tasks = k.pid[p].tasks
      /\ a.level = k.pid[p].level /\ a.numbers = k.pid[p].numbers
  BY <1>2, <1>3, WithSt
<1>5. PICK s : s = PutSlot(k, p, a)
  OBVIOUS
<1>6. Slots(k, s, p, a)
  BY <1>1, <1>4, <1>5, SlotOnly
<1>7. s \in State /\ s.task = k.task /\ s.pid[p] = a
      /\ \A q \in Pid \ {p} : s.pid[q] = k.pid[q]
  BY <1>6 DEF Slots
<1>8. k' = put_pid(s, p)
  BY <1>3, <1>5, Zenon DEF delayed_put_pid, PutSlot
<1>9. SlotInv(s.pid)
  BY <1>1, <1>2, <1>4, <1>7 DEF SlotInv
<1>10. ForkIn(s, fork)
  BY <1>1, <1>2, <1>6, SlotFork
<1>11. LinksIn(s)
  BY <1>1, <1>2, <1>4, <1>6, SlotLinks
<1>12. \A q \in Pid : k.pid[q].count = Own(k.pid[q]) + Refs(q, opening, pidfd)
  BY <1>1 DEF RefsIn
<1>13. s.pid[p].count = Own(s.pid[p]) + Refs(p, opening, pidfd) + 1
  <2>1. Own(k.pid[p]) = 1 /\ Own(a) = 0
    BY <1>2, <1>4 DEF Own
  <2> QED
    BY <1>4, <1>7, <1>12, <2>1, RefsNat
<1>14. /\ Rest(k', fork, opening, pidfd) /\ LinksIn(k') /\ k'.task = s.task
       /\ Quiet(s, k') \/ PutsLast(s, k', p)
  BY <1>1, <1>4, <1>7, <1>8, <1>9, <1>10, <1>11, <1>12, <1>13, PutGood
<1>15. Quiet(k, k') \/ PutsLast(k, k', p)
  <2>1. s.ns = k.ns
    BY <1>1, <1>4, <1>5, SlotOnly
  <2>2. a.st # "none" /\ k.pid[p].st # "none"
        /\ (a.st \in {"new", "live"} <=> k.pid[p].st \in {"new", "live"})
    BY <1>2, <1>4
  <2> QED
    BY <1>4, <1>6, <1>14, <2>1, <2>2, QuietPuts
<1> QED
  BY <1>1, <1>7, <1>14, <1>15 DEF Good, delayed_put_pid

(* pidfd_close() keeps Good.                                               *)
LEMMA CloseGood ==
  ASSUME Good(k, fork, opening, pidfd), NEW p \in Pid, pidfd_close(p)
  PROVE  /\ Good(k', fork', opening', pidfd')
         /\ Quiet(k, k') \/ PutsLast(k, k', p)
<1>1. /\ k \in State /\ fork \in [Task -> ForkType \cup {NULL}]
      /\ opening \in [Task -> Pid \cup {NULL}] /\ pidfd \subseteq Pid
      /\ SlotInv(k.pid) /\ RefsIn(k.pid, opening, pidfd) /\ ForkIn(k, fork)
      /\ TaskInv(k.task) /\ LinksIn(k)
  BY GoodRest
<1>2. PICK F \in SUBSET Pid : F = pidfd \ {p}
  BY <1>1
<1>3. /\ p \in pidfd /\ k' = put_pid(k, p) /\ pidfd' = F /\ fork' = fork
      /\ opening' = opening
  BY <1>2 DEF pidfd_close
<1>4. ASSUME NEW q \in Pid
      PROVE  Refs(q, opening, F)
               = Refs(q, opening, pidfd) - (IF q = p THEN 1 ELSE 0)
  BY <1>2, <1>3, PidfdDrops
<1>5. \A q \in Pid : /\ k.pid[q].count = Own(k.pid[q]) + Refs(q, opening, pidfd)
                     /\ Refs(q, opening, pidfd) \in Nat
                     /\ Own(k.pid[q]) \in {0, 1}
  BY <1>1, RefsNat DEF RefsIn, Own
<1>6. /\ k.pid[p].count = Own(k.pid[p]) + Refs(p, opening, F) + 1
      /\ \A q \in Pid \ {p} : k.pid[q].count = Own(k.pid[q]) + Refs(q, opening, F)
  BY <1>4, <1>5
<1>7. k.pid[p].st # "none"
  <2>1. k.pid[p].count > 0
    BY <1>5, <1>6, RefsNat
  <2> QED
    BY <1>1, <2>1, NoPidIs DEF SlotInv
<1>8. /\ Rest(k', fork, opening, F) /\ LinksIn(k') /\ k'.task = k.task
      /\ Quiet(k, k') \/ PutsLast(k, k', p)
  BY <1>1, <1>3, <1>6, <1>7, PutGood
<1> QED
  BY <1>1, <1>3, <1>8 DEF Good

(* find_get_pid() keeps Good.                                              *)
LEMMA FindGood ==
  ASSUME Good(k, fork, opening, pidfd), NEW t \in Task, NEW p \in Pid,
         find_get_pid(t, p)
  PROVE  /\ Good(k', fork', opening', pidfd')
         /\ Quiet(k, k')
<1>1. /\ k \in State /\ fork \in [Task -> ForkType \cup {NULL}]
      /\ opening \in [Task -> Pid \cup {NULL}] /\ pidfd \subseteq Pid
      /\ SlotInv(k.pid) /\ RefsIn(k.pid, opening, pidfd) /\ ForkIn(k, fork)
      /\ TaskInv(k.task) /\ LinksIn(k)
  BY GoodRest
<1>2. PICK o \in [Task -> Pid \cup {NULL}] : o = With(opening, t, p)
  BY <1>1 DEF With
<1>3. /\ opening[t] = NULL /\ opening' = o /\ fork' = fork /\ pidfd' = pidfd
      /\ k.pid[p].st \in {"new", "live"}
  BY <1>2 DEF find_get_pid, Runs, Busy, With
<1>4. k.pid[p] \in StructPid /\ k.pid[p].count + 1 \in Int
  BY <1>1, StateFields DEF StructPid
<1>5. PICK a : a = [k.pid[p] EXCEPT !.count = k.pid[p].count + 1]
  OBVIOUS
<1>6. /\ a \in StructPid /\ a.st = k.pid[p].st /\ a.count = k.pid[p].count + 1
      /\ a.tasks = k.pid[p].tasks
      /\ a.level = k.pid[p].level /\ a.numbers = k.pid[p].numbers
  BY <1>4, <1>5, WithCount
<1>7. k' = PutSlot(k, p, a)
  BY <1>5, Zenon DEF find_get_pid, PutSlot
<1>8. Slots(k, k', p, a)
  BY <1>1, <1>6, <1>7, SlotOnly
<1>9. ForkIn(k', fork)
  BY <1>1, <1>6, <1>8, SlotFork
<1>10. LinksIn(k')
  BY <1>1, <1>6, <1>8, SlotLinks
<1>11. \A q \in Pid : /\ k.pid[q].count = Own(k.pid[q]) + Refs(q, opening, pidfd)
                      /\ Refs(q, opening, pidfd) \in Nat
                      /\ Own(k.pid[q]) \in {0, 1}
  BY <1>1, RefsNat DEF RefsIn, Own
<1>12. \A q \in Pid : Refs(q, o, pidfd)
                        = Refs(q, opening, pidfd) + (IF q = p THEN 1 ELSE 0)
  BY <1>1, <1>2, <1>3, OpeningAdds
<1>13. /\ a.count = Own(a) + Refs(p, o, pidfd) /\ a.count > 0
       /\ \A q \in Pid \ {p} : k.pid[q].count = Own(k.pid[q]) + Refs(q, o, pidfd)
  BY <1>6, <1>11, <1>12 DEF Own
<1>14. Rest(k', fork, o, pidfd)
  BY <1>1, <1>3, <1>6, <1>8, <1>9, <1>13, SlotRest
<1>15. Quiet(k, k')
  <2>1. k'.ns = k.ns
    BY <1>1, <1>6, <1>7, SlotOnly
  <2> QED
    BY <1>6, <1>8, <2>1, SlotQuiet
<1> QED
  BY <1>1, <1>3, <1>8, <1>10, <1>14, <1>15 DEF Good, Slots

(* The second half of pidfd_open() keeps Good, whether or not the task has *)
(* left meanwhile.                                                         *)
LEMMA OpenGood ==
  ASSUME Good(k, fork, opening, pidfd), NEW t \in Task, pidfd_open(t)
  PROVE  /\ Good(k', fork', opening', pidfd')
         /\ Quiet(k, k') \/ \E p \in Pid : PutsLast(k, k', p)
<1>1. /\ k \in State /\ fork \in [Task -> ForkType \cup {NULL}]
      /\ opening \in [Task -> Pid \cup {NULL}] /\ pidfd \subseteq Pid
      /\ SlotInv(k.pid) /\ RefsIn(k.pid, opening, pidfd) /\ ForkIn(k, fork)
      /\ TaskInv(k.task) /\ LinksIn(k)
  BY GoodRest
<1>2. PICK o \in [Task -> Pid \cup {NULL}] : o = With(opening, t, NULL)
  BY <1>1 DEF With
<1>3. PICK p \in Pid : p = opening[t]
  BY <1>1 DEF pidfd_open
<1>4. opening' = o /\ fork' = fork
  BY <1>2 DEF pidfd_open, With
<1>5. \A q \in Pid : /\ k.pid[q].count = Own(k.pid[q]) + Refs(q, opening, pidfd)
                     /\ Refs(q, opening, pidfd) \in Nat
                     /\ Own(k.pid[q]) \in {0, 1}
  BY <1>1, RefsNat DEF RefsIn, Own
<1>6. \A q \in Pid : Refs(q, o, pidfd)
                       = Refs(q, opening, pidfd) - (IF q = p THEN 1 ELSE 0)
  BY <1>1, <1>2, <1>3, OpeningDrops
<1>7. k.pid[p].st # "none"
  <2>1. Refs(p, o, pidfd) \in Nat
    BY RefsNat
  <2>2. k.pid[p].count > 0
    BY <1>5, <1>6, <2>1
  <2> QED
    BY <1>1, <2>2, NoPidIs DEF SlotInv
<1>8. CASE k' = put_pid(k, p) /\ pidfd' = pidfd
  <2>1. /\ k.pid[p].count = Own(k.pid[p]) + Refs(p, o, pidfd) + 1
        /\ \A q \in Pid \ {p} : k.pid[q].count = Own(k.pid[q]) + Refs(q, o, pidfd)
    BY <1>5, <1>6
  <2>2. /\ Rest(k', fork, o, pidfd) /\ LinksIn(k') /\ k'.task = k.task
        /\ Quiet(k, k') \/ PutsLast(k, k', p)
    BY <1>1, <1>7, <1>8, <2>1, PutGood
  <2> QED
    BY <1>1, <1>4, <1>8, <2>2 DEF Good
<1>9. CASE /\ k' = put_pid([k EXCEPT !.pid[p].count = @ + 1], p)
           /\ pidfd = {} /\ pidfd' = {p}
  <2>1. k.pid[p] \in StructPid /\ k.pid[p].count + 1 \in Int
    BY <1>1, StateFields DEF StructPid
  <2>2. PICK a : a = [k.pid[p] EXCEPT !.count = k.pid[p].count + 1]
    OBVIOUS
  <2>3. /\ a \in StructPid /\ a.st = k.pid[p].st /\ a.count = k.pid[p].count + 1
        /\ a.tasks = k.pid[p].tasks
        /\ a.level = k.pid[p].level /\ a.numbers = k.pid[p].numbers
    BY <2>1, <2>2, WithCount
  <2>4. PICK s : s = PutSlot(k, p, a)
    OBVIOUS
  <2>5. Slots(k, s, p, a)
    BY <1>1, <2>3, <2>4, SlotOnly
  <2>6. s \in State /\ s.task = k.task /\ s.pid[p] = a
        /\ \A q \in Pid \ {p} : s.pid[q] = k.pid[q]
    BY <2>5 DEF Slots
  <2>7. k' = put_pid(s, p)
    <3>1. [k EXCEPT !.pid[p].count = @ + 1] = s
      BY <2>2, <2>4, Zenon DEF PutSlot
    <3> QED
      BY <1>9, <3>1
  <2>8. SlotInv(s.pid)
    <3>1. a.st # "none" /\ a.count > 0
      BY <1>1, <1>5, <1>7, <2>3 DEF SlotInv
    <3> QED
      BY <1>1, <2>6, <3>1 DEF SlotInv
  <2>9. ForkIn(s, fork)
    BY <1>1, <2>3, <2>5, SlotFork
  <2>10. LinksIn(s)
    BY <1>1, <2>3, <2>5, SlotLinks
  <2>11. PICK F \in SUBSET Pid : F = {p}
    OBVIOUS
  <2>12. \A q \in Pid : Refs(q, o, F) = Refs(q, o, pidfd) + (IF q = p THEN 1 ELSE 0)
    BY <1>9, <2>11, PidfdAdds
  <2>13. \A q \in Pid : Refs(q, o, F) = Refs(q, opening, pidfd)
    BY <1>5, <1>6, <2>12
  <2>14. /\ s.pid[p].count = Own(s.pid[p]) + Refs(p, o, F) + 1
         /\ \A q \in Pid \ {p} : s.pid[q].count = Own(s.pid[q]) + Refs(q, o, F)
    BY <1>5, <2>3, <2>6, <2>13 DEF Own
  <2>15. /\ Rest(k', fork, o, F) /\ LinksIn(k') /\ k'.task = s.task
         /\ Quiet(s, k') \/ PutsLast(s, k', p)
    BY <1>1, <1>7, <2>3, <2>6, <2>7, <2>8, <2>9, <2>10, <2>14, PutGood
  <2>16. Quiet(k, k') \/ PutsLast(k, k', p)
    <3>1. s.ns = k.ns
      BY <1>1, <2>3, <2>4, SlotOnly
    <3>2. a.st # "none" /\ k.pid[p].st # "none"
          /\ (a.st \in {"new", "live"} <=> k.pid[p].st \in {"new", "live"})
      BY <1>7, <2>3
    <3> QED
      BY <2>3, <2>5, <2>15, <3>1, <3>2, QuietPuts
  <2> QED
    BY <1>1, <1>4, <1>9, <2>6, <2>11, <2>15, <2>16 DEF Good
<1> QED
  BY <1>3, <1>8, <1>9 DEF pidfd_open, NoFile

-----------------------------------------------------------------------------
(* fork                                                                    *)

(* The lists depend on tasks and struct pids only.                         *)
LEMMA LinksSame ==
  ASSUME NEW s, NEW x, x.task = s.task, x.pid = s.pid, LinksIn(s)
  PROVE  LinksIn(x)
<1>1. \A q \in Pid, ty \in PidType : Attached(x, q, ty) = Attached(s, q, ty)
  BY Zenon DEF Attached, task_pid_ptr
<1>2. \A q \in Pid : Unused(x, q) <=> Unused(s, q)
  BY DEF Unused
<1> QED
  BY <1>1, <1>2 DEF LinksIn

\* A new struct pid.
NewPid(l, numbers) ==
  [NoPid EXCEPT !.st = "new", !.level = l, !.numbers = numbers, !.count = 1]

(* The fields of a new struct pid.                                         *)
LEMMA NewPidIs ==
  ASSUME NEW l \in Depth, NEW numbers \in [Depth -> Ns \cup {NULL}],
         NEW a, a = NewPid(l, numbers)
  PROVE  /\ a \in StructPid /\ a.st = "new" /\ a.count = 1
         /\ a.level = l /\ a.numbers = numbers
         /\ \A y \in PidType : a.tasks[y] = {}
<1>1. PICK r \in StructPid : r = NoPid
  BY NoPidIs
<1>2. PICK v \in Int : v = 1
  OBVIOUS
<1>3. a = [r EXCEPT !.st = "new", !.level = l, !.numbers = numbers, !.count = v]
  BY <1>1, <1>2, Zenon DEF NewPid
<1>4. /\ a \in StructPid /\ a.st = "new" /\ a.count = v
      /\ a.level = l /\ a.numbers = numbers /\ a.tasks = r.tasks
  BY <1>3, Zenon DEF StructPid
<1> QED
  BY <1>1, <1>2, <1>4, NoPidIs

(* alloc_pid() fills one slot.                                             *)
LEMMA AllocFacts ==
  ASSUME NEW s \in State, NEW p \in Pid, NEW n \in Ns,
         NEW x, x = alloc_pid(s, p, n)
  PROVE  /\ Slots(s, x, p, NewPid(s.ns[n].level, s.ns[n].path))
         /\ x.ns = Counted(get_pid_ns(s.ns, n), p, n)
<1>1. s.ns \in [Ns -> NsType]
  BY StateFields
<1>2. s.ns[n].level \in Depth /\ s.ns[n].path \in [Depth -> Ns \cup {NULL}]
  BY <1>1, NsFields
<1>3. PICK a : a = NewPid(s.ns[n].level, s.ns[n].path)
  OBVIOUS
<1>4. a \in StructPid
  BY <1>2, <1>3, NewPidIs
<1>5. PICK N : N = Counted(get_pid_ns(s.ns, n), p, n)
  OBVIOUS
<1>6. N \in [Ns -> NsType]
  BY <1>1, <1>5, GetNsType, CountedType
<1>7. x = PutSlotNs(s, p, a, N)
  BY <1>3, <1>5, Zenon DEF alloc_pid, PutSlotNs, NewPid
<1>8. Slots(s, x, p, a) /\ x.ns = N
  BY <1>4, <1>6, <1>7, SlotIs
<1> QED
  BY <1>3, <1>5, <1>8

(* What a fork does first: a struct pid, in a namespace of the tree N.      *)
Forked(t, N, n, p, thread) ==
  /\ k.task[t].st = "live" /\ fork[t] = NULL /\ k.pid[p].st = "none"
  /\ k'.task = k.task
  /\ k'.pid[p].st = "new"
  /\ k'.pid[p].level = N[n].level /\ k'.pid[p].numbers = N[n].path
  /\ \A q \in Pid \ {p} : k'.pid[q] = k.pid[q]
  /\ k'.ns = Counted(get_pid_ns(N, n), p, n)
  /\ fork' = [fork EXCEPT ![t] = [pid |-> p, kids |-> n, thread |-> thread]]

(* The first half of copy_process(): a fork gets a struct pid.             *)
LEMMA AllocatesGood ==
  ASSUME Good(k, fork, opening, pidfd), NEW t \in Task, NEW p \in Pid,
         NEW n \in Ns, NEW thread \in BOOLEAN, NEW N \in [Ns -> NsType],
         Runs(t), Allocates(t, N, n, p, thread)
  PROVE  /\ Good(k', fork', opening', pidfd')
         /\ Forked(t, N, n, p, thread)
<1>1. /\ k \in State /\ fork \in [Task -> ForkType \cup {NULL}]
      /\ opening \in [Task -> Pid \cup {NULL}] /\ pidfd \subseteq Pid
      /\ SlotInv(k.pid) /\ RefsIn(k.pid, opening, pidfd) /\ ForkIn(k, fork)
      /\ TaskInv(k.task) /\ LinksIn(k)
  BY GoodRest
<1>2. PICK g \in ForkType : g = [pid |-> p, kids |-> n, thread |-> thread]
  BY DEF ForkType
<1>3. PICK f \in [Task -> ForkType \cup {NULL}] : f = [fork EXCEPT ![t] = g]
  BY <1>1
<1>4. /\ fork' = f /\ opening' = opening /\ pidfd' = pidfd
      /\ k.pid[p].st = "none" /\ k.task[t].st = "live" /\ fork[t] = NULL
  BY <1>2, <1>3 DEF Allocates, Runs, Busy
<1>5. g.pid = p /\ g # NULL
  BY <1>2, NullIsNone
<1>6. PICK m : m = [k EXCEPT !.ns = N]
  OBVIOUS
<1>7. m \in State /\ m.task = k.task /\ m.pid = k.pid /\ m.ns = N
  BY <1>1, <1>6, Zenon DEF State
<1>8. k' = alloc_pid(m, p, n)
  BY <1>6, Zenon DEF Allocates
<1>9. PICK a : a = NewPid(m.ns[n].level, m.ns[n].path)
  OBVIOUS
<1>10. Slots(m, k', p, a)
  BY <1>7, <1>8, <1>9, AllocFacts
<1>11. /\ a \in StructPid /\ a.st = "new" /\ a.count = 1
       /\ \A y \in PidType : a.tasks[y] = {}
       /\ a.level = N[n].level /\ a.numbers = N[n].path
  <2>1. m.ns[n].level \in Depth /\ m.ns[n].path \in [Depth -> Ns \cup {NULL}]
    BY <1>7, NsFields
  <2> QED
    BY <1>7, <1>9, <2>1, NewPidIs
<1>12. LinksIn(m)
  BY <1>1, <1>7, LinksSame
<1>13. LinksIn(k')
  <2>1. \A y \in PidType : m.pid[p].tasks[y] = {}
    BY <1>4, <1>7, <1>12, EmptyLists
  <2>2. /\ \A y \in PidType : a.tasks[y] = m.pid[p].tasks[y]
        /\ a.st = "live" <=> m.pid[p].st = "live"
    BY <1>4, <1>7, <1>11, <2>1
  <2> QED
    BY <1>7, <1>10, <1>12, <2>2, SlotLinks
<1>14. k'.task = k.task /\ k'.pid[p] = a /\ \A q \in Pid \ {p} : k'.pid[q] = k.pid[q]
  BY <1>7, <1>10 DEF Slots
<1>15. ForkIn(k', f)
  <2> SUFFICES ASSUME NEW u \in Task, f[u] # NULL
               PROVE  /\ k'.task[u].st = "live"
                      /\ k'.pid[f[u].pid].st = "new"
                      /\ \A w \in Task \ {u} : f[w] # NULL => f[w].pid # f[u].pid
    BY DEF ForkIn
  <2>1. f[t] = g /\ \A w \in Task \ {t} : f[w] = fork[w]
    BY <1>1, <1>3
  <2>2. \A w \in Task : fork[w] # NULL => fork[w].pid \in Pid /\ fork[w].pid # p
    BY <1>1, <1>4 DEF ForkIn, ForkType
  <2>3. CASE u = t
    BY <1>4, <1>5, <1>11, <1>14, <2>1, <2>2, <2>3
  <2>4. CASE u # t
    BY <1>1, <1>5, <1>14, <2>1, <2>2, <2>4 DEF ForkIn
  <2> QED
    BY <2>3, <2>4
<1>16. \A q \in Pid : /\ k.pid[q].count = Own(k.pid[q]) + Refs(q, opening, pidfd)
                      /\ Refs(q, opening, pidfd) \in Nat
                      /\ Own(k.pid[q]) \in {0, 1}
  BY <1>1, RefsNat DEF RefsIn, Own
<1>17. Refs(p, opening, pidfd) = 0 /\ Own(a) = 1
  <2>1. k.pid[p].count = 0
    BY <1>1, <1>4, NoPidIs DEF SlotInv
  <2> QED
    BY <1>4, <1>11, <1>16, <2>1 DEF Own
<1>18. /\ a.count = Own(a) + Refs(p, opening, pidfd) /\ a.count > 0
       /\ \A q \in Pid \ {p} : m.pid[q].count = Own(m.pid[q]) + Refs(q, opening, pidfd)
  BY <1>7, <1>11, <1>16, <1>17
<1>19. Rest(k', f, opening, pidfd)
  BY <1>1, <1>7, <1>10, <1>11, <1>15, <1>18, SlotRest
<1>20. Forked(t, N, n, p, thread)
  <2>1. k'.ns = Counted(get_pid_ns(N, n), p, n)
    BY <1>7, <1>8, AllocFacts
  <2> QED
    BY <1>2, <1>3, <1>4, <1>11, <1>14, <2>1 DEF Forked
<1> QED
  BY <1>1, <1>4, <1>13, <1>14, <1>19, <1>20 DEF Good

ForkFailed(t, M) ==
  /\ M \in [Ns -> NsType] /\ NsSame(k.ns, M)
  /\ fork[t] # NULL /\ fork' = [fork EXCEPT ![t] = NULL]
  /\ k'.task = k.task /\ SamePids(k.pid, k'.pid)
  /\ k'.ns = put_pid_ns(M, fork[t].kids)

(* A fork that fails frees its struct pid, which is no task's.             *)
LEMMA ForkFailsGood ==
  ASSUME Good(k, fork, opening, pidfd), NEW t \in Task, ForkFails(t)
  PROVE  /\ Good(k', fork', opening', pidfd')
         /\ \E M : ForkFailed(t, M)
<1>1. /\ k \in State /\ fork \in [Task -> ForkType \cup {NULL}]
      /\ opening \in [Task -> Pid \cup {NULL}] /\ pidfd \subseteq Pid
      /\ SlotInv(k.pid) /\ RefsIn(k.pid, opening, pidfd) /\ ForkIn(k, fork)
      /\ TaskInv(k.task) /\ LinksIn(k)
  BY GoodRest
<1>2. PICK p \in Pid : p = fork[t].pid
  BY <1>1 DEF ForkFails, ForkType
<1>3. PICK f \in [Task -> ForkType \cup {NULL}] : f = [fork EXCEPT ![t] = NULL]
  BY <1>1
<1>4. /\ fork' = f /\ opening' = opening /\ pidfd' = pidfd
      /\ k.pid[p].st = "new"
  BY <1>1, <1>2, <1>3 DEF ForkFails, ForkIn
<1>5. PICK s : s = free_pid(k, p)
  OBVIOUS
<1>6. Frees(k, s, p)
  BY <1>1, <1>5, FreeFacts
<1>7. PICK N : N = put_pid_ns(s.ns, fork[t].kids)
  OBVIOUS
<1>8. s \in State /\ N \in [Ns -> NsType]
  BY <1>6, <1>7, StateFields, PutNsType DEF Frees
<1>9. k' = [s EXCEPT !.ns = N]
  BY <1>2, <1>5, <1>7, Zenon DEF ForkFails
<1>10. k' \in State /\ k'.task = s.task /\ k'.pid = s.pid /\ k'.ns = N
  BY <1>8, <1>9, Zenon DEF State
<1>11. PICK a : a = s.pid[p]
  OBVIOUS
<1>12. /\ Slots(k, k', p, a) /\ a.st = "dead" /\ a.count = k.pid[p].count
       /\ a.tasks = k.pid[p].tasks
  BY <1>6, <1>10, <1>11 DEF Frees, Slots
<1>13. LinksIn(k')
  BY <1>1, <1>4, <1>12, SlotLinks
<1>14. k'.task = k.task /\ k'.pid[p] = a /\ \A q \in Pid \ {p} : k'.pid[q] = k.pid[q]
  BY <1>12 DEF Slots
<1>15. ForkIn(k', f)
  <2>1. f[t] = NULL /\ \A w \in Task \ {t} : f[w] = fork[w]
    BY <1>1, <1>3
  <2>2. \A w \in Task \ {t} : fork[w] # NULL => fork[w].pid \in Pid /\ fork[w].pid # p
    BY <1>1, <1>2 DEF ForkIn, ForkType, ForkFails
  <2> QED
    BY <1>1, <1>14, <2>1, <2>2 DEF ForkIn
<1>16. /\ a.count = Own(a) + Refs(p, opening, pidfd) /\ a.count > 0
       /\ \A q \in Pid \ {p} : k.pid[q].count = Own(k.pid[q]) + Refs(q, opening, pidfd)
  BY <1>1, <1>4, <1>12 DEF RefsIn, Own, SlotInv
<1>17. Rest(k', f, opening, pidfd)
  BY <1>1, <1>12, <1>15, <1>16, SlotRest
<1>18. ForkFailed(t, s.ns)
  <2>1. SamePids(k.pid, k'.pid)
    BY <1>4, <1>6, <1>10 DEF Frees, SamePids
  <2>2. s.ns \in [Ns -> NsType]
    BY <1>8, StateFields
  <2> QED
    BY <1>3, <1>4, <1>6, <1>7, <1>10, <1>14, <2>1, <2>2 DEF ForkFailed, ForkFails, Frees
<1> QED
  BY <1>1, <1>4, <1>13, <1>14, <1>17, <1>18 DEF Good

(* A task put on the list of a struct pid that was never used.             *)
LEMMA FirstLinkRest ==
  ASSUME NEW s, NEW f, NEW o, NEW F, Rest(s, f, o, F), NEW t \in Task,
         f[t] # NULL, NEW c, NEW ty,
         NEW x, Links(s, x, f[t].pid, c, ty), NEW g, g = [f EXCEPT ![t] = NULL]
  PROVE  Rest(x, g, o, F)
<1>1. /\ f \in [Task -> ForkType \cup {NULL}] /\ s \in State
      /\ SlotInv(s.pid) /\ RefsIn(s.pid, o, F) /\ ForkIn(s, f)
  BY DEF Rest
<1>2. PICK p \in Pid : p = f[t].pid
  BY <1>1 DEF ForkType
<1>3. s.pid[p].st = "new"
  BY <1>1, <1>2 DEF ForkIn
<1>4. /\ x \in State /\ x.task = s.task
      /\ x.pid[p].st = "live" /\ x.pid[p].count = s.pid[p].count
      /\ \A q \in Pid \ {p} : x.pid[q] = s.pid[q]
  BY <1>2 DEF Links
<1>5. SlotInv(x.pid)
  BY <1>1, <1>3, <1>4 DEF SlotInv
<1>6. RefsIn(x.pid, o, F)
  BY <1>1, <1>3, <1>4 DEF RefsIn, Own
<1>7. g \in [Task -> ForkType \cup {NULL}] /\ g[t] = NULL
      /\ \A w \in Task \ {t} : g[w] = f[w]
  BY <1>1
<1>8. ForkIn(x, g)
  <2>1. \A w \in Task \ {t} : f[w] # NULL => f[w].pid \in Pid /\ f[w].pid # p
    BY <1>1, <1>2 DEF ForkIn, ForkType
  <2> QED
    BY <1>1, <1>4, <1>7, <2>1 DEF ForkIn
<1> QED
  BY <1>4, <1>5, <1>6, <1>7, <1>8 DEF Rest

(* Another task in a slot, with the namespaces N.                          *)
PutTask(s, c, w, N) == [s EXCEPT !.task = [s.task EXCEPT ![c] = w], !.ns = N]

(* A state with another task in one slot.                                  *)
LEMMA PutTaskIs ==
  ASSUME NEW s \in State, NEW c \in Task, NEW w \in TaskType,
         NEW N \in [Ns -> NsType], NEW x, x = PutTask(s, c, w, N)
  PROVE  /\ x \in State /\ x.pid = s.pid /\ x.ns = N /\ x.task[c] = w
         /\ \A u \in Task \ {c} : x.task[u] = s.task[u]
<1> DEFINE T == [s.task EXCEPT ![c] = w]
<1>1. s.task \in [Task -> TaskType]
  BY StateFields
<1>2. T \in [Task -> TaskType] /\ T[c] = w /\ \A u \in Task \ {c} : T[u] = s.task[u]
  BY <1>1
<1>3. x = [s EXCEPT !.task = T, !.ns = N]
  BY Zenon DEF PutTask
<1> HIDE DEF T
<1>4. x \in State /\ x.task = T /\ x.pid = s.pid /\ x.ns = N
  BY <1>2, <1>3, Zenon DEF State
<1> QED
  BY <1>2, <1>4

(* The first process of a namespace becomes its child_reaper.              *)
LEMMA ReaperType ==
  ASSUME NEW N \in [Ns -> NsType], NEW n, NEW b \in BOOLEAN,
         NEW M, M = [N EXCEPT ![n].child_reaper = b]
  PROVE  M \in [Ns -> NsType] /\ NsSame(N, M)
<1>1. CASE n \in Ns
  <2>1. N[n] \in NsType
    BY <1>1
  <2>2. PICK r : r = [N[n] EXCEPT !.child_reaper = b]
    OBVIOUS
  <2>3. r \in NsType /\ r.st = N[n].st /\ r.level = N[n].level /\ r.path = N[n].path
        /\ r.kref = N[n].kref
    BY <2>1, <2>2, Zenon DEF NsType
  <2>4. M = [N EXCEPT ![n] = r]
    BY <2>2
  <2>5. M \in [Ns -> NsType]
    BY <2>3, <2>4
  <2> QED
    BY <1>1, <2>3, <2>4, <2>5 DEF NsSame
<1>2. CASE n \notin Ns
  <2>1. M = N
    BY <1>2
  <2> QED
    BY <2>1 DEF NsSame
<1> QED
  BY <1>1, <1>2

(* Kept, if no struct pid changes.                                         *)
LEMMA KeptSame ==
  ASSUME NEW s, NEW x, x.pid = s.pid
  PROVE  Kept(s, x)
BY DEF Kept

(* A task of its own group put on one more list.                           *)
AttachDone(s, f, o, F, c, Z, x) ==
  /\ Rest(x, f, o, F) /\ LinksBut(x, c, Z) /\ Kept(s, x)
  /\ x.task = s.task /\ x.ns = s.ns

(* One call of attach_pid() in copy_process().                             *)
LEMMA AttachStep ==
  ASSUME NEW s, NEW f, NEW o, NEW F, Rest(s, f, o, F), NEW c \in Task, NEW Y,
         NEW Z,
         NEW ty \in PidType, LinksBut(s, c, Y), NEW p \in Pid,
         Belongs(s, c, ty, p), s.task[c].leader = c,
         s.pid[p].st \in {"live", "dead"}, NEW x, x = attach_pid(s, c, ty),
         Z = Y \ {ty}
  PROVE  AttachDone(s, f, o, F, c, Z, x)
<1>1. s \in State /\ ForkIn(s, f)
  BY DEF Rest
<1>2. p = task_pid_ptr(s, c, ty)
  BY DEF Belongs, PtrOf, task_pid_ptr
<1>3. Links(s, x, p, c, ty)
  BY <1>1, <1>2, AttachFacts
<1>4. x \in State /\ x.task = s.task /\ x.ns = s.ns
  BY <1>3 DEF Links
<1>5. Kept(s, x)
  BY <1>3, LinksKept
<1>6. \A t \in Task : f[t] # NULL => x.task[t].st = "live"
  BY <1>1, <1>4 DEF ForkIn
<1>7. Rest(x, f, o, F)
  BY <1>4, <1>5, <1>6, KeptRest
<1>8. LinksBut(x, c, Y \ {ty})
  BY <1>1, <1>3, AttachLinks
<1> QED
  BY <1>4, <1>5, <1>7, <1>8 DEF AttachDone

(* A new task has a leader, itself or that of its parent.                  *)
LEMMA BornTask ==
  ASSUME NEW T \in [Task -> TaskType], TaskInv(T), NEW c \in Task, T[c].st = "none",
         NEW X, \A u \in Task \ {c} : X[u] = T[u],
         X[c].st = "live", X[c].kids \in Ns, X[c].thread_pid \in Pid,
         \/ X[c].leader = c /\ \A ty \in SignalType : X[c].pids[ty] \in Pid
         \/ \E t \in Task : T[t].st # "none" /\ X[c].leader = T[t].leader
  PROVE  TaskInv(X)
<1> SUFFICES ASSUME NEW u \in Task
             PROVE  /\ X[u].st = "none" => X[u] = NoTask
                    /\ X[u].st = "live" <=> X[u].kids \in Ns
                    /\ X[u].st # "none" =>
                         /\ X[u].thread_pid \in Pid
                         /\ X[u].leader \in Task
                         /\ X[X[u].leader].st # "none"
                         /\ X[X[u].leader].leader = X[u].leader
                         /\ \A ty \in SignalType : X[X[u].leader].pids[ty] \in Pid
  BY DEF TaskInv
<1>1. ASSUME NEW v \in Task, T[v].st # "none"
      PROVE  LET l == T[v].leader IN
             /\ l \in Task /\ l # c
             /\ T[l].st # "none" /\ T[l].leader = l
             /\ \A ty \in SignalType : T[l].pids[ty] \in Pid
  BY <1>1 DEF TaskInv
<1>2. CASE u # c
  <2>1. X[u] = T[u]
    BY <1>2
  <2>2. CASE T[u].st = "none"
    BY <2>1, <2>2 DEF TaskInv
  <2>3. CASE T[u].st # "none"
    <3>1. X[T[u].leader] = T[T[u].leader]
      BY <1>1, <2>3
    <3> QED
      BY <1>1, <2>1, <2>3, <3>1 DEF TaskInv
  <2> QED
    BY <2>2, <2>3
<1>3. CASE u = c
  <2>1. CASE X[c].leader = c /\ \A ty \in SignalType : X[c].pids[ty] \in Pid
    BY <1>3, <2>1
  <2>2. ASSUME NEW t \in Task, T[t].st # "none", X[c].leader = T[t].leader
        PROVE  /\ X[c].leader \in Task
               /\ X[X[c].leader].st # "none"
               /\ X[X[c].leader].leader = X[c].leader
               /\ \A ty \in SignalType : X[X[c].leader].pids[ty] \in Pid
    <3>1. X[T[t].leader] = T[T[t].leader]
      BY <1>1, <2>2
    <3> QED
      BY <1>1, <2>2, <3>1
  <2> QED
    BY <1>3, <2>1, <2>2
<1> QED
  BY <1>2, <1>3

(* A new task is missing on every list.                                    *)
LEMMA BornLinks ==
  ASSUME NEW s \in State, TaskInv(s.task), LinksIn(s), NEW c \in Task,
         s.task[c].st = "none", NEW x \in State, x.pid = s.pid,
         \A u \in Task \ {c} : x.task[u] = s.task[u]
  PROVE  LinksBut(x, c, PidType)
<1>1. LinksBut(s, c, {})
  BY LinksAre
<1>2. ASSUME NEW p \in Pid, NEW ty \in PidType, NEW u \in Task
      PROVE  u \in x.pid[p].tasks[ty] <=>
               Belongs(x, u, ty, p) /\ ~(u = c /\ ty \in PidType)
  <2>1. u \in s.pid[p].tasks[ty] <=> Belongs(s, u, ty, p)
    BY <1>1 DEF LinksBut
  <2>2. CASE u = c
    BY <2>1, <2>2 DEF Belongs
  <2>3. CASE u # c
    BY <2>1, <2>3 DEF Belongs
  <2> QED
    BY <2>2, <2>3
<1>3. ASSUME NEW p \in Pid
      PROVE  x.pid[p].st = "live" <=>
               \E ty \in PidType, u \in Task : u \in x.pid[p].tasks[ty]
  BY <1>1 DEF LinksBut
<1> QED
  BY <1>2, <1>3 DEF LinksBut

(* A child c that has what the fork held.                                  *)
Born(t, c) ==
  /\ fork[t] # NULL /\ fork' = [fork EXCEPT ![t] = NULL]
  /\ SamePids(k.pid, k'.pid) /\ NsSame(k.ns, k'.ns)
  /\ k.task[c].st = "none" /\ k'.task[c].st = "live"
  /\ k'.task[c].thread_pid = fork[t].pid /\ k'.task[c].kids = fork[t].kids
  /\ k'.task[c].leader = IF fork[t].thread THEN k.task[t].leader ELSE c
  /\ \A u \in Task \ {c} : k'.task[u] = k.task[u]

(* The second half of copy_process(): the new task is attached to its      *)
(* struct pid and to those of its group and session.                       *)
LEMMA ForkAttachGood ==
  ASSUME Good(k, fork, opening, pidfd), NEW t \in Task, NEW c \in Task,
         ForkAttach(t, c)
  PROVE  /\ Good(k', fork', opening', pidfd')
         /\ Born(t, c)
<1>1. /\ k \in State /\ fork \in [Task -> ForkType \cup {NULL}]
      /\ opening \in [Task -> Pid \cup {NULL}] /\ pidfd \subseteq Pid
      /\ SlotInv(k.pid) /\ RefsIn(k.pid, opening, pidfd) /\ ForkIn(k, fork)
      /\ TaskInv(k.task) /\ LinksIn(k)
  BY GoodRest
<1>2. PICK f \in ForkType : f = fork[t]
  BY <1>1 DEF ForkAttach
<1>3. /\ f.pid \in Pid /\ f.kids \in Ns /\ f.thread \in BOOLEAN
      /\ f # NULL
  BY <1>2, NullIsNone DEF ForkType
<1>4. PICK l \in Task : l = k.task[t].leader
  BY <1>1, <1>2, <1>3 DEF ForkIn, TaskInv
<1>5. /\ k.task[t].st = "live" /\ k.task[l].st # "none" /\ k.task[l].leader = l
      /\ \A ty \in SignalType : k.task[l].pids[ty] \in Pid
      /\ k.pid[f.pid].st = "new" /\ k.task[c].st = "none" /\ l # c
  <2>1. k.task[t].st = "live" /\ k.pid[f.pid].st = "new" /\ k.task[c].st = "none"
    BY <1>1, <1>2, <1>3 DEF ForkIn, ForkAttach
  <2>2. /\ k.task[l].st # "none" /\ k.task[l].leader = l
        /\ \A ty \in SignalType : k.task[l].pids[ty] \in Pid
    BY <1>1, <1>4, <2>1 DEF TaskInv
  <2> QED
    BY <2>1, <2>2
<1> DEFINE pids == IF f.thread THEN NoTask.pids
                   ELSE [ty \in SignalType |->
                           IF ty = "TGID" THEN f.pid ELSE task_pid_ptr(k, t, ty)]
<1>6. /\ pids \in [SignalType -> Pid \cup {NULL}]
      /\ ~f.thread => \A ty \in SignalType :
                        /\ pids[ty] = IF ty = "TGID" THEN f.pid ELSE k.task[l].pids[ty]
                        /\ pids[ty] \in Pid
  <2>1. \A ty \in SignalType : task_pid_ptr(k, t, ty) = k.task[l].pids[ty]
    BY <1>4 DEF task_pid_ptr, SignalType
  <2>2. NoTask.pids \in [SignalType -> Pid \cup {NULL}]
    BY DEF NoTask
  <2> QED
    BY <1>3, <1>5, <2>1, <2>2
<1>7. PICK P : P = pids
  OBVIOUS
<1> HIDE DEF pids
<1>8. PICK L : L = IF f.thread THEN l ELSE c
  OBVIOUS
<1>9. PICK w : w = [st |-> "live", thread_pid |-> f.pid, kids |-> f.kids,
                    leader |-> L, pids |-> P]
  OBVIOUS
<1>10. /\ w \in TaskType /\ w.st = "live" /\ w.thread_pid = f.pid
       /\ w.kids = f.kids /\ w.leader = L /\ w.pids = P
  <2>1. L \in Task /\ P \in [SignalType -> Pid \cup {NULL}]
    BY <1>6, <1>7, <1>8
  <2> QED
    BY <1>3, <1>9, <2>1 DEF TaskType
<1>11. PICK n : n = ns_of_pid(f.pid)
  OBVIOUS
<1>12. PICK b : b = (k.ns[n].child_reaper \/ k.ns[n].first = f.pid)
  OBVIOUS
<1>13. PICK N : N = [k.ns EXCEPT ![n].child_reaper = b]
  OBVIOUS
<1>14. N \in [Ns -> NsType] /\ NsSame(k.ns, N)
  <2>1. b \in BOOLEAN
    BY <1>12
  <2> QED
    BY <1>1, <1>13, <2>1, ReaperType, StateFields
<1>15. PICK m : m = PutTask(k, c, w, N)
  OBVIOUS
<1>16. /\ m \in State /\ m.pid = k.pid /\ m.ns = N /\ m.task[c] = w
       /\ \A u \in Task \ {c} : m.task[u] = k.task[u]
  BY <1>1, <1>10, <1>14, <1>15, PutTaskIs
<1>17. PICK x : x = attach_pid(m, c, "PID")
  OBVIOUS
<1>18. k' = IF f.thread THEN x
            ELSE attach_pid(attach_pid(attach_pid(x, c, "TGID"), c, "PGID"), c, "SID")
  <2>1. m = [k EXCEPT !.task[c] = w, !.ns[n].child_reaper = @ \/ k.ns[n].first = f.pid]
    <3>1. m = [k EXCEPT !.task[c] = w, !.ns[n].child_reaper = b]
      BY <1>13, <1>15, Zenon DEF PutTask
    <3> QED
      BY <3>1, <1>12, Zenon
  <2>2. w = [st |-> "live", thread_pid |-> fork[t].pid, kids |-> fork[t].kids,
             leader |-> IF fork[t].thread THEN k.task[t].leader ELSE c,
             pids |-> IF fork[t].thread THEN NoTask.pids
                      ELSE [ty \in SignalType |->
                              IF ty = "TGID" THEN fork[t].pid
                              ELSE task_pid_ptr(k, t, ty)]]
    BY <1>2, <1>4, <1>7, <1>8, <1>9, Zenon DEF pids
  <2> DEFINE W == [st |-> "live", thread_pid |-> fork[t].pid, kids |-> fork[t].kids,
             leader |-> IF fork[t].thread THEN k.task[t].leader ELSE c,
             pids |-> IF fork[t].thread THEN NoTask.pids
                      ELSE [ty \in SignalType |->
                              IF ty = "TGID" THEN fork[t].pid
                              ELSE task_pid_ptr(k, t, ty)]]
             M == [k EXCEPT !.task[c] = W, !.ns[ns_of_pid(fork[t].pid)].child_reaper
                             = @ \/ k.ns[ns_of_pid(fork[t].pid)].first = fork[t].pid]
             A == attach_pid(M, c, "PID")
  <2>3. k' = IF fork[t].thread THEN A
             ELSE attach_pid(attach_pid(attach_pid(A, c, "TGID"), c, "PGID"), c, "SID")
    BY DEF ForkAttach
  <2>4. M = m
    BY <2>1, <2>2, <1>2, <1>11, Zenon
  <2>5. A = x
    BY <2>4, <1>17
  <2> HIDE DEF A
  <2> QED
    BY <1>2, <2>3, <2>5, Zenon
<1>19. Rest(m, fork, opening, pidfd)
  <2>1. Rest(k, fork, opening, pidfd)
    BY DEF Good
  <2>2. \A u \in Task : fork[u] # NULL => m.task[u].st = "live"
    BY <1>1, <1>5, <1>16 DEF ForkIn
  <2> QED
    BY <1>16, <2>1, <2>2, KeptSame, KeptRest
<1>20. LinksBut(m, c, PidType)
  BY <1>1, <1>5, <1>16, BornLinks
<1>21. TaskInv(m.task)
  <2>1. k.task \in [Task -> TaskType]
    BY <1>1, StateFields
  <2>2. CASE f.thread
    <3>1. m.task[c].leader = k.task[t].leader
      BY <1>4, <1>8, <1>10, <1>16, <2>2
    <3> QED
      BY <1>1, <1>3, <1>5, <1>10, <1>16, <2>1, <3>1, BornTask
  <2>3. CASE ~f.thread
    <3>1. m.task[c].leader = c /\ \A ty \in SignalType : m.task[c].pids[ty] \in Pid
      BY <1>6, <1>7, <1>8, <1>10, <1>16, <2>3
    <3> QED
      BY <1>1, <1>3, <1>5, <1>10, <1>16, <2>1, <3>1, BornTask
  <2> QED
    BY <2>2, <2>3
<1>22. PICK g : g = [fork EXCEPT ![t] = NULL]
  OBVIOUS
<1>23. fork' = g /\ opening' = opening /\ pidfd' = pidfd
  BY <1>22 DEF ForkAttach
<1>24. Belongs(m, c, "PID", f.pid)
  BY <1>10, <1>16 DEF Belongs, PtrOf
<1>25. Links(m, x, f.pid, c, "PID")
  <2>1. f.pid = task_pid_ptr(m, c, "PID") /\ "PID" \in PidType
    BY <1>10, <1>16 DEF task_pid_ptr, PidType
  <2> QED
    BY <1>3, <1>16, <1>17, <2>1, AttachFacts
<1>26. /\ x \in State /\ x.task = m.task /\ x.pid[f.pid].st = "live"
       /\ \A q \in Pid \ {f.pid} : x.pid[q] = m.pid[q]
  BY <1>3, <1>25 DEF Links
<1>27. Rest(x, g, opening, pidfd)
  BY <1>2, <1>3, <1>19, <1>22, <1>25, FirstLinkRest
<1>28. LinksBut(x, c, PidType \ {"PID"})
  <2>1. "PID" \in PidType
    BY DEF PidType
  <2> QED
    BY <1>3, <1>16, <1>20, <1>24, <1>25, <2>1, AttachLinks
<1>40. SamePids(k.pid, x.pid) /\ NsSame(k.ns, x.ns)
  BY <1>3, <1>5, <1>14, <1>16, <1>25 DEF Links, SamePids
<1>41. ASSUME SamePids(x.pid, k'.pid), NsSame(x.ns, k'.ns), k'.task = m.task
       PROVE  Born(t, c)
  <2>1. SamePids(k.pid, k'.pid) /\ NsSame(k.ns, k'.ns)
    BY <1>40, <1>41, NsSameTrans DEF SamePids
  <2> QED
    BY <1>2, <1>3, <1>4, <1>5, <1>8, <1>10, <1>16, <1>22, <1>23, <1>41, <2>1 DEF Born
<1>29. CASE f.thread
  <2>1. k' = x
    BY <1>18, <1>29
  <2>2. x.task[c].leader # c
    BY <1>5, <1>8, <1>10, <1>16, <1>26, <1>29
  <2>3. LinksBut(x, c, {})
    <3>1. ASSUME NEW p \in Pid, NEW ty \in PidType, NEW u \in Task
          PROVE  u \in x.pid[p].tasks[ty] <=> Belongs(x, u, ty, p)
      BY <1>28, <2>2 DEF LinksBut, Belongs
    <3> QED
      BY <1>28, <3>1 DEF LinksBut
  <2>4. LinksIn(x)
    BY <1>26, <2>3, LinksAre
  <2>5. Born(t, c)
    BY <1>26, <1>41, <2>1 DEF SamePids, NsSame
  <2> QED
    BY <1>21, <1>23, <1>26, <1>27, <2>1, <2>4, <2>5 DEF Good
<1>30. CASE ~f.thread
  <2>1. PICK y : y = attach_pid(x, c, "TGID")
    OBVIOUS
  <2>2. PICK z : z = attach_pid(y, c, "PGID")
    OBVIOUS
  <2>3. k' = attach_pid(z, c, "SID")
    BY <1>18, <1>30, <2>1, <2>2
  <2>4. /\ "TGID" \in SignalType /\ "PGID" \in SignalType /\ "SID" \in SignalType
        /\ SignalType \subseteq PidType
    BY DEF SignalType, PidType
  <2>5. /\ x.task[c].st = "live" /\ x.task[c].leader = c
        /\ \A ty \in SignalType :
             PtrOf(x.task[c], ty) = IF ty = "TGID" THEN f.pid ELSE k.task[l].pids[ty]
    BY <1>6, <1>7, <1>8, <1>10, <1>16, <1>26, <1>30 DEF PtrOf, SignalType
  <2>6. PICK pg \in Pid : pg = k.task[l].pids["PGID"]
    BY <1>5, <2>4
  <2>7. PICK sid \in Pid : sid = k.task[l].pids["SID"]
    BY <1>5, <2>4
  <2>8. k.pid[pg].st = "live" /\ k.pid[sid].st = "live"
    <3>1. LinksBut(k, l, {})
      BY <1>1, LinksAre
    <3>2. Belongs(k, l, "PGID", pg) /\ Belongs(k, l, "SID", sid)
      BY <1>5, <2>6, <2>7 DEF Belongs, PtrOf
    <3> QED
      BY <2>4, <3>1, <3>2 DEF LinksBut
  <2>9. x.pid[pg].st = "live" /\ x.pid[sid].st = "live"
    BY <1>16, <1>26, <2>8
  <2>17. PICK Y : Y = PidType \ {"PID"}
    OBVIOUS
  <2>18. PICK Z : Z = Y \ {"TGID"}
    OBVIOUS
  <2>19. PICK V : V = Z \ {"PGID"}
    OBVIOUS
  <2>20. PICK W : W = V \ {"SID"}
    OBVIOUS
  <2>21. LinksBut(x, c, Y)
    BY <1>28, <2>17
  <2>10. /\ Rest(y, g, opening, pidfd) /\ Kept(x, y) /\ y.task = x.task
         /\ y.ns = x.ns
         /\ LinksBut(y, c, Z)
    <3>1. Belongs(x, c, "TGID", f.pid)
      BY <2>4, <2>5 DEF Belongs
    <3>2. "TGID" \in PidType /\ x.task[c].leader = c
          /\ x.pid[f.pid].st \in {"live", "dead"}
      BY <1>26, <2>4, <2>5
    <3>3. AttachDone(x, g, opening, pidfd, c, Z, y)
      BY <1>3, <1>27, <2>1, <2>18, <2>21, <3>1, <3>2, AttachStep
    <3> QED
      BY <3>3 DEF AttachDone
  <2>11. y.pid[pg].st \in {"live", "dead"} /\ y.pid[sid].st \in {"live", "dead"}
    BY <2>9, <2>10 DEF Kept
  <2>12. /\ Rest(z, g, opening, pidfd) /\ Kept(y, z) /\ z.task = y.task
         /\ z.ns = y.ns
         /\ LinksBut(z, c, V)
    <3>1. Belongs(y, c, "PGID", pg) /\ y.task[c].leader = c
      BY <2>4, <2>5, <2>6, <2>10 DEF Belongs
    <3>2. "PGID" \in PidType /\ y.pid[pg].st \in {"live", "dead"}
          /\ Rest(y, g, opening, pidfd) /\ LinksBut(y, c, Z)
      BY <2>4, <2>10, <2>11
    <3>3. AttachDone(y, g, opening, pidfd, c, V, z)
      BY <2>2, <2>19, <3>1, <3>2, AttachStep
    <3> QED
      BY <3>3 DEF AttachDone
  <2>13. z.pid[sid].st \in {"live", "dead"}
    BY <2>11, <2>12 DEF Kept
  <2>14. /\ Rest(k', g, opening, pidfd) /\ Kept(z, k') /\ k'.task = z.task
         /\ k'.ns = z.ns
         /\ LinksBut(k', c, W)
    <3>1. Belongs(z, c, "SID", sid) /\ z.task[c].leader = c
      BY <2>4, <2>5, <2>7, <2>10, <2>12 DEF Belongs
    <3>2. AttachDone(z, g, opening, pidfd, c, W, k')
      BY <2>3, <2>4, <2>12, <2>13, <2>20, <3>1, AttachStep
    <3> QED
      BY <3>2 DEF AttachDone
  <2>15. W = {}
    BY <2>17, <2>18, <2>19, <2>20 DEF PidType
  <2>16. LinksIn(k')
    <3>1. LinksBut(k', c, {})
      BY <2>14, <2>15
    <3>2. k' \in State
      BY <2>14 DEF Rest
    <3> QED
      BY <3>1, <3>2, LinksAre
  <2>22. Born(t, c)
    <3>1. SamePids(x.pid, y.pid) /\ SamePids(y.pid, z.pid) /\ SamePids(z.pid, k'.pid)
      BY <2>10, <2>12, <2>14, KeptPids
    <3>2. SamePids(x.pid, k'.pid)
      BY <3>1 DEF SamePids
    <3>3. NsSame(x.ns, k'.ns)
      BY <2>10, <2>12, <2>14 DEF NsSame
    <3> QED
      BY <1>26, <1>41, <2>10, <2>12, <2>14, <3>2, <3>3
  <2> QED
    BY <1>21, <1>23, <1>26, <2>10, <2>12, <2>14, <2>16, <2>22 DEF Good
<1> QED
  BY <1>29, <1>30

-----------------------------------------------------------------------------
(* exec, setsid and setpgid                                                *)

(* Good depends on Kept, the tasks and the lists.                          *)
LEMMA KeptGood ==
  ASSUME NEW s, NEW f, NEW o, NEW F, Good(s, f, o, F), NEW x \in State,
         Kept(s, x), TaskInv(x.task), LinksIn(x),
         \A t \in Task : f[t] # NULL => x.task[t].st = "live"
  PROVE  Good(x, f, o, F)
BY KeptRest DEF Good

(* The pointers of a task that are its own.                                *)
LEMMA OwnPtr ==
  ASSUME NEW T, TaskInv(T), NEW t \in Task, T[t].st # "none", NEW ty \in PidType,
         ty # "PID" => T[t].leader = t
  PROVE  PtrOf(T[t], ty) \in Pid
BY DEF TaskInv, PtrOf, SignalType

(* TaskInv, when one pointer is set to a struct pid.                       *)
LEMMA ChangedTask ==
  ASSUME NEW T, TaskInv(T), NEW t \in Task, T[t].st # "none",
         NEW ty \in PidType, NEW p \in Pid,
         NEW X, Points(T[t], X[t], ty, p), \A u \in Task \ {t} : X[u] = T[u]
  PROVE  TaskInv(X)
<1>1. /\ X[t].st = T[t].st /\ X[t].leader = T[t].leader /\ X[t].kids = T[t].kids
      /\ \A y \in PidType : PtrOf(X[t], y) = IF y = ty THEN p ELSE PtrOf(T[t], y)
  BY DEF Points
<1>2. /\ X[t].thread_pid = IF ty = "PID" THEN p ELSE T[t].thread_pid
      /\ \A y \in SignalType : X[t].pids[y] = IF y = ty THEN p ELSE T[t].pids[y]
  BY <1>1 DEF PtrOf, PidType, SignalType
<1>3. ASSUME NEW u \in Task
      PROVE  /\ X[u].st = T[u].st /\ X[u].leader = T[u].leader /\ X[u].kids = T[u].kids
             /\ T[u].thread_pid \in Pid => X[u].thread_pid \in Pid
             /\ \A y \in SignalType : T[u].pids[y] \in Pid => X[u].pids[y] \in Pid
  BY <1>1, <1>2
<1> SUFFICES ASSUME NEW u \in Task
             PROVE  /\ X[u].st = "none" => X[u] = NoTask
                    /\ X[u].st = "live" <=> X[u].kids \in Ns
                    /\ X[u].st # "none" =>
                         /\ X[u].thread_pid \in Pid
                         /\ X[u].leader \in Task
                         /\ X[X[u].leader].st # "none"
                         /\ X[X[u].leader].leader = X[u].leader
                         /\ \A y \in SignalType : X[X[u].leader].pids[y] \in Pid
  BY DEF TaskInv
<1>4. X[u].st = "none" => X[u] = NoTask
  BY <1>1 DEF TaskInv
<1>5. X[u].st = "live" <=> X[u].kids \in Ns
  BY <1>3 DEF TaskInv
<1>6. ASSUME X[u].st # "none"
      PROVE  /\ X[u].thread_pid \in Pid
             /\ X[u].leader \in Task
             /\ X[X[u].leader].st # "none"
             /\ X[X[u].leader].leader = X[u].leader
             /\ \A y \in SignalType : X[X[u].leader].pids[y] \in Pid
  <2>1. PICK l : l = T[u].leader
    OBVIOUS
  <2>2. /\ l \in Task /\ T[u].thread_pid \in Pid /\ T[l].st # "none" /\ T[l].leader = l
        /\ \A y \in SignalType : T[l].pids[y] \in Pid
    BY <1>3, <1>6, <2>1 DEF TaskInv
  <2>3. X[u].leader = l
    BY <1>3, <2>1
  <2> QED
    BY <1>3, <2>2, <2>3
<1> QED
  BY <1>4, <1>5, <1>6

(* change_pid() to a struct pid in use keeps Good.                         *)
LEMMA ChangeGood ==
  ASSUME NEW s, NEW f, NEW o, NEW F, Good(s, f, o, F), NEW t \in Task,
         NEW ty \in PidType, ty # "PID" => s.task[t].leader = t,
         s.task[t].st # "none", NEW new \in Pid, s.pid[new].st \in {"live", "dead"},
         NEW x, x = change_pid(s, t, ty, new)
  PROVE  Good(x, f, o, F) /\ Changes(s, x, t, ty, new)
<1>1. s \in State /\ TaskInv(s.task) /\ LinksIn(s) /\ ForkIn(s, f)
  BY GoodRest
<1>2. LinksBut(s, t, {})
  BY <1>1, LinksAre
<1>3. PtrOf(s.task[t], ty) \in Pid
  BY <1>1, OwnPtr
<1>4. Changes(s, x, t, ty, new) /\ LinksBut(x, t, {})
  BY <1>1, <1>2, <1>3, ChangePidFacts
<1>5. /\ x \in State /\ Kept(s, x) /\ Points(s.task[t], x.task[t], ty, new)
      /\ \A u \in Task \ {t} : x.task[u] = s.task[u]
  BY <1>4 DEF Changes
<1>6. LinksIn(x)
  BY <1>4, <1>5, LinksAre
<1>7. TaskInv(x.task)
  BY <1>1, <1>5, ChangedTask
<1>8. \A u \in Task : f[u] # NULL => x.task[u].st = "live"
  BY <1>1, <1>5 DEF ForkIn, Points
<1> QED
  BY <1>4, <1>5, <1>6, <1>7, <1>8, KeptGood

(* A struct pid that a task points to is in use.                           *)
LEMMA PointedLive ==
  ASSUME NEW s \in State, LinksIn(s), NEW t \in Task, NEW ty \in PidType,
         NEW p \in Pid, Belongs(s, t, ty, p)
  PROVE  s.pid[p].st = "live"
<1>1. LinksBut(s, t, {})
  BY LinksAre
<1> QED
  BY <1>1 DEF LinksBut

(* A pointer is changed if it differs.                                     *)
LEMMA IfOtherGood ==
  ASSUME NEW s, NEW f, NEW o, NEW F, Good(s, f, o, F), NEW t \in Task,
         NEW ty \in PidType, ty # "PID", s.task[t].leader = t,
         s.task[t].st # "none", NEW p \in Pid, s.pid[p].st \in {"live", "dead"},
         NEW x, x = ChangeIfOther(s, t, ty, p)
  PROVE  /\ Good(x, f, o, F) /\ Quiet(s, x)
         /\ x.task[t].leader = t /\ x.task[t].st # "none"
         /\ x.pid[p].st \in {"live", "dead"}
<1>1. CASE x = s
  BY <1>1 DEF Quiet, SamePids, NsSame
<1>2. CASE x = change_pid(s, t, ty, p)
  <2>1. Good(x, f, o, F) /\ Changes(s, x, t, ty, p)
    BY <1>2, ChangeGood
  <2>2. Kept(s, x) /\ Points(s.task[t], x.task[t], ty, p)
    BY <2>1 DEF Changes
  <2>3. Quiet(s, x)
    BY <2>1, ChangeQuiet
  <2> QED
    BY <2>1, <2>2, <2>3 DEF Kept, Points
<1> QED
  BY <1>1, <1>2 DEF ChangeIfOther

(* setsid() keeps Good.                                                    *)
LEMMA SetsidGood ==
  ASSUME Good(k, fork, opening, pidfd), NEW t \in Task, setsid(t)
  PROVE  /\ Good(k', fork', opening', pidfd')
         /\ Quiet(k, k')
<1>1. k \in State /\ TaskInv(k.task) /\ LinksIn(k)
  BY GoodRest
<1>2. k.task[t].st = "live"
  BY DEF setsid, Runs
<1>3. PICK l \in Task : l = k.task[t].leader
  BY <1>1, <1>2 DEF TaskInv
<1>4. /\ k.task[l].st # "none" /\ k.task[l].leader = l
      /\ k.task[l].thread_pid \in Pid
  BY <1>1, <1>2, <1>3 DEF TaskInv
<1>5. PICK sid \in Pid : sid = k.task[l].thread_pid
  BY <1>4
<1>6. k.pid[sid].st = "live"
  <2>1. Belongs(k, l, "PID", sid) /\ "PID" \in PidType
    BY <1>4, <1>5 DEF Belongs, PtrOf, PidType
  <2> QED
    BY <1>1, <2>1, PointedLive
<1>7. PICK s : s = ChangeIfOther(k, l, "SID", sid)
  OBVIOUS
<1>8. k' = ChangeIfOther(s, l, "PGID", sid)
  BY <1>3, <1>5, <1>7, Zenon DEF setsid
<1>9. "SID" \in PidType /\ "PGID" \in PidType
  BY DEF PidType
<1>10. /\ Good(s, fork, opening, pidfd) /\ Quiet(k, s)
       /\ s.task[l].leader = l /\ s.task[l].st # "none"
       /\ s.pid[sid].st \in {"live", "dead"}
  BY <1>4, <1>6, <1>7, <1>9, IfOtherGood
<1>11. Good(k', fork, opening, pidfd) /\ Quiet(s, k')
  BY <1>8, <1>9, <1>10, IfOtherGood
<1> QED
  BY <1>10, <1>11, QuietTrans DEF setsid

(* setpgid() keeps Good.                                                   *)
LEMMA SetpgidGood ==
  ASSUME Good(k, fork, opening, pidfd), NEW t \in Task, NEW p \in Pid,
         setpgid(t, p)
  PROVE  /\ Good(k', fork', opening', pidfd')
         /\ Quiet(k, k')
<1>1. k \in State /\ TaskInv(k.task) /\ LinksIn(k)
  BY GoodRest
<1>2. k.task[t].st = "live"
  BY DEF setpgid, Runs
<1>3. PICK l \in Task : l = k.task[t].leader
  BY <1>1, <1>2 DEF TaskInv
<1>4. /\ k.task[l].st # "none" /\ k.task[l].leader = l
      /\ k.task[l].thread_pid \in Pid
  BY <1>1, <1>2, <1>3 DEF TaskInv
<1>5. "PID" \in PidType /\ "PGID" \in PidType
  BY DEF PidType
<1>6. k.pid[p].st = "live"
  <2>1. CASE p = k.task[l].thread_pid
    <3>1. Belongs(k, l, "PID", p)
      BY <1>4, <2>1 DEF Belongs, PtrOf
    <3> QED
      BY <1>1, <1>5, <3>1, PointedLive
  <2>2. CASE k.pid[p].tasks["PGID"] # {}
    BY <1>1, <1>5, <2>2, EmptyLists
  <2> QED
    BY <1>3, <2>1, <2>2 DEF setpgid
<1>7. k' = change_pid(k, l, "PGID", p)
  BY <1>3 DEF setpgid
<1>8. Good(k', fork, opening, pidfd) /\ Changes(k, k', l, "PGID", p)
  BY <1>4, <1>5, <1>6, <1>7, ChangeGood
<1> QED
  BY <1>5, <1>8, ChangeQuiet DEF setpgid

(* exec makes the thread the leader of its group.                          *)
LEMMA LeadsIs ==
  ASSUME NEW T \in [Task -> TaskType], NEW t \in Task, NEW old \in Task, old # t,
         NEW X, X = Leads(T, t, old)
  PROVE  /\ X \in [Task -> TaskType]
         /\ \A u \in Task \ {t, old} : X[u] = T[u]
         /\ X[t].st = T[t].st /\ X[t].leader = t /\ X[t].kids = T[t].kids
         /\ X[t].thread_pid = T[t].thread_pid /\ X[t].pids = T[old].pids
         /\ X[old].st = T[old].st /\ X[old].leader = t /\ X[old].kids = T[old].kids
         /\ X[old].thread_pid = T[old].thread_pid
<1>1. T[t] \in TaskType /\ T[old] \in TaskType
  OBVIOUS
<1>2. NoTask.pids \in [SignalType -> Pid \cup {NULL}]
  BY DEF NoTask
<1>3. T[old].pids \in [SignalType -> Pid \cup {NULL}]
  BY <1>1, TaskFields
<1>4. ASSUME NEW r \in TaskType, NEW f \in [SignalType -> Pid \cup {NULL}],
             NEW a, a = [r EXCEPT !.leader = t, !.pids = f]
      PROVE  /\ a \in TaskType /\ a.st = r.st /\ a.leader = t /\ a.kids = r.kids
             /\ a.thread_pid = r.thread_pid /\ a.pids = f
  BY <1>4, Zenon DEF TaskType
<1>5. PICK a : a = [T[t] EXCEPT !.leader = t, !.pids = T[old].pids]
  OBVIOUS
<1>6. PICK b : b = [T[old] EXCEPT !.leader = t, !.pids = NoTask.pids]
  OBVIOUS
<1>7. /\ a \in TaskType /\ a.st = T[t].st /\ a.leader = t /\ a.kids = T[t].kids
      /\ a.thread_pid = T[t].thread_pid /\ a.pids = T[old].pids
  BY <1>1, <1>3, <1>5, Zenon DEF TaskType
<1>8. /\ b \in TaskType /\ b.st = T[old].st /\ b.leader = t /\ b.kids = T[old].kids
      /\ b.thread_pid = T[old].thread_pid
  BY <1>1, <1>2, <1>6, Zenon DEF TaskType
<1>9. X = [T EXCEPT ![t] = a, ![old] = b]
  BY <1>5, <1>6 DEF Leads
<1>10. X \in [Task -> TaskType] /\ X[t] = a /\ X[old] = b
       /\ \A u \in Task \ {t, old} : X[u] = T[u]
  BY <1>7, <1>8, <1>9
<1> QED
  BY <1>7, <1>8, <1>10

(* t leads, and has the struct pid of the dead leader, old.                *)
Takes(s, x, t, old) ==
  /\ SamePids(s.pid, x.pid) /\ NsSame(s.ns, x.ns)
  /\ s.task[t].leader = old /\ old \in Task /\ old # t
  /\ s.task[old].st = "zombie" /\ s.task[t].st = "live"
  /\ \A u \in Task : x.task[u].st = s.task[u].st /\ x.task[u].kids = s.task[u].kids
  /\ \A u \in Task \ {t, old} : x.task[u] = s.task[u]
  /\ \A u \in {t, old} : /\ x.task[u].leader = t
                         /\ x.task[u].thread_pid = s.task[old].thread_pid

(* de_thread(): the thread takes the struct pid and the lists of the old   *)
(* leader, which is released.                                              *)
LEMMA DeThreadGood ==
  ASSUME Good(k, fork, opening, pidfd), NEW t \in Task, de_thread(t)
  PROVE  /\ Good(k', fork', opening', pidfd')
         /\ \E old : Takes(k, k', t, old)
<1>1. /\ k \in State /\ TaskInv(k.task) /\ LinksIn(k)
      /\ fork \in [Task -> ForkType \cup {NULL}] /\ ForkIn(k, fork)
  BY GoodRest
<1>2. k.task[t].st = "live" /\ fork[t] = NULL
  BY DEF de_thread, Runs, Busy
<1>3. PICK old \in Task : old = k.task[t].leader
  BY <1>1, <1>2 DEF TaskInv
<1>4. /\ k.task[old].st = "zombie" /\ old # t
      /\ \A u \in Task : k.task[u].leader = old => u = old \/ u = t
  BY <1>3 DEF de_thread, Group
<1>5. /\ k.task[old].leader = old /\ k.task[old].thread_pid \in Pid
      /\ \A ty \in SignalType : k.task[old].pids[ty] \in Pid
  BY <1>1, <1>2, <1>3 DEF TaskInv
<1>6. /\ "PID" \in PidType /\ "TGID" \in SignalType /\ "PGID" \in SignalType
      /\ "SID" \in SignalType /\ SignalType = {"TGID", "PGID", "SID"}
      /\ PidType = SignalType \cup {"PID"}
      /\ "PID" \notin SignalType
  BY DEF PidType, SignalType
<1>7. PICK new \in Pid : new = k.task[old].thread_pid
  BY <1>5
<1>8. k.pid[new].st = "live"
  <2>1. Belongs(k, old, "PID", new)
    BY <1>4, <1>7 DEF Belongs, PtrOf
  <2> QED
    BY <1>1, <1>6, <2>1, PointedLive
<1>9. PICK s : s = change_pid(k, t, "PID", new)
  OBVIOUS
<1>10. Good(s, fork, opening, pidfd) /\ Changes(k, s, t, "PID", new)
  BY <1>2, <1>6, <1>8, <1>9, ChangeGood
<1>11. /\ s \in State /\ LinksIn(s) /\ Kept(k, s)
       /\ \A u \in Task \ {t} : s.task[u] = k.task[u]
       /\ s.task[t].st = "live" /\ s.task[t].leader = old
       /\ s.task[t].kids = k.task[t].kids /\ s.task[t].thread_pid = new
  <2>1. s \in State /\ LinksIn(s)
    BY <1>10, GoodRest
  <2>2. /\ Kept(k, s) /\ Points(k.task[t], s.task[t], "PID", new)
        /\ \A u \in Task \ {t} : s.task[u] = k.task[u]
    BY <1>10 DEF Changes
  <2> QED
    BY <1>2, <1>3, <2>1, <2>2 DEF Points, PtrOf
<1>12. s.task[old] = k.task[old]
  BY <1>4, <1>11
<1>13. PICK P : P = k.task[old].pids
  OBVIOUS
<1>14. \A ty \in SignalType : P[ty] \in Pid /\ s.task[old].pids[ty] = P[ty]
  BY <1>5, <1>12, <1>13
<1>15. PICK x : x = transfer_pid(s, old, t, "TGID")
  OBVIOUS
<1>16. PICK y : y = transfer_pid(x, old, t, "PGID")
  OBVIOUS
<1>17. PICK z : z = transfer_pid(y, old, t, "SID")
  OBVIOUS
<1>18. k' = [z EXCEPT !.task = Leads(z.task, t, old)]
  BY <1>3, <1>7, <1>9, <1>15, <1>16, <1>17, Zenon DEF de_thread
<1>19. Transfers(s, x, P["TGID"], old, t, "TGID")
  BY <1>6, <1>11, <1>14, <1>15, TransferFacts
<1>20. x \in State /\ x.task = s.task
  BY <1>19 DEF Transfers
<1>21. Transfers(x, y, P["PGID"], old, t, "PGID")
  BY <1>6, <1>14, <1>16, <1>20, TransferFacts
<1>22. y \in State /\ y.task = s.task
  BY <1>20, <1>21 DEF Transfers
<1>23. Transfers(y, z, P["SID"], old, t, "SID")
  BY <1>6, <1>14, <1>17, <1>22, TransferFacts
<1>24. z \in State /\ z.task = s.task
  BY <1>22, <1>23 DEF Transfers
<1>25. \A ty \in SignalType : s.pid[P[ty]].st = "live"
  <2> SUFFICES ASSUME NEW ty \in SignalType PROVE s.pid[P[ty]].st = "live"
    OBVIOUS
  <2>1. Belongs(s, old, ty, P[ty]) /\ ty \in PidType
    BY <1>4, <1>5, <1>6, <1>12, <1>14 DEF Belongs, PtrOf
  <2> QED
    BY <1>11, <1>14, <2>1, PointedLive
<1>26. ASSUME NEW q \in Pid
       PROVE  /\ z.pid[q].count = s.pid[q].count
              /\ z.pid[q].level = s.pid[q].level
              /\ z.pid[q].numbers = s.pid[q].numbers
              /\ z.pid[q].st = s.pid[q].st
              /\ z.pid[q] = s.pid[q] \/ s.pid[q].st = "live"
              /\ \A ty \in PidType, u \in Task :
                   u \in z.pid[q].tasks[ty] <=>
                     IF ty = "PID" THEN u \in s.pid[q].tasks[ty]
                     ELSE \/ u \in s.pid[q].tasks[ty] /\ ~(u = old /\ q = P[ty])
                          \/ u = t /\ q = P[ty]
  <2>1. /\ z.pid[q].count = s.pid[q].count
        /\ z.pid[q].level = s.pid[q].level
        /\ z.pid[q].numbers = s.pid[q].numbers
        /\ z.pid[q].st = s.pid[q].st
    BY <1>6, <1>19, <1>21, <1>23, <1>25 DEF Transfers
  <2>2. z.pid[q] = s.pid[q] \/ s.pid[q].st = "live"
    BY <1>6, <1>19, <1>21, <1>23, <1>25 DEF Transfers
  <2>3. ASSUME NEW ty \in PidType, NEW u \in Task
        PROVE  u \in z.pid[q].tasks[ty] <=>
                 IF ty = "PID" THEN u \in s.pid[q].tasks[ty]
                 ELSE \/ u \in s.pid[q].tasks[ty] /\ ~(u = old /\ q = P[ty])
                      \/ u = t /\ q = P[ty]
    <3>1. /\ u \in x.pid[q].tasks[ty] <=>
               \/ u \in s.pid[q].tasks[ty] /\ ~(u = old /\ ty = "TGID" /\ q = P["TGID"])
               \/ u = t /\ ty = "TGID" /\ q = P["TGID"]
          /\ u \in y.pid[q].tasks[ty] <=>
               \/ u \in x.pid[q].tasks[ty] /\ ~(u = old /\ ty = "PGID" /\ q = P["PGID"])
               \/ u = t /\ ty = "PGID" /\ q = P["PGID"]
          /\ u \in z.pid[q].tasks[ty] <=>
               \/ u \in y.pid[q].tasks[ty] /\ ~(u = old /\ ty = "SID" /\ q = P["SID"])
               \/ u = t /\ ty = "SID" /\ q = P["SID"]
      BY <1>19, <1>21, <1>23 DEF Transfers
    <3> QED
      BY <1>6, <3>1
  <2> QED
    BY <2>1, <2>2, <2>3
<1>27. PICK X : X = Leads(z.task, t, old)
  OBVIOUS
<1>28. /\ X \in [Task -> TaskType]
       /\ \A u \in Task \ {t, old} : X[u] = k.task[u]
       /\ X[t].st = "live" /\ X[t].leader = t /\ X[t].kids = k.task[t].kids
       /\ X[t].thread_pid = new /\ X[t].pids = P
       /\ X[old].st = "zombie" /\ X[old].leader = t
       /\ X[old].kids = k.task[old].kids /\ X[old].thread_pid = new
  <2>1. z.task \in [Task -> TaskType]
    BY <1>24, StateFields
  <2>2. /\ X \in [Task -> TaskType]
        /\ \A u \in Task \ {t, old} : X[u] = z.task[u]
        /\ X[t].st = z.task[t].st /\ X[t].leader = t /\ X[t].kids = z.task[t].kids
        /\ X[t].thread_pid = z.task[t].thread_pid /\ X[t].pids = z.task[old].pids
        /\ X[old].st = z.task[old].st /\ X[old].leader = t
        /\ X[old].kids = z.task[old].kids
        /\ X[old].thread_pid = z.task[old].thread_pid
    BY <1>4, <1>27, <2>1, LeadsIs
  <2> QED
    BY <1>4, <1>7, <1>11, <1>12, <1>13, <1>24, <2>2
<1>29. k' \in State /\ k'.task = X /\ k'.pid = z.pid /\ k'.ns = z.ns
  <2>1. k' = [z EXCEPT !.task = X]
    BY <1>18, <1>27
  <2> QED
    BY <1>24, <1>28, <2>1, Zenon DEF State
<1>30. Kept(k, k')
  <2>1. Kept(s, k')
    BY <1>26, <1>29 DEF Kept
  <2> QED
    BY <1>11, <2>1, KeptTrans
<1>31. LinksIn(k')
  <2>1. LinksBut(s, t, {})
    BY <1>11, LinksAre
  <2>2. ASSUME NEW q \in Pid, NEW ty \in PidType, NEW u \in Task
        PROVE  u \in k'.pid[q].tasks[ty] <=> Belongs(k', u, ty, q)
    <3>1. u \in s.pid[q].tasks[ty] <=> Belongs(s, u, ty, q)
      BY <2>1 DEF LinksBut
    <3>2. CASE ty = "PID"
      <4>1. Belongs(k', u, ty, q) <=> Belongs(s, u, ty, q)
        BY <1>4, <1>7, <1>11, <1>12, <1>28, <1>29, <3>2 DEF Belongs, PtrOf
      <4> QED
        BY <1>26, <1>29, <3>1, <3>2, <4>1
    <3>3. CASE ty # "PID" /\ u \notin {t, old}
      <4>1. Belongs(k', u, ty, q) <=> Belongs(s, u, ty, q)
        BY <1>11, <1>28, <1>29, <3>3 DEF Belongs
      <4> QED
        BY <1>26, <1>29, <3>1, <3>3, <4>1
    <3>4. CASE ty # "PID" /\ u = t
      <4>1. ~Belongs(s, u, ty, q)
        BY <1>4, <1>11, <3>4 DEF Belongs
      <4>2. Belongs(k', u, ty, q) <=> q = P[ty]
        BY <1>28, <1>29, <3>4 DEF Belongs, PtrOf
      <4> QED
        BY <1>4, <1>26, <1>29, <3>1, <3>4, <4>1, <4>2
    <3>5. CASE ty # "PID" /\ u = old
      <4>1. Belongs(s, u, ty, q) <=> q = P[ty]
        BY <1>4, <1>5, <1>6, <1>12, <1>14, <3>5 DEF Belongs, PtrOf
      <4>2. ~Belongs(k', u, ty, q)
        BY <1>4, <1>28, <1>29, <3>5 DEF Belongs
      <4> QED
        BY <1>4, <1>26, <1>29, <3>1, <3>5, <4>1, <4>2
    <3> QED
      BY <3>2, <3>3, <3>4, <3>5
  <2>3. ASSUME NEW q \in Pid
        PROVE  k'.pid[q].st = "live" <=>
                 \E ty \in PidType, u \in Task : u \in k'.pid[q].tasks[ty]
    <3>1. CASE z.pid[q] = s.pid[q]
      BY <1>29, <2>1, <3>1 DEF LinksBut
    <3>2. CASE z.pid[q] # s.pid[q]
      <4>1. k'.pid[q].st = "live" /\ s.pid[q].st = "live"
        BY <1>26, <1>29, <3>2
      <4>2. PICK ty \in PidType, u \in Task : u \in s.pid[q].tasks[ty]
        BY <2>1, <4>1 DEF LinksBut
      <4>3. u \in z.pid[q].tasks[ty] \/ t \in z.pid[q].tasks[ty]
        BY <1>26, <4>2
      <4> QED
        BY <1>29, <4>1, <4>2, <4>3
    <3> QED
      BY <3>1, <3>2
  <2>4. LinksBut(k', t, {})
    BY <2>2, <2>3 DEF LinksBut
  <2> QED
    BY <1>29, <2>4, LinksAre
<1>32. TaskInv(X)
  <2>0. \A u \in Task : k.task[u].st # "none" => k.task[u].leader # t
    BY <1>1, <1>3, <1>4 DEF TaskInv
  <2> SUFFICES ASSUME NEW u \in Task
               PROVE  /\ X[u].st = "none" => X[u] = NoTask
                      /\ X[u].st = "live" <=> X[u].kids \in Ns
                      /\ X[u].st # "none" =>
                           /\ X[u].thread_pid \in Pid
                           /\ X[u].leader \in Task
                           /\ X[X[u].leader].st # "none"
                           /\ X[X[u].leader].leader = X[u].leader
                           /\ \A ty \in SignalType : X[X[u].leader].pids[ty] \in Pid
    BY DEF TaskInv
  <2>1. CASE u \in {t, old}
    <3>1. /\ X[u].st # "none" /\ X[u].leader = t /\ X[u].thread_pid \in Pid
          /\ X[u].st = "live" <=> X[u].kids \in Ns
      BY <1>1, <1>2, <1>4, <1>28, <2>1 DEF TaskInv
    <3> QED
      BY <1>14, <1>28, <3>1
  <2>2. CASE u \notin {t, old}
    <3>1. X[u] = k.task[u]
      BY <1>28, <2>2
    <3>2. CASE k.task[u].st = "none"
      BY <1>1, <3>1, <3>2 DEF TaskInv
    <3>3. CASE k.task[u].st # "none"
      <4>1. PICK l : l = k.task[u].leader
        OBVIOUS
      <4>2. /\ l \in Task /\ k.task[l].st # "none" /\ k.task[l].leader = l
            /\ \A ty \in SignalType : k.task[l].pids[ty] \in Pid
            /\ k.task[u].thread_pid \in Pid
            /\ k.task[u].st = "live" <=> k.task[u].kids \in Ns
        BY <1>1, <3>3, <4>1 DEF TaskInv
      <4>3. l \notin {t, old}
        BY <1>4, <2>0, <2>2, <3>3, <4>1
      <4>4. X[l] = k.task[l]
        BY <1>28, <4>2, <4>3
      <4> QED
        BY <3>1, <3>3, <4>1, <4>2, <4>4
    <3> QED
      BY <3>2, <3>3
  <2> QED
    BY <2>1, <2>2
<1>33. \A u \in Task : fork[u] # NULL => k'.task[u].st = "live"
  BY <1>1, <1>2, <1>4, <1>28, <1>29 DEF ForkIn
<1>34. Good(k', fork, opening, pidfd)
  BY <1>29, <1>30, <1>31, <1>32, <1>33, KeptGood
<1>35. Takes(k, k', t, old)
  <2>1. SamePids(k.pid, k'.pid)
    BY <1>30, KeptPids
  <2>2. NsSame(k.ns, k'.ns)
    <3>1. k'.ns = s.ns
      BY <1>19, <1>21, <1>23, <1>29 DEF Transfers
    <3> QED
      BY <1>10, <3>1 DEF Changes
  <2> QED
    BY <1>2, <1>3, <1>4, <1>7, <1>28, <1>29, <2>1, <2>2 DEF Takes
<1> QED
  BY <1>34, <1>35 DEF de_thread

-----------------------------------------------------------------------------
(* exit and release_task()                                                 *)

(* The fields of an empty slot.                                            *)
LEMMA NoTaskIs ==
  /\ NoTask \in TaskType /\ NoTask.st = "none" /\ NoTask.leader = NULL
  /\ NoTask.thread_pid = NULL /\ NoTask.kids = NULL
BY DEF NoTask, TaskType

(* detach_pid() takes a task off one list.                                 *)
LEMMA DetachFacts ==
  ASSUME NEW s \in State, NEW t \in Task, NEW ty \in PidType,
         PtrOf(s.task[t], ty) \in Pid, s.task[t].st # "none",
         ty # "PID" => s.task[t].leader = t,
         LinksBut(s, t, {}), NEW x, x = detach_pid(s, t, ty)
  PROVE  /\ x \in State /\ Kept(s, x) /\ NsSame(s.ns, x.ns)
         /\ LinksBut(x, t, {})
         /\ Points(s.task[t], x.task[t], ty, NULL)
         /\ \A u \in Task \ {t} : x.task[u] = s.task[u]
<1>1. PICK p \in Pid : p = PtrOf(s.task[t], ty)
  OBVIOUS
<1>2. PICK n \in Pid \cup {NULL} : n = NULL
  OBVIOUS
<1>3. x = __change_pid(s, t, ty, n)
  BY <1>2 DEF detach_pid
<1>4. Changes(s, x, t, ty, n) /\ LinksBut(x, t, IF n = NULL THEN {} ELSE {ty})
  BY <1>1, <1>3, ChangeFacts
<1> QED
  BY <1>2, <1>4 DEF Changes

(* A task that is on no list is released.                                  *)
LEMMA ReapGood ==
  ASSUME NEW s, NEW f, NEW o, NEW F, Good(s, f, o, F), NEW t \in Task,
         s.task[t].st = "zombie",
         \A u \in Task \ {t} : s.task[u].leader # t,
         NEW y \in State, Kept(s, y), NsSame(s.ns, y.ns), LinksBut(y, t, {}),
         \A u \in Task \ {t} : y.task[u] = s.task[u],
         \A ty \in PidType, q \in Pid : ~Belongs(y, t, ty, q),
         NEW x, x = [y EXCEPT !.task = [y.task EXCEPT ![t] = NoTask]]
  PROVE  Good(x, f, o, F) /\ Quiet(s, x)
<1>1. /\ s \in State /\ TaskInv(s.task) /\ ForkIn(s, f)
  BY GoodRest
<1>2. PICK T : T = [y.task EXCEPT ![t] = NoTask]
  OBVIOUS
<1>3. T \in [Task -> TaskType] /\ T[t] = NoTask /\ \A u \in Task \ {t} : T[u] = s.task[u]
  <2>1. y.task \in [Task -> TaskType]
    BY StateFields
  <2>2. PICK r \in TaskType : r = NoTask
    BY NoTaskIs
  <2> QED
    BY <1>2, <2>1, <2>2
<1>4. x = [y EXCEPT !.task = T]
  BY <1>2
<1>5. x \in State /\ x.task = T /\ x.pid = y.pid /\ x.ns = y.ns
  BY <1>3, <1>4, Zenon DEF State
<1>6. Kept(s, x)
  BY <1>5 DEF Kept
<1>7. LinksIn(x)
  <2>1. ASSUME NEW q \in Pid, NEW ty \in PidType, NEW u \in Task
        PROVE  u \in x.pid[q].tasks[ty] <=> Belongs(x, u, ty, q)
    <3>1. u \in y.pid[q].tasks[ty] <=> Belongs(y, u, ty, q)
      BY DEF LinksBut
    <3>2. CASE u = t
      BY <1>3, <1>5, <3>1, <3>2, NoTaskIs DEF Belongs
    <3>3. CASE u # t
      BY <1>3, <1>5, <3>1, <3>3 DEF Belongs
    <3> QED
      BY <3>2, <3>3
  <2>2. LinksBut(x, t, {})
    BY <1>5, <2>1 DEF LinksBut
  <2> QED
    BY <1>5, <2>2, LinksAre
<1>8. TaskInv(T)
  <2> SUFFICES ASSUME NEW u \in Task
               PROVE  /\ T[u].st = "none" => T[u] = NoTask
                      /\ T[u].st = "live" <=> T[u].kids \in Ns
                      /\ T[u].st # "none" =>
                           /\ T[u].thread_pid \in Pid
                           /\ T[u].leader \in Task
                           /\ T[T[u].leader].st # "none"
                           /\ T[T[u].leader].leader = T[u].leader
                           /\ \A ty \in SignalType : T[T[u].leader].pids[ty] \in Pid
    BY DEF TaskInv
  <2>1. CASE u = t
    BY <1>3, <2>1, NoTaskIs, NullIsNone
  <2>2. CASE u # t
    <3>1. T[u] = s.task[u] /\ s.task[u].leader # t
      BY <1>3, <2>2
    <3>2. CASE s.task[u].st = "none"
      BY <1>1, <3>1, <3>2 DEF TaskInv
    <3>3. CASE s.task[u].st # "none"
      <4>1. PICK l : l = s.task[u].leader
        OBVIOUS
      <4>2. /\ l \in Task /\ s.task[l].st # "none" /\ s.task[l].leader = l
            /\ \A ty \in SignalType : s.task[l].pids[ty] \in Pid
            /\ s.task[u].thread_pid \in Pid
            /\ s.task[u].st = "live" <=> s.task[u].kids \in Ns
        BY <1>1, <3>3, <4>1 DEF TaskInv
      <4>3. T[l] = s.task[l]
        BY <1>3, <3>1, <4>1, <4>2
      <4> QED
        BY <3>1, <3>3, <4>1, <4>2, <4>3
    <3> QED
      BY <3>2, <3>3
  <2> QED
    BY <2>1, <2>2
<1>9. \A u \in Task : f[u] # NULL => x.task[u].st = "live"
  BY <1>1, <1>3, <1>5 DEF ForkIn
<1>10. Quiet(s, x)
  <2>1. SamePids(s.pid, x.pid)
    BY <1>6, KeptPids
  <2>2. s.task[t].kids = NULL
    BY <1>1, StateFields, TaskFields DEF TaskInv
  <2> QED
    BY <1>3, <1>5, <2>1, <2>2, NoTaskIs DEF Quiet
<1> QED
  BY <1>5, <1>6, <1>7, <1>8, <1>9, <1>10, KeptGood

(* release_task() of a zombie that nobody follows keeps Good.              *)
LEMMA ReleaseGood ==
  ASSUME Good(k, fork, opening, pidfd), NEW t \in Task, Release(t)
  PROVE  Good(k', fork', opening', pidfd') /\ Quiet(k, k')
<1>1. /\ k \in State /\ TaskInv(k.task) /\ LinksIn(k)
  BY GoodRest
<1>2. k.task[t].st = "zombie"
  BY DEF Release
<1>3. /\ "PID" \in PidType /\ "TGID" \in PidType /\ "PGID" \in PidType
      /\ "SID" \in PidType /\ PidType = {"PID", "TGID", "PGID", "SID"}
  BY DEF PidType
<1>4. PICK s : s = detach_pid(k, t, "PID")
  OBVIOUS
<1>5. /\ s \in State /\ Kept(k, s) /\ NsSame(k.ns, s.ns)
      /\ LinksBut(s, t, {})
      /\ Points(k.task[t], s.task[t], "PID", NULL)
      /\ \A u \in Task \ {t} : s.task[u] = k.task[u]
  <2>1. LinksBut(k, t, {}) /\ PtrOf(k.task[t], "PID") \in Pid
    BY <1>1, <1>2, <1>3, LinksAre, OwnPtr
  <2> QED
    BY <1>1, <1>2, <1>3, <1>4, <2>1, DetachFacts
<1>6. \A u \in Task \ {t} : k.task[u].leader = t => k.task[t].leader = t
  BY <1>1, NoTaskIs, NullIsNone DEF TaskInv
<1>7. CASE k.task[t].leader # t
  <2>1. k' = [s EXCEPT !.task = [s.task EXCEPT ![t] = NoTask]]
    BY <1>4, <1>7, Zenon DEF Release
  <2>2. \A ty \in PidType, q \in Pid : ~Belongs(s, t, ty, q)
    BY <1>5, <1>7, NullIsNone DEF Points, Belongs
  <2>3. Good(k', fork, opening, pidfd) /\ Quiet(k, k')
    BY <1>2, <1>5, <1>6, <1>7, <2>1, <2>2, ReapGood
  <2> QED
    BY <1>5, <2>3 DEF Release
<1>8. CASE k.task[t].leader = t
  <2>1. \A ty \in PidType : PtrOf(k.task[t], ty) \in Pid
    BY <1>1, <1>2, <1>8, OwnPtr
  <2>2. PICK x : x = detach_pid(s, t, "TGID")
    OBVIOUS
  <2>3. PICK y : y = detach_pid(x, t, "PGID")
    OBVIOUS
  <2>4. PICK z : z = detach_pid(y, t, "SID")
    OBVIOUS
  <2>5. k' = [z EXCEPT !.task = [z.task EXCEPT ![t] = NoTask]]
    BY <1>4, <1>8, <2>2, <2>3, <2>4, Zenon DEF Release
  <2>6. s.task[t].st = "zombie" /\ s.task[t].leader = t
        /\ PtrOf(s.task[t], "PID") = NULL
        /\ \A ty \in {"TGID", "PGID", "SID"} : PtrOf(s.task[t], ty) \in Pid
    BY <1>2, <1>3, <1>5, <1>8, <2>1 DEF Points
  <2>7. /\ x \in State /\ Kept(s, x) /\ NsSame(s.ns, x.ns) /\ LinksBut(x, t, {})
        /\ Points(s.task[t], x.task[t], "TGID", NULL)
        /\ \A u \in Task \ {t} : x.task[u] = s.task[u]
    BY <1>3, <1>5, <2>2, <2>6, DetachFacts
  <2>8. /\ x.task[t].st = "zombie" /\ x.task[t].leader = t
        /\ \A ty \in {"PID", "TGID"} : PtrOf(x.task[t], ty) = NULL
        /\ \A ty \in {"PGID", "SID"} : PtrOf(x.task[t], ty) \in Pid
    BY <1>3, <2>6, <2>7 DEF Points
  <2>9. /\ y \in State /\ Kept(x, y) /\ NsSame(x.ns, y.ns) /\ LinksBut(y, t, {})
        /\ Points(x.task[t], y.task[t], "PGID", NULL)
        /\ \A u \in Task \ {t} : y.task[u] = x.task[u]
    BY <1>3, <2>3, <2>7, <2>8, DetachFacts
  <2>10. y.task[t].st = "zombie" /\ y.task[t].leader = t
         /\ \A ty \in {"PID", "TGID", "PGID"} : PtrOf(y.task[t], ty) = NULL
         /\ PtrOf(y.task[t], "SID") \in Pid
    BY <1>3, <2>8, <2>9 DEF Points
  <2>11. /\ z \in State /\ Kept(y, z) /\ NsSame(y.ns, z.ns) /\ LinksBut(z, t, {})
         /\ Points(y.task[t], z.task[t], "SID", NULL)
         /\ \A u \in Task \ {t} : z.task[u] = y.task[u]
    BY <1>3, <2>4, <2>9, <2>10, DetachFacts
  <2>12. \A ty \in PidType : PtrOf(z.task[t], ty) = NULL
    BY <1>3, <2>10, <2>11 DEF Points
  <2>13. \A ty \in PidType, q \in Pid : ~Belongs(z, t, ty, q)
    BY <2>12, NullIsNone DEF Belongs
  <2>14. Kept(k, z) /\ NsSame(k.ns, z.ns)
    <3>1. Kept(k, x) /\ NsSame(k.ns, x.ns)
      BY <1>5, <2>7, KeptTrans, NsSameTrans
    <3>2. Kept(k, y) /\ NsSame(k.ns, y.ns)
      BY <2>9, <3>1, KeptTrans, NsSameTrans
    <3> QED
      BY <2>11, <3>2, KeptTrans, NsSameTrans
  <2>15. \A u \in Task \ {t} : z.task[u] = k.task[u]
    BY <1>5, <2>7, <2>9, <2>11
  <2>16. \A u \in Task \ {t} : k.task[u].leader # t
    BY <1>8 DEF Release, Group
  <2>17. Good(k', fork, opening, pidfd) /\ Quiet(k, k')
    BY <1>2, <2>5, <2>11, <2>13, <2>14, <2>15, <2>16, ReapGood
  <2> QED
    BY <2>14, <2>17 DEF Release
<1> QED
  BY <1>7, <1>8

(* A task that gets other namespaces for its children, or exits.           *)
KidsSet(r, z, n) == [r EXCEPT !.st = z, !.kids = n]

(* A task with another namespace for its children.                         *)
LEMMA KidsSetIs ==
  ASSUME NEW r \in TaskType, NEW z \in {"live", "zombie"}, NEW n \in Ns \cup {NULL},
         NEW w, w = KidsSet(r, z, n)
  PROVE  /\ w \in TaskType /\ w.st = z /\ w.kids = n /\ w.leader = r.leader
         /\ w.thread_pid = r.thread_pid /\ w.pids = r.pids
<1>1. z \in {"none", "live", "zombie"}
  OBVIOUS
<1> QED
  BY <1>1, Zenon DEF KidsSet, TaskType

(* Good does not depend on the namespace for the children.                 *)
LEMMA MovedGood ==
  ASSUME NEW s, NEW f, NEW o, NEW F, Good(s, f, o, F), NEW t \in Task,
         s.task[t].st = "live", NEW z \in {"live", "zombie"},
         f[t] # NULL => z = "live",
         NEW n \in Ns \cup {NULL}, z = "live" <=> n \in Ns,
         NEW N \in [Ns -> NsType],
         NEW x, x = PutTask(s, t, KidsSet(s.task[t], z, n), N)
  PROVE  /\ Good(x, f, o, F) /\ x.ns = N /\ x.pid = s.pid
         /\ x.task[t].kids = n /\ x.task[t].st = z
         /\ x.task[t].leader = s.task[t].leader
         /\ x.task[t].thread_pid = s.task[t].thread_pid
         /\ \A u \in Task \ {t} : x.task[u] = s.task[u]
<1>1. /\ s \in State /\ TaskInv(s.task) /\ LinksIn(s) /\ ForkIn(s, f)
  BY GoodRest
<1>2. PICK w : w = KidsSet(s.task[t], z, n)
  OBVIOUS
<1>3. /\ w \in TaskType /\ w.st = z /\ w.kids = n /\ w.leader = s.task[t].leader
      /\ w.thread_pid = s.task[t].thread_pid /\ w.pids = s.task[t].pids
  <2>1. s.task[t] \in TaskType
    BY <1>1, StateFields
  <2> QED
    BY <1>2, <2>1, KidsSetIs
<1>4. x = PutTask(s, t, w, N)
  BY <1>2
<1>5. /\ x \in State /\ x.pid = s.pid /\ x.ns = N /\ x.task[t] = w
      /\ \A u \in Task \ {t} : x.task[u] = s.task[u]
  BY <1>1, <1>3, <1>4, PutTaskIs
<1>6. ASSUME NEW u \in Task
      PROVE  /\ x.task[u].st = "none" <=> s.task[u].st = "none"
             /\ x.task[u].leader = s.task[u].leader
             /\ x.task[u].thread_pid = s.task[u].thread_pid
             /\ x.task[u].pids = s.task[u].pids
  BY <1>3, <1>5
<1>7. LinksIn(x)
  <2>1. LinksBut(s, t, {})
    BY <1>1, LinksAre
  <2>2. \A u \in Task, ty \in PidType, q \in Pid :
          Belongs(x, u, ty, q) <=> Belongs(s, u, ty, q)
    BY <1>6 DEF Belongs, PtrOf
  <2>3. LinksBut(x, t, {})
    BY <1>5, <2>1, <2>2 DEF LinksBut
  <2> QED
    BY <1>5, <2>3, LinksAre
<1>8. TaskInv(x.task)
  <2> SUFFICES ASSUME NEW u \in Task
               PROVE  /\ x.task[u].st = "none" => x.task[u] = NoTask
                      /\ x.task[u].st = "live" <=> x.task[u].kids \in Ns
                      /\ x.task[u].st # "none" =>
                           /\ x.task[u].thread_pid \in Pid
                           /\ x.task[u].leader \in Task
                           /\ x.task[x.task[u].leader].st # "none"
                           /\ x.task[x.task[u].leader].leader = x.task[u].leader
                           /\ \A ty \in SignalType : x.task[x.task[u].leader].pids[ty] \in Pid
    BY DEF TaskInv
  <2>1. x.task[u].st = "none" => x.task[u] = NoTask
    BY <1>1, <1>3, <1>5 DEF TaskInv
  <2>2. x.task[u].st = "live" <=> x.task[u].kids \in Ns
    BY <1>1, <1>3, <1>5 DEF TaskInv
  <2>3. ASSUME x.task[u].st # "none"
        PROVE  /\ x.task[u].thread_pid \in Pid
               /\ x.task[u].leader \in Task
               /\ x.task[x.task[u].leader].st # "none"
               /\ x.task[x.task[u].leader].leader = x.task[u].leader
               /\ \A ty \in SignalType : x.task[x.task[u].leader].pids[ty] \in Pid
    <3>1. PICK l : l = s.task[u].leader
      OBVIOUS
    <3>2. /\ l \in Task /\ s.task[u].thread_pid \in Pid /\ s.task[l].st # "none"
          /\ s.task[l].leader = l
          /\ \A ty \in SignalType : s.task[l].pids[ty] \in Pid
      BY <1>1, <1>6, <2>3, <3>1 DEF TaskInv
    <3>3. x.task[u].leader = l
      BY <1>6, <3>1
    <3> QED
      BY <1>6, <3>2, <3>3
  <2> QED
    BY <2>1, <2>2, <2>3
<1>9. \A u \in Task : f[u] # NULL => x.task[u].st = "live"
  BY <1>1, <1>3, <1>5 DEF ForkIn
<1>10. Kept(s, x)
  BY <1>5, KeptSame
<1> QED
  BY <1>3, <1>5, <1>7, <1>8, <1>9, <1>10, KeptGood

(* Only namespaces change.                                                 *)
LEMMA NsGood ==
  ASSUME NEW s, NEW f, NEW o, NEW F, Good(s, f, o, F), NEW N \in [Ns -> NsType],
         NEW x, x = [s EXCEPT !.ns = N]
  PROVE  Good(x, f, o, F) /\ x.ns = N /\ x.pid = s.pid /\ x.task = s.task
<1>1. /\ s \in State /\ TaskInv(s.task) /\ LinksIn(s) /\ ForkIn(s, f)
  BY GoodRest
<1>2. x \in State /\ x.ns = N /\ x.pid = s.pid /\ x.task = s.task
  BY <1>1, Zenon DEF State
<1>3. LinksIn(x)
  BY <1>1, <1>2, LinksSame
<1>4. Kept(s, x)
  BY <1>2, KeptSame
<1>5. \A u \in Task : f[u] # NULL => x.task[u].st = "live"
  BY <1>1, <1>2 DEF ForkIn
<1>6. TaskInv(x.task)
  BY <1>1, <1>2
<1> QED
  BY <1>2, <1>3, <1>4, <1>5, <1>6, KeptGood

(* zap_pid_ns_processes() closes a namespace to new processes.             *)
LEMMA AddingType ==
  ASSUME NEW N \in [Ns -> NsType], NEW n,
         NEW M, M = [N EXCEPT ![n].adding = FALSE]
  PROVE  M \in [Ns -> NsType] /\ NsSame(N, M)
<1>1. CASE n \in Ns
  <2>1. N[n] \in NsType
    BY <1>1
  <2>2. PICK r : r = [N[n] EXCEPT !.adding = FALSE]
    OBVIOUS
  <2>3. r \in NsType /\ r.st = N[n].st /\ r.level = N[n].level /\ r.path = N[n].path
        /\ r.kref = N[n].kref
    BY <2>1, <2>2, Zenon DEF NsType
  <2>4. M = [N EXCEPT ![n] = r]
    BY <2>2
  <2>5. M \in [Ns -> NsType]
    BY <2>3, <2>4
  <2> QED
    BY <1>1, <2>3, <2>4, <2>5 DEF NsSame
<1>2. CASE n \notin Ns
  <2>1. M = N
    BY <1>2
  <2> QED
    BY <2>1 DEF NsSame
<1> QED
  BY <1>1, <1>2

(* exit keeps Good.                                                        *)
LEMMA ExitGood ==
  ASSUME Good(k, fork, opening, pidfd), NEW t \in Task, Exit(t)
  PROVE  /\ Good(k', fork', opening', pidfd')
         /\ k'.pid = k.pid /\ NsSame(put_pid_ns(k.ns, k.task[t].kids), k'.ns)
         /\ k'.task[t].kids = NULL /\ k'.task[t].st = "zombie"
         /\ k'.task[t].leader = k.task[t].leader
         /\ k'.task[t].thread_pid = k.task[t].thread_pid
         /\ \A u \in Task \ {t} : k'.task[u] = k.task[u]
<1>1. k \in State
  BY GoodRest
<1>2. k.task[t].st = "live" /\ fork[t] = NULL
  BY DEF Exit, Runs, Busy
<1>3. PICK M : M = put_pid_ns(k.ns, k.task[t].kids)
  OBVIOUS
<1>4. M \in [Ns -> NsType]
  BY <1>1, <1>3, PutNsType, StateFields
<1>5. PICK n : n = ns_of_pid(task_pid_ptr(k, t, "TGID"))
  OBVIOUS
<1>6. PICK A : A = [M EXCEPT ![n].adding = FALSE]
  OBVIOUS
<1>7. A \in [Ns -> NsType] /\ NsSame(M, A)
  BY <1>4, <1>6, AddingType
<1>8. PICK N \in {A, M} :
        k' = [k EXCEPT !.task[t].st = "zombie", !.task[t].kids = NULL, !.ns = N]
  BY <1>3, <1>5, <1>6 DEF Exit
<1>9. N \in [Ns -> NsType] /\ NsSame(M, N)
  BY <1>4, <1>7 DEF NsSame
<1>10. k' = PutTask(k, t, KidsSet(k.task[t], "zombie", NULL), N)
  BY <1>1, <1>8, Zenon DEF PutTask, KidsSet, State
<1>11. PICK z \in {"live", "zombie"} : z = "zombie"
  OBVIOUS
<1>12. PICK m \in Ns \cup {NULL} : m = NULL
  OBVIOUS
<1>13. k' = PutTask(k, t, KidsSet(k.task[t], z, m), N) /\ (z = "live" <=> m \in Ns)
       /\ (fork[t] # NULL => z = "live")
  BY <1>2, <1>10, <1>11, <1>12, NullIsNone
<1>14. /\ Good(k', fork, opening, pidfd) /\ k'.ns = N /\ k'.pid = k.pid
       /\ k'.task[t].kids = m /\ k'.task[t].st = z
       /\ k'.task[t].leader = k.task[t].leader
       /\ k'.task[t].thread_pid = k.task[t].thread_pid
       /\ \A u \in Task \ {t} : k'.task[u] = k.task[u]
  BY <1>2, <1>9, <1>13, MovedGood
<1>15. NsSame(put_pid_ns(k.ns, k.task[t].kids), k'.ns)
  BY <1>3, <1>9, <1>14
<1>16. fork' = fork /\ opening' = opening /\ pidfd' = pidfd
  BY DEF Exit
<1> QED
  BY <1>11, <1>12, <1>14, <1>15, <1>16

(* setns() keeps Good.                                                     *)
LEMMA InstallGood ==
  ASSUME Good(k, fork, opening, pidfd), NEW t \in Task, NEW n \in Ns,
         pidns_install(t, n)
  PROVE  /\ Good(k', fork', opening', pidfd')
         /\ k'.pid = k.pid
         /\ k'.ns = get_pid_ns(put_pid_ns(k.ns, k.task[t].kids), n)
         /\ k'.task[t].kids = n /\ k'.task[t].st = "live"
         /\ k'.task[t].leader = k.task[t].leader
         /\ k'.task[t].thread_pid = k.task[t].thread_pid
         /\ \A u \in Task \ {t} : k'.task[u] = k.task[u]
<1>1. k \in State
  BY GoodRest
<1>2. k.task[t].st = "live"
  BY DEF pidns_install, Runs
<1>3. PICK N : N = get_pid_ns(put_pid_ns(k.ns, k.task[t].kids), n)
  OBVIOUS
<1>4. N \in [Ns -> NsType]
  BY <1>1, <1>3, PutNsType, GetNsType, StateFields
<1>5. k' = [k EXCEPT !.task[t].kids = n, !.ns = N]
  BY <1>3, Zenon DEF pidns_install
<1>6. k' = PutTask(k, t, KidsSet(k.task[t], "live", n), N)
  <2>1. k.task[t] \in TaskType
    BY <1>1, StateFields
  <2>2. KidsSet(k.task[t], "live", n) = [k.task[t] EXCEPT !.kids = n]
    BY <1>2, <2>1, Zenon DEF KidsSet, TaskType
  <2>3. k' = PutTask(k, t, [k.task[t] EXCEPT !.kids = n], N)
    BY <1>5, Zenon DEF PutTask
  <2> QED
    BY <2>2, <2>3
<1>7. /\ Good(k', fork, opening, pidfd) /\ k'.ns = N /\ k'.pid = k.pid
      /\ k'.task[t].kids = n /\ k'.task[t].st = "live"
      /\ k'.task[t].leader = k.task[t].leader
      /\ k'.task[t].thread_pid = k.task[t].thread_pid
      /\ \A u \in Task \ {t} : k'.task[u] = k.task[u]
  <2>1. PICK z \in {"live", "zombie"} : z = "live"
    OBVIOUS
  <2> QED
    BY <1>2, <1>4, <1>6, <2>1, MovedGood
<1> QED
  BY <1>3, <1>7 DEF pidns_install

(* unshare() keeps Good.                                                   *)
LEMMA UnshareGood ==
  ASSUME Good(k, fork, opening, pidfd), NEW t \in Task, NEW n \in Ns,
         unshare(t, n)
  PROVE  /\ Good(k', fork', opening', pidfd')
         /\ k'.pid = k.pid
         /\ k'.ns = put_pid_ns(create_pid_namespace(k.ns, k.task[t].kids, n),
                               k.task[t].kids)
         /\ k'.task[t].kids = n /\ k'.task[t].st = "live"
         /\ k'.task[t].leader = k.task[t].leader
         /\ k'.task[t].thread_pid = k.task[t].thread_pid
         /\ \A u \in Task \ {t} : k'.task[u] = k.task[u]
<1>1. k \in State /\ TaskInv(k.task)
  BY GoodRest
<1>2. k.task[t].st = "live"
  BY DEF unshare, Runs
<1>3. PICK old \in Ns : old = k.task[t].kids
  BY <1>1, <1>2 DEF TaskInv
<1>4. k.ns[old].level + 1 <= MAX_PID_NS_LEVEL
  BY <1>3 DEF unshare, CanCreate
<1>5. PICK N : N = put_pid_ns(create_pid_namespace(k.ns, old, n), old)
  OBVIOUS
<1>6. N \in [Ns -> NsType]
  <2>1. create_pid_namespace(k.ns, old, n) \in [Ns -> NsType]
    BY <1>1, <1>4, CreateType, StateFields
  <2> QED
    BY <1>5, <2>1, PutNsType
<1>7. k' = [k EXCEPT !.task[t].kids = n, !.ns = N]
  BY <1>3, <1>5, Zenon DEF unshare
<1>8. k' = PutTask(k, t, KidsSet(k.task[t], "live", n), N)
  <2>1. k.task[t] \in TaskType
    BY <1>1, StateFields
  <2>2. KidsSet(k.task[t], "live", n) = [k.task[t] EXCEPT !.kids = n]
    BY <1>2, <2>1, Zenon DEF KidsSet, TaskType
  <2>3. k' = PutTask(k, t, [k.task[t] EXCEPT !.kids = n], N)
    BY <1>7, Zenon DEF PutTask
  <2> QED
    BY <2>2, <2>3
<1>9. /\ Good(k', fork, opening, pidfd) /\ k'.ns = N /\ k'.pid = k.pid
      /\ k'.task[t].kids = n /\ k'.task[t].st = "live"
      /\ k'.task[t].leader = k.task[t].leader
      /\ k'.task[t].thread_pid = k.task[t].thread_pid
      /\ \A u \in Task \ {t} : k'.task[u] = k.task[u]
  <2>1. PICK z \in {"live", "zombie"} : z = "live"
    OBVIOUS
  <2> QED
    BY <1>2, <1>6, <1>8, <2>1, MovedGood
<1> QED
  BY <1>3, <1>5, <1>9 DEF unshare

(* The actions that only take or put references of namespaces.             *)
NsOnly(N) ==
  /\ Good(k', fork', opening', pidfd')
  /\ k'.pid = k.pid /\ k'.task = k.task /\ k'.ns = N
  /\ fork' = fork

(* Opening a namespace file changes the namespaces only.                   *)
LEMMA OpensGood ==
  ASSUME Good(k, fork, opening, pidfd), NEW n, Opens(n)
  PROVE  NsOnly(get_pid_ns(k.ns, n))
<1>1. k \in State
  BY GoodRest
<1>2. PICK N : N = get_pid_ns(k.ns, n)
  OBVIOUS
<1>3. N \in [Ns -> NsType]
  BY <1>1, <1>2, GetNsType, StateFields
<1>4. k' = [k EXCEPT !.ns = N]
  BY <1>2, Zenon DEF Opens
<1>5. /\ Good(k', fork, opening, pidfd) /\ k'.ns = N /\ k'.pid = k.pid
      /\ k'.task = k.task
  BY <1>3, <1>4, NsGood
<1> QED
  BY <1>2, <1>5 DEF Opens, NsOnly

(* So does closing one.                                                    *)
LEMMA PutFileGood ==
  ASSUME Good(k, fork, opening, pidfd), NEW n, pidns_put(n)
  PROVE  NsOnly(put_pid_ns(k.ns, n))
<1>1. k \in State
  BY GoodRest
<1>2. PICK N : N = put_pid_ns(k.ns, n)
  OBVIOUS
<1>3. N \in [Ns -> NsType]
  BY <1>1, <1>2, PutNsType, StateFields
<1>4. k' = [k EXCEPT !.ns = N]
  BY <1>2, Zenon DEF pidns_put
<1>5. /\ Good(k', fork, opening, pidfd) /\ k'.ns = N /\ k'.pid = k.pid
      /\ k'.task = k.task
  BY <1>3, <1>4, NsGood
<1> QED
  BY <1>2, <1>5 DEF pidns_put, NsOnly

(* The fields of an unused namespace.                                      *)
LEMMA NoNsIs ==
  NoNs \in NsType /\ NoNs.st = "none" /\ NoNs.kref = 0
<1>1. 0 \in Depth /\ 0 \in Int
  BY SlotsAssumption DEF Depth
<1>2. Nowhere \in [Depth -> Ns \cup {NULL}]
  BY DEF Nowhere
<1> QED
  BY <1>1, <1>2, Zenon DEF NoNs, NsType

(* delayed_free_pidns() changes the namespaces only.                       *)
LEMMA FreeNsGood ==
  ASSUME Good(k, fork, opening, pidfd), NEW n \in Ns, delayed_free_pidns(n)
  PROVE  NsOnly([k.ns EXCEPT ![n] = NoNs])
<1>1. k \in State
  BY GoodRest
<1>2. PICK N : N = [k.ns EXCEPT ![n] = NoNs]
  OBVIOUS
<1>3. N \in [Ns -> NsType]
  <2>1. k.ns \in [Ns -> NsType] /\ NoNs \in NsType
    BY <1>1, StateFields, NoNsIs
  <2>2. PICK r \in NsType : r = NoNs
    BY <2>1
  <2>3. N = [k.ns EXCEPT ![n] = r]
    BY <1>2, <2>2
  <2> QED
    BY <2>1, <2>3
<1>4. k' = [k EXCEPT !.ns = N]
  BY <1>2, Zenon DEF delayed_free_pidns
<1>5. /\ Good(k', fork, opening, pidfd) /\ k'.ns = N /\ k'.pid = k.pid
      /\ k'.task = k.task
  BY <1>3, <1>4, NsGood
<1> QED
  BY <1>2, <1>5 DEF delayed_free_pidns, NsOnly

(* A running task has a namespace for its children.                        *)
LEMMA KidsIn ==
  ASSUME TaskInv(k.task), NEW t \in Task, Runs(t)
  PROVE  k.task[t].kids \in Ns
BY DEF TaskInv, Runs

(* fork and clone keep Good.                                               *)
LEMMA ForkGood ==
  ASSUME Good(k, fork, opening, pidfd), NEW t \in Task, NEW p \in Pid,
         Fork(t, p) \/ ForkThread(t, p)
  PROVE  /\ Good(k', fork', opening', pidfd')
         /\ \E thread \in BOOLEAN :
              Forked(t, get_pid_ns(k.ns, k.task[t].kids), k.task[t].kids, p, thread)
<1>1. k \in State /\ TaskInv(k.task)
  BY GoodRest
<1>2. Runs(t)
  BY DEF Fork, ForkThread
<1>3. PICK n \in Ns : n = k.task[t].kids
  BY <1>1, <1>2, KidsIn
<1>4. PICK N \in [Ns -> NsType] : N = get_pid_ns(k.ns, n)
  BY <1>1, GetNsType, StateFields
<1>5. PICK thread \in BOOLEAN : Allocates(t, N, n, p, thread)
  BY <1>3, <1>4, Zenon DEF Fork, ForkThread
<1>6. Good(k', fork', opening', pidfd') /\ Forked(t, N, n, p, thread)
  BY <1>2, <1>5, AllocatesGood
<1> QED
  BY <1>3, <1>4, <1>6, Zenon

(* clone with CLONE_NEWPID keeps Good.                                     *)
LEMMA ForkNewPidGood ==
  ASSUME Good(k, fork, opening, pidfd), NEW t \in Task, NEW p \in Pid, NEW n \in Ns,
         ForkNewPid(t, p, n)
  PROVE  /\ Good(k', fork', opening', pidfd')
         /\ Forked(t, create_pid_namespace(k.ns, k.task[t].kids, n), n, p, FALSE)
<1>1. k \in State /\ TaskInv(k.task)
  BY GoodRest
<1>2. Runs(t)
  BY DEF ForkNewPid
<1>3. PICK old \in Ns : old = k.task[t].kids
  BY <1>1, <1>2, KidsIn
<1>4. k.ns[old].level + 1 <= MAX_PID_NS_LEVEL
  BY <1>3 DEF ForkNewPid, CanCreate
<1>5. PICK N \in [Ns -> NsType] : N = create_pid_namespace(k.ns, old, n)
  BY <1>1, <1>4, CreateType, StateFields
<1>6. Allocates(t, N, n, p, FALSE)
  BY <1>3, <1>5 DEF ForkNewPid
<1>7. Good(k', fork', opening', pidfd') /\ Forked(t, N, n, p, FALSE)
  BY <1>2, <1>6, AllocatesGood
<1> QED
  BY <1>3, <1>5, <1>7, Zenon

-----------------------------------------------------------------------------
(* The tasks and the struct pids.                                          *)

(* Good holds at boot.                                                     *)
LEMMA GoodInit == Init => Good(k, fork, opening, pidfd)
<1> SUFFICES ASSUME Init PROVE Good(k, fork, opening, pidfd)
  OBVIOUS
<1> DEFINE R == [st |-> "live", leader |-> InitTask, thread_pid |-> InitPid,
                 pids |-> [ty \in SignalType |-> InitPid], kids |-> InitNs]
           r == [NoPid EXCEPT !.st = "live", !.numbers[0] = InitNs, !.count = 1,
                              !.tasks = [ty \in PidType |-> {InitTask}]]
           g == [NoNs EXCEPT !.st = "live", !.path[0] = InitNs, !.adding = TRUE,
                             !.pid_allocated = 1, !.first = InitPid,
                             !.child_reaper = TRUE]
           T == [t \in Task |-> IF t # InitTask THEN NoTask ELSE R]
           P == [p \in Pid |-> IF p # InitPid THEN NoPid ELSE r]
           N == [n \in Ns |-> IF n # InitNs THEN NoNs ELSE g]
<1>1. InitTask \in Task /\ InitPid \in Pid /\ InitNs \in Ns /\ 0 \in Depth
  BY SlotsAssumption DEF Depth
<1>2. /\ R \in TaskType /\ R.st = "live" /\ R.leader = InitTask
      /\ R.thread_pid = InitPid /\ R.kids = InitNs
      /\ \A ty \in SignalType : R.pids[ty] = InitPid
  BY <1>1 DEF TaskType
<1>3. /\ r \in StructPid /\ r.st = "live" /\ r.count = 1
      /\ \A ty \in PidType : r.tasks[ty] = {InitTask}
  <2>1. PICK b \in StructPid : b = NoPid
    BY NoPidIs
  <2>2. PICK f : f = [b.numbers EXCEPT ![0] = InitNs]
    OBVIOUS
  <2>3. f \in [Depth -> Ns \cup {NULL}]
    BY <1>1, <2>2 DEF StructPid
  <2>4. PICK h : h = [ty \in PidType |-> {InitTask}]
    OBVIOUS
  <2>5. h \in [PidType -> SUBSET Task] /\ \A ty \in PidType : h[ty] = {InitTask}
    BY <1>1, <2>4
  <2>6. PICK v \in Int : v = 1
    OBVIOUS
  <2>7. r = [b EXCEPT !.st = "live", !.numbers = f, !.count = v, !.tasks = h]
    BY <2>1, <2>2, <2>4, <2>6, Zenon
  <2> HIDE DEF r
  <2>8. r \in StructPid /\ r.st = "live" /\ r.count = v /\ r.tasks = h
    BY <2>3, <2>5, <2>7, Zenon DEF StructPid
  <2> QED
    BY <2>5, <2>6, <2>8
<1>4. g \in NsType
  <2>1. PICK b \in NsType : b = NoNs
    BY NoNsIs
  <2>2. PICK f : f = [b.path EXCEPT ![0] = InitNs]
    OBVIOUS
  <2>3. f \in [Depth -> Ns \cup {NULL}]
    BY <1>1, <2>2 DEF NsType
  <2>4. PICK v \in Int : v = 1
    OBVIOUS
  <2>5. g = [b EXCEPT !.st = "live", !.path = f, !.adding = TRUE,
                      !.pid_allocated = v, !.first = InitPid, !.child_reaper = TRUE]
    BY <2>1, <2>2, <2>4, Zenon
  <2> HIDE DEF g
  <2>6. InitPid \in Pid \cup {NULL}
    BY <1>1
  <2> QED
    BY <2>3, <2>5, <2>6, Zenon DEF NsType
<1>5. k = [task |-> T, pid |-> P, ns |-> N]
  BY Zenon DEF Init
<1> HIDE DEF R, r, g
<1>6. /\ T \in [Task -> TaskType] /\ P \in [Pid -> StructPid] /\ N \in [Ns -> NsType]
  BY <1>2, <1>3, <1>4, NoTaskIs, NoPidIs, NoNsIs
<1>7. /\ T[InitTask] = R /\ \A t \in Task \ {InitTask} : T[t] = NoTask
      /\ P[InitPid] = r /\ \A p \in Pid \ {InitPid} : P[p] = NoPid
  BY <1>1
<1> HIDE DEF T, P, N
<1>8. k \in State /\ k.task = T /\ k.pid = P /\ k.ns = N
  BY <1>5, <1>6 DEF State
<1>9. TaskInv(T)
  BY <1>1, <1>2, <1>7, NoTaskIs, NullIsNone DEF TaskInv
<1>10. SlotInv(P)
  <2>1. P[InitPid].st = "live" /\ P[InitPid].count = 1
    BY <1>3, <1>7
  <2> QED
    BY <1>7, <2>1, NoPidIs DEF SlotInv
<1>11. /\ fork \in [Task -> ForkType \cup {NULL}] /\ ForkIn(k, fork)
       /\ opening \in [Task -> Pid \cup {NULL}] /\ pidfd \subseteq Pid
  BY DEF Init, ForkIn
<1>12. RefsIn(P, opening, pidfd)
  <2> SUFFICES ASSUME NEW q \in Pid
               PROVE  P[q].count = Own(P[q]) + Refs(q, opening, pidfd)
    BY DEF RefsIn
  <2>1. Refs(q, opening, pidfd) = 0
    <3>1. {q} \cap pidfd = {} /\ {t \in Task : opening[t] = q} = {}
      BY NullIsNone DEF Init
    <3>2. Cardinality({}) = 0
      BY FS_EmptySet
    <3> QED
      BY <3>1, <3>2 DEF Refs
  <2>2. P[q].count = Own(P[q])
    BY <1>3, <1>7, NoPidIs DEF Own
  <2>3. Own(P[q]) \in {0, 1}
    BY DEF Own
  <2> QED
    BY <2>1, <2>2, <2>3
<1>13. LinksIn(k)
  <2>1. ASSUME NEW q \in Pid, NEW ty \in PidType, NEW u \in Task
        PROVE  u \in k.pid[q].tasks[ty] <=> Belongs(k, u, ty, q)
    <3>1. CASE u = InitTask
      <4>1. Belongs(k, u, ty, q) <=> q = InitPid
        BY <1>1, <1>2, <1>7, <1>8, <3>1 DEF Belongs, PtrOf, PidType, SignalType
      <4> QED
        BY <1>3, <1>7, <1>8, <3>1, <4>1, NoPidIs
    <3>2. CASE u # InitTask
      BY <1>3, <1>7, <1>8, <3>2, NoTaskIs, NoPidIs DEF Belongs
    <3> QED
      BY <3>1, <3>2
  <2>2. ASSUME NEW q \in Pid
        PROVE  k.pid[q].st = "live" <=>
                 \E ty \in PidType, u \in Task : u \in k.pid[q].tasks[ty]
    <3>1. "PID" \in PidType
      BY DEF PidType
    <3> QED
      BY <1>1, <1>3, <1>7, <1>8, <3>1, NoPidIs
  <2>3. LinksBut(k, InitTask, {})
    BY <2>1, <2>2 DEF LinksBut
  <2> QED
    BY <1>8, <2>3, LinksAre
<1> QED
  BY <1>8, <1>9, <1>10, <1>11, <1>12, <1>13 DEF Good, Rest

(* Every step keeps Good: one case for each action.                        *)
LEMMA GoodNext ==
  ASSUME Good(k, fork, opening, pidfd), [Next]_vars
  PROVE  Good(k', fork', opening', pidfd')
<1>1. CASE UNCHANGED vars
  BY <1>1 DEF vars
<1>2. ASSUME NEW t \in Task, ForkFails(t)
      PROVE  Good(k', fork', opening', pidfd')
  BY <1>2, ForkFailsGood
<1>3. ASSUME NEW t \in Task, Exit(t)
      PROVE  Good(k', fork', opening', pidfd')
  BY <1>3, ExitGood
<1>4. ASSUME NEW t \in Task, Release(t)
      PROVE  Good(k', fork', opening', pidfd')
  BY <1>4, ReleaseGood
<1>5. ASSUME NEW t \in Task, de_thread(t)
      PROVE  Good(k', fork', opening', pidfd')
  BY <1>5, DeThreadGood
<1>6. ASSUME NEW t \in Task, setsid(t)
      PROVE  Good(k', fork', opening', pidfd')
  BY <1>6, SetsidGood
<1>7. ASSUME NEW t \in Task, pidfd_open(t)
      PROVE  Good(k', fork', opening', pidfd')
  BY <1>7, OpenGood
<1>8. ASSUME NEW n, Opens(n)
      PROVE  Good(k', fork', opening', pidfd')
  BY <1>8, OpensGood DEF NsOnly
<1>9. ASSUME NEW t \in Task, NEW c \in Task, ForkAttach(t, c)
      PROVE  Good(k', fork', opening', pidfd')
  BY <1>9, ForkAttachGood
<1>10. ASSUME NEW t \in Task, NEW p \in Pid, Fork(t, p) \/ ForkThread(t, p)
       PROVE  Good(k', fork', opening', pidfd')
  BY <1>10, ForkGood
<1>11. ASSUME NEW t \in Task, NEW p \in Pid, setpgid(t, p)
       PROVE  Good(k', fork', opening', pidfd')
  BY <1>11, SetpgidGood
<1>12. ASSUME NEW t \in Task, NEW p \in Pid, find_get_pid(t, p)
       PROVE  Good(k', fork', opening', pidfd')
  BY <1>12, FindGood
<1>13. ASSUME NEW t \in Task, NEW p \in Pid, NEW n \in Ns, ForkNewPid(t, p, n)
       PROVE  Good(k', fork', opening', pidfd')
  BY <1>13, ForkNewPidGood
<1>14. ASSUME NEW t \in Task, NEW n \in Ns, pidns_install(t, n)
       PROVE  Good(k', fork', opening', pidfd')
  BY <1>14, InstallGood
<1>15. ASSUME NEW t \in Task, NEW n \in Ns, unshare(t, n)
       PROVE  Good(k', fork', opening', pidfd')
  BY <1>15, UnshareGood
<1>16. ASSUME NEW p \in Pid, delayed_put_pid(p)
       PROVE  Good(k', fork', opening', pidfd')
  BY <1>16, DelayedPutGood
<1>17. ASSUME NEW p \in Pid, pidfd_close(p)
       PROVE  Good(k', fork', opening', pidfd')
  BY <1>17, CloseGood
<1>18. ASSUME NEW n \in Ns, pidns_put(n)
       PROVE  Good(k', fork', opening', pidfd')
  BY <1>18, PutFileGood DEF NsOnly
<1>19. ASSUME NEW n \in Ns, delayed_free_pidns(n)
       PROVE  Good(k', fork', opening', pidfd')
  BY <1>19, FreeNsGood DEF NsOnly
<1> QED
  BY <1>1, <1>2, <1>3, <1>4, <1>5, <1>6, <1>7, <1>8, <1>9, <1>10, <1>11, <1>12,
     <1>13, <1>14, <1>15, <1>16, <1>17, <1>18, <1>19
     DEF Next, pidns_get, pidns_for_children_get, pidns_get_parent

(* Every task has a struct pid and a leader that leads itself, a fork in   *)
(* progress has a struct pid to itself, and lists and counts of struct     *)
(* pids are exact, in every state of the program.                          *)
THEOREM TaskInvariance == Spec => []Good(k, fork, opening, pidfd)
<1>1. Init => Good(k, fork, opening, pidfd)
  BY GoodInit
<1>2. Good(k, fork, opening, pidfd) /\ [Next]_vars => Good(k, fork, opening, pidfd)'
  BY GoodNext
<1> QED
  BY <1>1, <1>2, PTL DEF Spec

(* The tasks on the lists of a struct pid are the ones that point to it,   *)
(* and it is freed when the last one has left, not before: the result of   *)
(* attach_pid(), change_pid(), detach_pid() and transfer_pid() over every  *)
(* order of fork, exec, setsid, setpgid, exit and wait.                    *)
THEOREM LinksCorrect == Spec => []LinksExact
<1>1. Good(k, fork, opening, pidfd) => LinksExact
  <2>1. LinksIn(k) <=> LinksExact
    BY DEF LinksIn, LinksExact
  <2> QED
    BY <2>1 DEF Good
<1> QED
  BY <1>1, TaskInvariance, PTL

(* A struct pid is freed with its last reference.                          *)
THEOREM PidRefsCorrect == Spec => []PidRefsExact
<1>1. Good(k, fork, opening, pidfd) => PidRefsExact
  BY RefsMeaning DEF Good, Rest
<1> QED
  BY <1>1, TaskInvariance, PTL

=============================================================================
