# A TLA+ model of the skip-list PID allocator

The repository changes a Linux 5.4 kernel so that the numbers of a PID namespace
are kept in a skip list (`skiplist/`) or in a skip list with a red-black tree over
its top level (`rb-skiplist/`) instead of an IDR radix tree. This directory holds
TLA+ models of that code, the TLC runs that check them and the TLAPS proofs about
them. Paths below are relative to the repository.

## The system

| part | state | operations | what makes it correct |
|---|---|---|---|
| PID skip list, `skiplist/pid_skiplist.c` | `sl->level`, nodes with `key`, `pid`, `forward[]`, nodes queued for RCU | `init`, `insert`, `remove`, `destroy` under `pidmap_lock`; `lookup`, `find_ge`, `iter_next` under `rcu_read_lock()` | sorted towers between any two stores; no use after free, no leak; reads find what is there |
| PID allocator, `skiplist/pid.c` | `struct pid` (`count`, `level`, `numbers[]`, `tasks[]`), `ns->last_pid`, `ns->pid_allocated` | `alloc_pid`, `free_pid`, `put_pid`, `find_get_pid`, `attach_pid` ... | a number has one owner; every live struct pid is in the index of each of its namespaces; counts are exact |
| PID namespaces, `skiplist/pid_namespace.c` | `kref`, `child_reaper`, `/proc` mount, `proc_work` | `create_pid_namespace`, `put_pid_ns`, `zap_pid_ns_processes`, `ns_last_pid`, setns, reboot | the init sees its last process go; nothing is destroyed in use; everything is freed |
| RB skip list, `rb-skiplist/pid_rb_skiplist.c` | the above and the tree of top-level nodes | as the skip list | as the skip list, and tree nodes are linked nodes |
| allocator and namespaces of the RB variant, `rb-skiplist/pid*.c` | as above; the task lists of a struct pid, namespace files, ucounts | as above, on the RB skip list; `attach_pid`, `change_pid`, `transfer_pid`, `pidfd_open`, setns | as above; a struct pid is freed by the last task to leave it; no process leaves its namespace |
| SPU scheduler, `*/sched.c` | physical SPUs and the contexts bound to them, run queue, time slices, affinity of gangs, counters per node | `spu_activate`, `spu_deactivate`, `spu_yield`, `do_notify_spus_active`, the scheduler thread | an SPU is handed to one context at a time and to somebody; queue, bindings and counters agree |
| `/proc/loadavg`, `*/loadavg.c` | none | prints `last_pid` | |
| Kconfig, Makefile, `perf_pid_test.sh`, results | none | | |

How they interact. `alloc_pid()` makes one pass per namespace level: under
`pidmap_lock` it looks for a number whose lookup gives NULL and inserts it with a
NULL pointer, a *placeholder*. It then drops the lock, may sleep to mount `/proc`,
and takes the lock again to replace the placeholders by the struct pid, unless the
namespace has been disabled. `free_pid()` removes the numbers, wakes the init that
may be waiting in `zap_pid_ns_processes()`, queues the unmounting of `/proc` and
defers the last `put_pid()` by RCU. Readers (`kill`, `/proc`, `pidfd_open`, zap
itself) walk the list with no lock at all.

What is hard in it: readers that run between any two stores of the writer; memory
that is reused while a reader may still stand on it; placeholders, which are
entries to the index and absent numbers to its callers; error paths that undo part
of a multi-level allocation; a namespace that dies while forks into it are in
flight; three kinds of reference counts; a tree search that may land on the node
searched for; SPUs that change hands between two locks. `PROJECT.json` lists these hazards one by
one, with the property that would catch each.

## Modules

`PidMap` is what callers expect of the index: a map from numbers to pointers (or
NULL, the placeholder) in which insert, replace and remove happen at one instant.

`PidSkiplist` is `pid_skiplist.c`. A heap of cells stands for kmalloc memory; `w` is
the one writer (the caller holds `pidmap_lock`), `r[t]` a reader. Each action is one
store the writer makes to shared memory, or one pointer load of a reader:

| code | actions |
|---|---|
| the search loops of insert and remove | `SearchAdvance`, `SearchDescend` |
| `pid_skiplist_insert` | `InsertReplace`, or `InsertRaise` (raises `sl->level`), `InsertAlloc` or `InsertNoMemory`, then `InsertLink` once per level |
| `pid_skiplist_remove` | `RemoveAbsent`, or `RemoveFound`, `RemoveUnlink` once per level, `RemoveShrink`, `RemoveCallRcu` |
| `pid_sl_node_rcu_free` | the action of that name, once the readers recorded in `gp` have left |
| `pid_skiplist_destroy` | `DestroySync`, `DestroyWalk`, `DestroyNode`, `DestroyHeader` |
| lookup, find_ge, iter_next | `ReadBegin`, `ReadAdvance`, `ReadDescend`, `ReadLast`, then the action named after the function |

`InsertLink` merges the store to `x->forward[i]` with the one that links `x` on level
`i`: no reader loads `x->forward[i]` before it has met `x` on level `i` or above.
A call of iter_next is modelled with the loop around it, as in zap: it goes on from
the cursor until a NULL. `linked` and the fields `seen`, `stable`, `raced`, `hole` of a
reader are history variables, in which the properties are stated.

`PidSkiplistInv` states the inductive invariants `Inv` and, on top of it, `ReadInv`;
`PidSkiplistProofs` proves them and what follows from them.

`PidAlloc` is `pid.c` and `pid_namespace.c`. Namespaces form one chain and are named by
their level; level 0 is `init_pid_ns`. The index is an atomic map here (`PidMap`, which
the skip list is proved to implement). One action is one section under `pidmap_lock`
or `tasklist_lock`, so the sections of concurrent callers interleave:

| code | actions |
|---|---|
| `alloc_pid` | `alloc_pid` (the call), `Reserve` or `ReserveFails` per level, `Prepare` or `PrepareFails`, `Publish` or `PublishRefused`, `OutFree`, `ReturnError` |
| `copy_process` (external) | `AttachTask`, `ForkFails` |
| `free_pid` on exit | `Exit`, then `delayed_put_pid` |
| `find_get_pid`, `put_pid` | `find_vpid`, `get_pid`, `ReaderPut` |
| `zap_pid_ns_processes` | `ZapStart`, `ZapSignal`, then `ZapPrepareToSleep`, `ZapDone`, `ZapSleep`, `ZapWake` |
| namespaces | `create_pid_namespace`, `PutNsproxy` (external), `proc_cleanup_work`, `pid_ns_ctl_handler` |

A struct pid is free, new (inside `alloc_pid`), published, attached (a task has it),
dead (`free_pid` done, callback pending) or stale (only readers hold it). The zapping
task is the leader of the init's thread group or another thread of it, which gives
the two values of `init_pids`. `shared` (struct pids that were given one number) and
`missed` (namespaces whose zap left out a task) are history variables. The init task
also stands for the other tasks of level 0 that never exit; a killed task does not
start another fork; until a namespace has its init only the task that created it
forks into it. `PidAllocInv` states the inductive invariant; `PidAllocLemmas` and
`PidAllocProofs` prove it.

`RbSkiplist` is `rb-skiplist/pid_rb_skiplist.c`, driven by the reservation, publication
and return of numbers in `rb-skiplist/pid.c` (`Reserve`, `Publish`, `GiveBack`), each for
a struct pid and under the condition the code tests: a reservation needs a lookup that
gives NULL, which a placeholder or a lost publication of another call gives too, and a
publication is unconditional. The
red-black tree is the set of its nodes: rotations move none in or out. The writer
searches the tree in one step, under the lock, and gets the exact answer; its descent
(`SearchAdvance`, `SearchDescend`) and its stores are actions of their own, named as in
`PidSkiplist`. A reader searches the tree without a lock (`ReadTree`); if an
insertion overlaps the search, it ends on any tree node below the key, or on the
header. `reserved` and `bound` are the struct pids a number was reserved for and
published with, against which the index is compared: `Binding(k)` is what a search for
`k` can find, the pointers of its nodes outside the tree (`Findable`). Three histories
name what can go wrong with a number: `lost`, its publication found no memory;
`shared`, it was taken for free while another call had it; and, a function of the state,
`Spoiled`, a node in the tree has a struct pid for it. `RbSkiplistInv`
states the inductive invariants `Inv`, `BoundInv` and `ReadInv`; `RbSkiplistProofs` and
`RbSkiplistReads` prove them and what follows from them.

`PidTasks` is the part of `rb-skiplist/pid.c` and `pid_namespace.c` that does not depend
on the index, and is the same in both variants: the per-type task lists of a struct
pid, references to struct pids and to namespaces, `ucounts`, namespace files and
setns, on a tree of namespaces. One action is one system call or one section under
`tasklist_lock`:

| code | actions |
|---|---|
| `copy_process` (external) around `alloc_pid`, `attach_pid` | `Fork`, `ForkThread`, `ForkNewPid`, then `ForkAttach` or `ForkFails` |
| `exit` around `detach_pid`, `free_pid` | `Exit`, `Release`, then `delayed_put_pid` |
| `exec` around `transfer_pid`, `change_pid` | `de_thread` |
| `change_pid` | `setsid`, `setpgid` |
| `pidfd_open` | `find_get_pid`, `pidfd_open`, `pidfd_close` (external) |
| namespaces | `unshare`, `pidns_get`, `pidns_for_children_get`, `pidns_get_parent`, `pidns_put`, `pidns_install`, `delayed_free_pidns` |

`SpuSched` is `sched.c`, which differs in the two variants in one line of output only.
Every context has one thread in `spu_run()` (external), named after it; `Saver` are the
threads that save a context, `spusched` is the kernel thread. What happens under
`runq_lock` or a node's `list_mutex` is one step; the `state_mutex` of a context is
explicit (`owner`), because it is held across the steps of `spu_activate()`:

| code | actions |
|---|---|
| `spu_activate` | `Activate`, which takes the step of its `pc`: affinity, the scan for an idle SPU, `find_victim` (victims, trylock), loading, queueing, waiting |
| `spu_run` (external), `spu_deactivate`, `spu_yield` | `RunLoaded`, `RunSaved`, `RunEnds`, `spu_yield`; the second half of the hand-over is `spu_schedule` |
| `spu_acquire_saved` (external) | `SaveBegins`, `SaveRetakes`, `SaveEnds` |
| `do_notify_spus_active` | the action of that name |
| the timer, `spusched_thread`, `spusched_tick` | `spusched_wake`, `spusched_thread`, `spusched_tick` |

`SpuSchedInv` states the inductive invariants `SchedInv` and `CountInv`; `SpuSchedProofs`
proves them and what follows.

The modules named `MC...` hold the constants and symmetry sets of the runs.

## Runs

All runs are in `PROJECT.json`. Those that pass:

| run | what it shows | bounds |
|---|---|---|
| `PidSkiplist_readers` | towers, sorting, no leak, refinement of `PidMap`; no use after free with all read operations; lookups return only what their number was bound to; lookups and find_ge are right but for one race | 2 keys, 3 cells, 2 levels, 1 reader |
| `PidSkiplist_live` | iterations go up, repeat nothing, and leave out only what the race hides; removed nodes are freed, destroy completes | 2 keys, 2 cells, 2 levels, 1 reader |
| `PidAlloc_index` | entries have owners, live struct pids have entries, a failed first fork is undone, `pid_allocated` is exact, no lost wake-up, a reaper for every wake-up | 2 namespaces, 3 struct pids, 2 forks, failing allocations, writes to `ns_last_pid` |
| `PidAlloc_live` | readers reference no freed struct pid, `kref` is exact, nothing is destroyed in use; zap ends, zapped namespaces are freed | 2 namespaces, 3 struct pids, 1 fork, 1 reader, failing allocations |
| `RbSkiplist_index` | list, tree and heap agree; no use after free; lookups and iterations see what the callers published, although a number may have two nodes, and go wrong in the stated ways only for a number two calls have | 2 keys, 3 cells, 2 struct pids, 2 levels, 1 reader; constraints `Explored`, `Prompt` |
| `SpuSched_sched` | an SPU in hand is nobody else's; bindings, queue and counters agree; the `BUG_ON` is not met by contexts that are scheduled; SPUs are lost in two ways only | 3 contexts, 1 saver, 1 node with 2 SPUs, 2 priorities |
| `PidTasks_links` | the lists of a struct pid are exact and its last task frees it; exact references to struct pids and namespaces, and `ucounts`; no process leaves its namespace | 3 tasks, 3 struct pids, 3 namespaces of level up to 2 |

Why these bounds reach the interesting cases. Three cells for two keys let a freed
cell be reused under a reader, and give `RbSkiplist` a number with two nodes beside
another; two levels give nodes that are linked on one of two levels, a level that is
raised and dropped, and nodes in and out of the tree; two keys give a number below the
one searched for. One reader is enough for the properties that speak of one reader,
since readers write nothing. Two struct pids let two calls have one number, in every order
of their reservations, publications and returns. In `RbSkiplist_index` the action
constraint `Prompt` drops interleavings that no reader can tell: a cell is freed as soon
as its grace period is over, and a reader that has its answer leaves at once. The constraint
`Explored` cuts states to fit the time of a run: those with readers while a publication
is lost (the number then looks like its reservation); those in which number 1 is
shared, which has no number below it; and, with number 2 shared, those in which a read
is under way before a node is linked for it or the tree has a struct pid of it. Without `Explored` the properties
hold too, in 10.7 million states, and the theorems about `RbSkiplist` have neither
bound. `PID_MAX` 4 leaves three numbers, so that the scan wraps
around after two forks. Two namespaces give a reservation that fails on the outer
level after the inner one succeeded; the count `PIDNS_ADDING` is any number above the
largest count. In `PidTasks` three tasks are a leader, a thread and a child; three
namespaces are a chain, or a parent with two siblings, the cases `pidns_install` has to
tell apart. Bounds there: a namespace has at most one open file (the set `nsfile`; one
is open at a time but for that of a parent got from it), and only the tasks of
`PidfdCaller` call `pidfd_open`. In `SpuSched` two SPUs for a real-time context, a
normal one and one that is never preempted give an idle SPU, a victim and a full
node; the first two are a gang with affinity; `MAX_USER_PRIO` is such that every slice
is one tick, so that each tick can preempt.
Symmetry is used in safety runs only, among cells, among struct pids, tasks and
namespaces (but the initial ones), among threads and among readers, none of which the
specifications tell apart. Deadlock is checked in every run.

Runs that show where the code departs from what its comments say (`findings` in
`PROJECT.json` quotes them):

- `PidSkiplist_lookup_misses`: all reads end with a second load of `x->forward[0]`. If a
  smaller number is linked between the two loads, a lookup misses a process that is
  there (and find_ge, which does not compare the key, returns the smaller number).
- `PidAlloc_zap_misses`: a placeholder's NULL is taken for the end of an iteration, so a
  dying init does not signal the processes whose numbers are above one that is being
  allocated (and find_ge returns the NULL, which ends a scan of `/proc`).
- `PidAlloc_duplicate`: the scan in `alloc_pid()` takes a placeholder for a free number,
  and two processes get one number.
- `PidAlloc_retval`: `retval` is 0 when a dying namespace refuses the process, and
  `ERR_PTR(0)` is no error.
- `RbSkiplist_tree_kept`: `rb_find_le()` may return the node with the key itself, and the
  descent looks at its successors only. A number in the tree is then not found by
  remove: its node stays on the list and in the tree, with a NULL, until the namespace
  is destroyed. Its placeholder is not replaced either: the struct pid goes into a
  second node behind the first. `RbSkiplist_index` shows that what lookups see is
  right nevertheless, for a number that one call has.

The bug of `PidAlloc_duplicate` has a further effect in the RB variant, which
`RbSkiplist` shows and its properties state as an exception. Two calls reserve one
number; the first publishes it, and its process exits and takes the node out; the
publication of the second, which is unconditional, then allocates a node of any height,
which enters the tree if it is a full one. Every later lookup of the number starts on
that node and misses the process, its exit does not find the node to take it out, and
find_ge and iterations return its struct pid after that has been freed. Such a number
is in `Spoiled`. No comment or test speaks of it, so that no run is made of it.

The exceptions the passing properties carry are these.
`LookupMissesOnlyInWindow`, `FindGeIsFirst` and `IterationComplete` exclude the
readers the race or a placeholder has hit. In the RB variant `IndexExact` excludes numbers
whose second node found no memory (`lost`) and numbers that `alloc_pid()` gave to a second
call while a first had them, until all have given them back and for good if they
are spoiled (`shared`). `LookupRight` and `IterationRight` speak of the numbers searches can
find (`Binding`), which are the published ones by `IndexExact`; they exclude the race, a
placeholder, a tree search that an insertion overlapped, and of a spoiled number that the
struct pid returned was in use and that an iteration meets it once only.
`IndexedUnlessShared` excludes struct pids that
share a number, `ZapEnds` namespaces where a task was missed. `NamespaceFreed`
excludes a late fork that wraps around to number 1 of a zapped
namespace, mounts `/proc` there again, is refused, and leaves the mount behind.
`DestroyedUnused` excludes the cleanup work of a namespace that never had a process with
number 1. If an insertion in the scan of `alloc_pid()` finds no memory (`pid.c:245`), the
scan goes on to the next number. The first process of a namespace may then get number 2:
it is no child_reaper and `/proc` is not mounted. When it exits, `free_pid()` queues
`proc_work` with no reference to the namespace, which can be destroyed with the work
queued, where the comment at `pid_namespace.c:271` counts on the reference of a mount.

What the model of the scheduler shows beside the properties that hold, none of it
against a line that could be quoted, so that there is no run for it:

- `SpuLostOnlyByHandover` names the two ways an SPU stays in use with nobody on it:
  `__spu_deactivate()` grabs a `SPU_CREATE_NOSCHED` context, which is only woken, or the
  context grabbed got another SPU before `spu_schedule()` locked it.
- A woken `NOSCHED` context goes on to take an SPU without looking at `ctx->spu` again, and
  may be bound twice; it may also meet the `BUG_ON` of `__spu_update_sched_info()` while
  a saver waits for it. `BindingExact` and `UpdateNotQueued` leave these contexts out.
- A context that finds no SPU just before the last one is freed queues itself after
  that (`sched.c:814`), and with all SPUs idle nothing takes it off the queue. There is
  therefore no liveness property of the scheduler.
- `nr_active` of one node and `aff_sched_count` of a gang may go below zero; the sum over
  the nodes is exact.
- `do_notify_spus_active()` may find an SPU in use whose context is NULL.

Each property of each passing run has a mutant in `PROJECT.json`: a plausible slip in
the code, defined before the definition it replaces, that violates the property.

## Fairness

`PidSkiplist!FairSpec`: weak fairness of the writer inside an operation (it holds a spin
lock with interrupts off), of each reader inside its section (it does not sleep), and
of RCU callbacks whose grace period is over. Nothing makes anyone start an operation.

`PidAlloc!FairSpec`: weak fairness of a fork in progress, of a reader, of RCU, of the
workqueue and of the zapping task while it is runnable; a killed task exits, or zaps
first if it is an init; tasks that finished zapping exit. No fairness of tasks that
were not signalled.

`RbSkiplist`, `PidTasks` and `SpuSched` are checked for safety only, without fairness. The
liveness of the RB variant's list would be that of `PidSkiplist`; that of the scheduler
fails as said above.

## Proofs

`PidSkiplistProofs` proves, for any finite or infinite sets of keys, cells, struct pids
and readers and any number of levels, from the assumptions in `PidSkiplist`
(`KeyAssumption`: the header's key is below all keys; `LevelAssumption`: there is a
level; `CellAssumption`: the header, NULL and "absent" are different things;
`CallAssumption`: the types of the callers' arguments):

- `Invariance`: `Spec => []Inv`;
- `TypeCorrect`, `ListSorted`, `TowersStand`, `MemorySafe`, `LeakFree`: the type invariant,
  `ChainOK`, `TowersOK`, `NoUseAfterFree` and `NoLeak` are invariants;
- `Refinement`: `Spec => ImplementsMap`, every step of the list is a step of the atomic
  map or leaves it unchanged.

`ChainOK` is not inductive by itself: it has to be known what `update[]` means while the
writer is between two stores (`WriterInv`), that a node is on all levels below its
height or in the writer's hand (`LevelInv`), and that allocated cells are on the list,
queued or in hand (`HeapInv`). The point of `MemorySafe` is `RcuInv`: a node that is not
queued points only to nodes that are not queued, and a queued node protected for a
reader points only to nodes protected for the same reader. Unlinking keeps this
because a removed node keeps its own pointers, and `call_rcu()` because the readers
it waits for are all the active ones, hence a superset of those of any node queued
before. There is one lemma per action; the refinement rests on `Bindings`, that the
map is the graph of `key` and `pid` over the nodes linked at level 0.

Its last part proves what reads answer, under the same assumptions: `LookupsSound`,
`LookupsMissInWindow`, `FindGeFirst`, `IterationsComplete` (the invariants `LookupSound`,
`LookupMissesOnlyInWindow`, `FindGeIsFirst`, `IterationComplete`) and `IterationsIncrease`
(the action property `IterationIncreases`). They follow from `ReadInv`, which is inductive
given `Inv`. Its heart is `RemovedInv`: a removed node that is kept for a reader still
points upwards, to a node not beyond any number that was bound throughout the reader's
section, because such a number was there when the node was unlinked and has stayed.
`UnlinkedInv` says so of the node in the writer's hand, which readers may still enter on
a higher level, `BoundInv` ties the history variables `stable` and `seen` to the linked nodes,
and `WalkInv` and `EvalInv` place the reader relative to the number it searches for. The
lemma `Ahead` puts them together: wherever a reader stands, linked, in hand or removed,
keys go up and nothing is skipped. Between the two loads of `forward[0]` only an insertion
can bring in a smaller number, and that is the race (`raced`).

`PidAllocProofs` proves, for any depth of namespaces, any finite sets of struct pids,
forking threads and readers and any `PID_MAX`, with and without failing allocations, from
`PidAssumption` in `PidAlloc` (the sets are finite, because counts are cardinalities; the
flag `PIDNS_ADDING` is above every count; `InitPid` is a struct pid and NULL is none):

- `Invariance`: `Spec => []Inv`, where `Inv` is in `PidAllocInv`;
- `TypeCorrect`, `EntriesHaveOwners`, `LiveIsIndexed`, `AllocatedIsCount`, `KrefIsHolders`,
  `CountsCoverReaders`, `FirstScanFromOne`, `WakeupNotLost`: the invariants `TypeOK`,
  `EntriesOwned`, `IndexedUnlessShared`, `CountExact`, `KrefExact`, `RefcountSafe`,
  `FirstIsReaper` and `NoLostWakeup`;
- `ReaperThere`: the action property `ReaperAtHand`.

The conjuncts of `Inv`, and what each is needed for. `ThreadInv`: a struct pid inside
`alloc_pid()` belongs to one call, and the numbers it has are those above `i`; without it
`out_free` could give back somebody else's. `PidInv`: a live struct pid has all of its
numbers, so that `free_pid()` removes them all. `ForkInv`: the forking task is alive,
keeps its nsproxy and is not zapping, and a namespace without a reaper is forked into
from its parent only; this is what keeps the namespaces of a fork in flight. `BootInv`:
number 1 of `init_pid_ns` is never given out. `RefInv`: `pid->count` is one for the task and
one per reader that holds it, and a reader in its section keeps a freed struct pid
from its delayed put. `IndexInv`: a number held twice is in `shared` for both, and the
numbers of a call that shares none are placeholders; `EntriesOwned` and
`IndexedUnlessShared` hold only together with it, since giving back a number removes
whatever the index has there. `ChainInv`: a namespace outlives its descendants, from
`KrefExact`. `CountInv`: `pid_allocated` is the count, with or without the flag. `ReaperInv`:
the stages of a namespace's life (no reaper and nobody there, or its flag still set; a
living reaper with number 1; a thread group that zaps and is last to go), from
which `ReaperAtHand` and, with `CountInv`, `NoLostWakeup` follow: a count of 1 or 2 is reached
only while the zapping group is still there. `FirstInv`: in a namespace that
never had a process `last_pid` is 0 unless a fork is on its way.

`PidAllocLemmas` has what the steps do: the effect of each operation on counts, holders and
index as facts about single namespaces and struct pids, and the conjuncts that speak of
reference counts and of existence (`BaseStep`), which depend on one another.
`PidAllocProofs` has one lemma for each other conjunct, split by action; `SameLiveSteps`,
`SameCountSteps`, `SameReaperSteps` and `SameFirstSteps` say which actions cannot disturb what.
The invariant was also checked with TLC, on the instance of `PidAlloc_index`.

`RbSkiplistProofs` and `RbSkiplistReads` prove all that is checked of `RbSkiplist`, for any sets
of keys, cells, struct pids and readers and any number of levels, from the assumptions
of the same names and meaning as those of `PidSkiplist`:

- `Invariance`, `Bindings`, `ReadInvariance`: `Spec => []Inv`, `[]BoundInv` and `[]ReadInv`, three
  invariants (`RbSkiplistInv`) of which each is inductive given those before it;
- `Structure`, `MemorySafe`, from `Inv`: `StructureOK` and `NoUseAfterFree` are invariants;
- `Exact`, from `Inv` and `BoundInv`: `IndexExact` is an invariant;
- `LookupsRight`, `IterationsRight`, from `ReadInv`: `LookupRight` and `IterationRight` are.

The difficulty against `PidSkiplist` is that a number may have two nodes, so that keys do
not order the list. `pos` numbers the nodes in the order they have (twice the key, and
one more outside the tree), and `place` is where a node outside the tree with the
writer's key belongs; `update[i]` is the last cell of its level before that place. The
heart of `Inv` is the last conjunct of the search in `WriterInv`: a search for a key that is
in the tree starts on its node and stays there, since it only moves to smaller keys.
Hence the node it ends before is never one of the tree, nothing is ever erased from
the tree before `destroy()`, and a candidate set of a reader stays good (`ReaderInv`).
None of this depends on what the callers do with a number. This
is why `rb_erase()` without a grace period for the tree's own pointers does no harm, and
why the tree is not empty at the end (`RbSkiplist_tree_kept`). `TreeInv`: of two nodes with
one key exactly one is in the tree.

`BoundInv` ties the index to the callers. A number that one call has is settled
(`SettledAlone`): it is bound to the pointer of its one findable node, has at most a
placeholder while it is reserved, and nothing findable once given back or lost. Its
second node is allocated only when its placeholder is in the tree, which does not take
the second: so the tree has placeholders only of such numbers, and `Spoiled` numbers are
shared ones. Of a shared number `BoundInv` says only that there is one findable node
at most, and that it is reserved again only while that node has no struct pid. `AtHand` is
what an operation in progress knows of its number; a number becomes unshared when its last
holder returns it and the tree has no struct pid of it, which is when it is settled again.
`ReadInv` is built as in `PidSkiplist`. What is new in it: a reader that was not led astray in
the tree has passed the node of its number there (`WalkInv`), so that the node it
answers from is outside the tree and, by `StableNode`, has the pointer; an iteration
visits nodes with a struct pid only, which for a number that is not spoiled are outside
the tree, so that the next number is larger and not equal. That the pointer of a node
with the reader's number is one that was findable in its section (`Known`) is claimed
unless the number is spoiled. The three invariants were also checked with TLC, on the instance
of `RbSkiplist_index`.

`SpuSchedProofs` proves all that is checked of `SpuSched`, for any finite sets of contexts,
SPUs and saving threads, any number of nodes and priorities, any affinity and any
scheduling parameters that `spu_update_sched_info()` may read, from the assumptions in `SpuSched`
(`SpusAssumption`: every SPU is on one node and once in its list; `PrioAssumption`: the
constants of the time slice are numbers, the shortest slice is not 0; `CtxAssumption`:
contexts, threads, SPUs and NULL are different things, and the types of the rest):

- `SchedInvHolds`: `Spec => []SchedInv`, where `SchedInv` is in `SpuSchedInv`;
- `HandsExclusiveHolds`, `BindingExactHolds`, `QueueExactHolds`, `UpdateNotQueuedHolds`: the
  invariants of those names;
- `SpuLostOnlyByHandoverHolds`: the action property `SpuLostOnlyByHandover`;
- `CountInvHolds`: `Spec => []CountInv`, inductive given `SchedInv`; `CountsExactHolds`: the
  invariant `CountsExact`, which includes the type of all state.

`HandsExclusive` and `BindingExact` are inductive only together, and only with what the
locks give. `OwnerInv`: a thread in `spu_activate()` or with a saved context has the
`state_mutex`. `ActivateInv`: the context it activates is not loaded, if it may be
preempted; without it `__spu_schedule()` could give one context two SPUs. This holds
because `spu_schedule()`, which loads a context on behalf of others, takes its
`state_mutex` first and looks at `ctx->state`, and it is the reason why `BindingExact` leaves
out SPU_CREATE_NOSCHED contexts: those sleep in `spu_prio_wait()` without the mutex and
are activated without another look. `RunInv`: SPU_SCHED_SPU_RUN is set just while the
context's thread runs, and a preemptible context is queued only then; a context that
`spu_release_saved()` activates is therefore in `spu_run()`, and whatever queues it may do
so. `UpdateNotQueued` follows from `RunInv`. `SliceInv`: a loaded context has a tick left.
`LocalsInv` says what a thread's locals are where it uses them. The SPUs change hands in
four ways only (`HandsNone`, `HandsTake`, `HandsUnload`, `HandsLoad`), and `Step` has the other
conjuncts; each action is one of the four. The first lemmas give the effects of the
operators on the records `spus` and `spu_prio`, in particular that `__spu_add_to_rq()` and
`__spu_del_from_rq()` keep the queue exact and that `grab_runnable_context()` returns a
context that waits.

`CountInv` says of each counter what it counts, in sets that the code does not keep
(`Active`, `ReservedOn`, `BusyOn`, `GangSpus`, `Placing`). Loading and unloading an SPU change
each of these by one element or by none (`MoreSpus`), on the node of the SPU and in the
gang of the context, and `UnloadCounts`, `LoadCounts` and `SwitchCounts` show that the
counters follow. They do because a context that loses an SPU is the one on it
(`BindingExact`), because an SPU that is loaded has none (`HandsExclusive`), and because the
search of `find_victim()` that meets a victim has a node to count down, if perhaps not
that of the SPU: the counts of single nodes are not exact, their sum is. The gang is
counted up before the thread has an SPU and down when the SPU is lost, but never below 0
by that, so that its count is bounded by the SPUs with its contexts and the threads
about to load one (`PlacingMoves`); it is the SPUs that are counted since a
SPU_CREATE_NOSCHED context may be on two. That the sum over the nodes, a recursive function
of the fold library, exists and changes with one of its values (`SumChanges`) is proved
without the induction theorems, from the subsets of at most m nodes for every m. Both
invariants were also checked with TLC, on the instance of `SpuSched_sched`, and, as far as
time allowed, on one with two nodes.

`PidTasksProofs` and `PidTasksSpaces` prove all that is checked of `PidTasks`, for any finite
sets of tasks, struct pids and namespaces, any depth and any limit of namespaces, from
`SlotsAssumption` (slots of different kinds and NULL are different things):

- `TaskInvariance`: `Spec => []Good(k, fork, opening, pidfd)`, the part of `PidTasksInv` that is
  about tasks and struct pids and is inductive by itself;
- `LinksCorrect`, `PidRefsCorrect`, from `Good`: the invariants `LinksExact` and `PidRefsExact`;
- `SpaceInvariance`: `Spec => []Inv`, with the namespaces;
- `NsRefsCorrect`, `NoEscapeHolds`, from `Inv`: the invariants `NsRefsExact` and `NoEscape`.

The lists are not exact inside an action, which moves a task from list to list:
`LinksBut(s, t, Y)` says that they are exact but for a task that is missing on those of the
types `Y`, and is what `__change_pid()` and `attach_pid()` are proved to make and to mend.
What a count is worth needs `SlotInv` (a used struct pid has a reference) and `ForkIn` (a
fork in progress has a struct pid of state "new" to itself), since the struct pid that a
task is attached to must be one that nobody can free meanwhile.

The namespaces are a tree (`Tree(N, b)`): every ancestor of a namespace in use is in use
(`PathInv`), and its `kref` is the number of its children and of `b[n]` other references, and
is positive just while it is in use. `get_pid_ns()`, `create_pid_namespace()` and
`put_pid_ns()` turn a `Tree(N, b)` into one with one reference more or less in `b`; for
`put_pid_ns()`, whose loop may destroy several ancestors, this is because the namespaces
on the way down from the first that survives have no child but the next one (`GoneKids`,
`StopKids`). In a state of the program `b` is `Holding`: the struct pids, nsproxies, forks and
files. An action adds references and drops others one at a time, or hands one on (a
fork's becomes the new task's, `HoldsMoves`), so a `Tree` is kept from call to call although
`Holding` is exact only at the end of the action. `Spaces` adds what `NoEscape` needs: a thread is in the namespace of its
leader, so that `exec`, which gives a thread the leader's struct pid, moves nobody;
a struct pid has a number in every namespace on the path of its own (`NumberInv`); and a
fork is for a namespace at or below that of its task. For each action `PidTasksProofs`
says what it does to tasks and struct pids (`Quiet`, `PutsLast`, `Forked`, `Born`, `Takes`), and
`PidTasksSpaces` uses only that. `Inv` was also checked with TLC, on the instance of
`PidTasks_links`.

Only model-checked: `DestroyedUnused` of `PidAlloc`, and liveness (`RemovedAreFreed`,
`DestroyCompletes`, `ZapEnds`, `NamespaceFreed`), which needs fairness and is outside
TLAPS's reach here.

## Not modelled

- Weak memory: stores are seen in program order, as on x86. `WRITE_ONCE()` without a
  release barrier may not be enough elsewhere.
- The distribution of random levels. The code gives heights 1 to 8 and 16 (32 bits, 4
  per level); the repository's README speaks of 50% and 32 levels.
- The context of a call: `put_pid()` in an RCU callback can reach `synchronize_rcu()`.
- In `PidAlloc`: sibling namespaces, changes of `pid_max` at run time, thread groups
  beyond the init's, the loop that reaps zombies in zap (exit and reaping are one step),
  and the error code for a full namespace (`nr` is -1, never `-ENOSPC`, at `pid.c:279`, so fork
  gives `EPERM` for `EAGAIN`).
- `reboot_pid_ns()`, which records an exit code and sends a signal; the slab caches for
  struct pids of each level; the capability checks of setns and `pid_ns_ctl_handler()`;
  the translations of a struct pid to a number (`pid_vnr()` ...), which only read.
- In `SpuSched`: `spu_sched_init()` and `spu_sched_exit()`, the load averages, reference
  counts of contexts, what is saved and restored, faults and signals inside
  `spu_run()`, timers that fire while they are deleted; more than one node in the run
  (the module has them).
- `loadavg.c`, which prints `last_pid` (one less than the IDR's cursor would be), and the
  configuration files, scripts and results.

## Plan

1. `PidSkiplist`, `PidMap`, the invariant and its proofs; `PidAlloc` (done).
2. `RbSkiplist`, `PidTasks`, `SpuSched` (done).
3. Proofs about `PidAlloc` (done).
4. Proofs of the properties of reads of `PidSkiplist` (done).
5. Proofs about `SpuSched` (done).
6. Proofs about `RbSkiplist` (done).
7. Proofs about `PidTasks` (done).
