------------------------------ MODULE SpuSched ------------------------------
(***************************************************************************)
(* The SPU scheduler, sched.c: contexts are loaded on physical SPUs, wait  *)
(* in the run queue, are preempted by the tick of the spusched thread and  *)
(* by real-time contexts, and are unloaded by their users.                 *)
(*                                                                         *)
(* Threads.  Every context c has one thread in spu_run(), named c itself;  *)
(* Saver holds the threads that save a context (spu_acquire_saved());      *)
(* spusched is the kernel thread of the tick.  What happens under          *)
(* runq_lock or a node's list_mutex is one step.  The state_mutex of a     *)
(* context is explicit, in owner: it is held over the several steps of     *)
(* spu_activate(), is taken blindly by spu_schedule() and spusched_tick(), *)
(* and is only tried by find_victim().  A section that takes and releases  *)
(* a state_mutex without waiting in between is one step too.               *)
(***************************************************************************)
EXTENDS Integers, Sequences, FiniteSets, SequencesExt, FiniteSetsExt, Functions

CONSTANTS
  Ctx,                  \* struct spu_context
  Saver, spusched,      \* the other threads
  Saved,                \* the contexts that Saver saves
  MAX_NUMNODES,
  SpuList,              \* SpuList[n], the SPUs of node n in list order,
                        \* which is their order in the ring aff_list too
  MAX_PRIO, MAX_RT_PRIO, MAX_USER_PRIO, NORMAL_PRIO,
  DEF_SPU_TIMESLICE, MIN_SPU_TIMESLICE,
  SchedInfo,            \* what spu_update_sched_info() may read, by context
  NoSched,              \* the contexts created with SPU_CREATE_NOSCHED
  Gang, GangOf,         \* spu_gang, and the gang of a context or NULL
  AffList, AffRef,      \* aff_list_head and aff_ref_ctx of a gang
  MemAff, HasMemAff,    \* SPU_CREATE_AFFINITY_MEM; spu->has_mem_affinity
  NULL

Node == 0 .. MAX_NUMNODES - 1
Prio == 0 .. MAX_PRIO - 1
Spu == UNION {Range(SpuList[n]) : n \in Node}
Thread == Ctx \cup Saver \cup {spusched}

NodeOf(s) == CHOOSE n \in Node : s \in Range(SpuList[n])

ASSUME SpusAssumption ==
  /\ MAX_NUMNODES \in Nat \ {0}
  /\ SpuList \in [Node -> Seq(Spu)]
  /\ \A n \in Node : IsInjective(SpuList[n])
  /\ \A m, n \in Node : m # n =>
       Range(SpuList[m]) \cap Range(SpuList[n]) = {}
ASSUME PrioAssumption ==
  /\ MAX_PRIO \in Nat /\ MAX_RT_PRIO \in Nat /\ NORMAL_PRIO \in Nat
  /\ MAX_USER_PRIO \in Nat /\ MAX_USER_PRIO >= 2
  /\ DEF_SPU_TIMESLICE \in Nat /\ MIN_SPU_TIMESLICE \in Nat \ {0}
ASSUME CtxAssumption ==
  /\ IsFiniteSet(Ctx) /\ IsFiniteSet(Saver)
  /\ Ctx \cap Saver = {} /\ spusched \notin Ctx \cup Saver
  /\ Saved \subseteq Ctx
  /\ NULL \notin Thread \cup Spu \cup Gang
  /\ SchedInfo \in [Ctx -> SUBSET [prio : Prio, fifo : BOOLEAN,
                                   cpus : SUBSET Node]]
  /\ GangOf \in [Ctx -> Gang \cup {NULL}]
  /\ AffList \in [Gang -> Seq(Ctx)] /\ AffRef \in [Gang -> Ctx]
  /\ NoSched \subseteq Ctx

VARIABLES
  spus,         \* the SPUs and the contexts they hold, see Init
  spu_prio,     \* the run queue and the timer
  info,         \* [prio, fifo, cpus] of a context
  spu_run,      \* the contexts with SPU_SCHED_SPU_RUN set
  owner,        \* holder of a context's state_mutex, or NULL
  woken,        \* contexts whose thread was woken out of spu_prio_wait()
  th            \* [pc, ctx, spu, new, todo] of a thread

vars == <<spus, spu_prio, info, spu_run, owner, woken, th>>

Local(pc, c, s, d, todo) ==
  [pc |-> pc, ctx |-> c, spu |-> s, new |-> d, todo |-> todo]
Idle == Local("idle", NULL, NULL, NULL, <<>>)
At(t, pc) == th' = [th EXCEPT ![t] = Local(pc, @.ctx, NULL, NULL, <<>>)]
Rests(t) == th' = [th EXCEPT ![t] = Idle]

-----------------------------------------------------------------------------
(* Priorities, nodes and the time slice.                                   *)

rt_prio(p) == p < MAX_RT_PRIO

SCALE_PRIO(x, p) ==
  Max({(x * (MAX_PRIO - p)) \div (MAX_USER_PRIO \div 2), MIN_SPU_TIMESLICE})

Timeslice(p) ==
  SCALE_PRIO(IF p < NORMAL_PRIO THEN DEF_SPU_TIMESLICE * 4
                                ELSE DEF_SPU_TIMESLICE, p)

spu_set_timeslice(l, c) ==
  [l EXCEPT !.time_slice[c] = Timeslice(info[c].prio)]

node_allowed(c, n) == n \in info[c].cpus

\* The entry of a list that a loop finds first, of those in S.
First(seq, S) == seq[Min({i \in DOMAIN seq : seq[i] \in S})]

\* The search passes over the nodes that are not allowed.
NextAllowed(c, nodes) ==
  LET ok == {i \in DOMAIN nodes : node_allowed(c, nodes[i])}
  IN  IF ok = {} THEN <<>> ELSE SubSeq(nodes, Min(ok), Len(nodes))

\* raw_smp_processor_id() may be on any node; the search goes on from there.
NodeOrder(start) ==
  [i \in 1 .. MAX_NUMNODES |-> (start + i - 1) % MAX_NUMNODES]
NodesFrom(c, start) == NextAllowed(c, NodeOrder(start))

-----------------------------------------------------------------------------
(* The run queue: operators on the record spu_prio.                        *)

OnRq(q, c) == \E p \in Prio : c \in Range(q.runq[p])

\* Mutant: the context is appended although it waits already.
AddAgain(q, c) ==
  [q EXCEPT !.runq[info[c].prio] = Append(@, c),
            !.bitmap = @ \cup {info[c].prio},
            !.nr_waiting = @ + 1,
            !.armed = IF q.nr_waiting = 0 THEN TRUE ELSE @]

__spu_add_to_rq(q, c) ==
  IF OnRq(q, c) THEN q
  ELSE [q EXCEPT !.runq[info[c].prio] = Append(@, c),
                 !.bitmap = @ \cup {info[c].prio},
                 !.nr_waiting = @ + 1,
                 !.armed = IF q.nr_waiting = 0 THEN TRUE ELSE @]

__spu_del_from_rq(q, c) ==
  IF ~OnRq(q, c) THEN q
  ELSE LET left == [p \in Prio |-> RemoveFirst(q.runq[p], c)]
           bit  == info[c].prio
       IN  [q EXCEPT !.runq = left,
                     !.bitmap = IF left[bit] = <<>> THEN @ \ {bit} ELSE @,
                     !.nr_waiting = @ - 1,
                     !.armed = IF q.nr_waiting = 1 THEN FALSE ELSE @]

\* Mutant: SPU_SCHED_SPU_RUN is not looked at.
RequeueAlways(q, c) == __spu_add_to_rq(q, c)

\* A context that loses its SPU waits for another if its thread is in
\* spu_run().
Requeue(q, c) == IF c \in spu_run THEN __spu_add_to_rq(q, c) ELSE q

\* The context that grab_runnable_context() returns; it also dequeues it.
grab_runnable_context(q, prio, n) ==
  LET Fit(p) == {c \in Range(q.runq[p]) : node_allowed(c, n)}
      best   == {p \in 0 .. prio - 1 :
                   (\E b \in q.bitmap : b <= p) /\ Fit(p) # {}}
  IN  IF best = {} THEN NULL ELSE First(q.runq[Min(best)], Fit(Min(best)))

-----------------------------------------------------------------------------
(* SPUs and contexts: operators on the record spus.  ctx->state is         *)
(* SPU_STATE_RUNNABLE exactly while ctx->spu is set, and is not kept.      *)

\* Of ctx->stats.util_state only SPU_UTIL_USER or not is kept.
spuctx_switch_state(l, c, user) ==
  LET at   == {NodeOf(s) : s \in {l.spuOf[c]} \ {NULL}}
      u(x) == IF x THEN 1 ELSE 0
  IN  [l EXCEPT !.util_user[c] = user,
                !.busy_spus = [n \in Node |-> IF n \notin at THEN @[n]
                                 ELSE @[n] - u(l.util_user[c]) + u(user)]]

Reserves(c) == IF c \in NoSched THEN 1 ELSE 0

spu_bind_context(l, s, c) ==
  LET sys   == spuctx_switch_state(l, c, FALSE)
      bound == [sys EXCEPT !.reserved_spus[NodeOf(s)] = @ + Reserves(c),
                           !.ctxOf[s] = c,
                           !.spuOf[c] = s]
  IN  spuctx_switch_state(bound, c, TRUE)

\* Mutant: the context is not switched out of SPU_UTIL_USER first.
UnbindBusy(l, s, c) ==
  [l EXCEPT !.reserved_spus[NodeOf(s)] = @ - Reserves(l.ctxOf[s]),
            !.ctxOf[s] = NULL, !.spuOf[c] = NULL, !.util_user[c] = FALSE]

\* Mutant: the SPU keeps its pointer to the context.
UnbindKeeps(l, s, c) ==
  [spuctx_switch_state(l, c, FALSE) EXCEPT
     !.reserved_spus[NodeOf(s)] = @ - Reserves(l.ctxOf[s]),
     !.spuOf[c] = NULL]

spu_unbind_context(l, s, c) ==
  LET sys   == spuctx_switch_state(l, c, FALSE)
      saved == [sys EXCEPT !.reserved_spus[NodeOf(s)] = @ - Reserves(l.ctxOf[s]),
                           !.aff_sched_count = [g \in Gang |->
                              IF g = GangOf[c] /\ @[g] > 0 THEN @[g] - 1
                                                           ELSE @[g]],
                           !.ctxOf[s] = NULL]
  IN  [spuctx_switch_state(saved, c, FALSE) EXCEPT !.spuOf[c] = NULL]

\* The unloading half of find_victim() and of spu_unschedule(): n is the
\* node whose nr_active is counted down.
Unload(l, n, s, c) ==
  spu_unbind_context([l EXCEPT !.nr_active[n] = @ - 1], s, c)

\* Mutant: the SPU is made free although another context is to get it.
UnscheduleFrees(l, s, c, free_spu) ==
  Unload([l EXCEPT !.used = @ \ {s}], NodeOf(s), s, c)

\* Mutant: the SPU is not made free although no context is to get it.
UnscheduleKeeps(l, s, c, free_spu) == Unload(l, NodeOf(s), s, c)

spu_unschedule(l, s, c, free_spu) ==
  Unload([l EXCEPT !.used = IF free_spu THEN @ \ {s} ELSE @], NodeOf(s), s, c)

\* __spu_schedule(): its effect on the SPUs and its effect on the queue.
Load(l, s, c) ==
  LET m == spu_set_timeslice(l, c)
  IN  IF l.ctxOf[s] # NULL THEN m
      ELSE [spu_bind_context(m, s, c) EXCEPT !.nr_active[NodeOf(s)] = @ + 1,
                                             !.used = @ \cup {s}]
LoadFails(q, s, c) ==
  IF spus.ctxOf[s] = NULL THEN q ELSE __spu_add_to_rq(q, c)

-----------------------------------------------------------------------------
(* Affinity: the contexts of a gang's aff_list are placed around the SPU   *)
(* of the reference context, in the ring of the SPUs of one node.          *)

sched_spu(s) == spus.ctxOf[s] = NULL \/ spus.ctxOf[s] \notin NoSched

contexts(g) == Cardinality({c \in Ctx : GangOf[c] = g})
HasAffList(c) == GangOf[c] # NULL /\ c \in Range(AffList[GangOf[c]])
Position(seq, x) == CHOOSE i \in DOMAIN seq : seq[i] = x

\* aff_set_offsets(): distance from the reference context in the list.
aff_offset(c) ==
  IF ~HasAffList(c) THEN 0
  ELSE LET g == GangOf[c]
       IN  Position(AffList[g], c) - Position(AffList[g], AffRef[g])

\* SPUs of node n that no gang with a reference SPU in refs will need.
available_spus(n, refs) ==
  Len(SpuList[n]) - MapThenSumSet(
    LAMBDA s : contexts(GangOf[spus.ctxOf[s]]),
    {s \in Range(SpuList[n]) :
       LET c == spus.ctxOf[s]
       IN  /\ c # NULL
           /\ GangOf[c] # NULL
           /\ aff_offset(c) = 0
           /\ refs[GangOf[c]] # NULL})

\* The reference SPU of gang g when the search begins at node start.
aff_ref_location(g, start, refs) ==
  LET Fit(n) == {s \in Range(SpuList[n]) :
                   (AffRef[g] \in MemAff => s \in HasMemAff) /\ sched_spu(s)}
      room   == {n \in Range(NodeOrder(start)) :
                   /\ node_allowed(AffRef[g], n)
                   /\ available_spus(n, refs) >= contexts(g)
                   /\ Fit(n) # {}}
      node   == First(NodeOrder(start), room)
  IN  IF room = {} THEN NULL ELSE First(SpuList[node], Fit(node))

\* The SPU at a distance of offset schedulable SPUs from ref.  The loops of
\* the code stop one SPU short of a full turn, whatever is left of offset.
ctx_location(ref, offset) ==
  LET ring == SpuList[NodeOf(ref)]
      size == Len(ring)
      from == Position(ring, ref) - 1
      Nth(k) == ring[((from + IF offset >= 0 THEN k ELSE -k) % size) + 1]
      Passed(k) == Cardinality({j \in 0 .. k - 1 : sched_spu(Nth(j))})
      dist == IF offset >= 0 THEN offset ELSE -offset
  IN  Nth(Min({k \in 0 .. size - 1 : k = size - 1 \/ Passed(k) = dist}))

\* The values has_affinity() may leave in aff_ref_spu of gang g.
has_affinity(g) ==
  LET refs == IF spus.aff_sched_count[g] = 0
              THEN [spus.aff_ref_spu EXCEPT ![g] = NULL] ELSE spus.aff_ref_spu
  IN  IF refs[g] # NULL THEN {refs[g]}
      ELSE {aff_ref_location(g, start, refs) : start \in Node}

-----------------------------------------------------------------------------
(* spu_activate(): the caller t holds the state_mutex of th[t].ctx.        *)

Steps(t, S) == \E x \in S : th' = [th EXCEPT ![t] = x]

\* It returns 0: spu_run() sets SPU_SCHED_SPU_RUN and waits for the SPU to
\* stop, spu_release_saved() is done; both release the context.
Activated(t) ==
  LET c == th[t].ctx
  IN  /\ owner' = [owner EXCEPT ![c] = NULL]
      /\ spu_run' = IF t = c THEN spu_run \cup {c} ELSE spu_run
      /\ IF t = c THEN At(t, "running") ELSE Rests(t)

\* It returns -ERESTARTSYS.
Interrupted(t) ==
  /\ owner' = [owner EXCEPT ![th[t].ctx] = NULL]
  /\ Rests(t)
  /\ UNCHANGED spu_run

ActivateSignalled(t) ==
  /\ th[t].pc = "activate"
  /\ Interrupted(t)
  /\ UNCHANGED <<spus, spu_prio, info, woken>>

\* spu_get_idle(), as far as the gang decides where to look.
GetIdle(t) ==
  LET c == th[t].ctx
      g == GangOf[c]
      scan == {Local("scan", c, NULL, NULL, NodesFrom(c, n)) : n \in Node}
  IN  /\ th[t].pc = "activate"
      /\ \/ /\ ~HasAffList(c)
            /\ Steps(t, scan)
            /\ UNCHANGED spus
         \/ /\ HasAffList(c)
            /\ \E ref \in has_affinity(g) :
                 /\ spus' = [spus EXCEPT
                      !.aff_ref_spu[g] = ref,
                      !.aff_sched_count[g] = IF ref = NULL THEN @ ELSE @ + 1]
                 /\ Steps(t, IF ref = NULL THEN scan
                             ELSE {Local("location", c, ref, NULL, <<>>)})
      /\ UNCHANGED <<spu_prio, info, spu_run, owner, woken>>

\* find_victim(): where the search begins, and where it is restarted.
VictimSearch(c) ==
  {Local("victims", c, NULL, NULL, NodesFrom(c, n)) : n \in Node}

\* What spu_activate() does when spu_get_idle() returns NULL.
NotFound(c) ==
  IF rt_prio(info[c].prio) THEN VictimSearch(c)
  ELSE {Local("queue", c, NULL, NULL, <<>>)}

Takes(t, s) ==
  /\ spus' = [spus EXCEPT !.used = @ \cup {s}]
  /\ Steps(t, {Local("load", th[t].ctx, s, NULL, <<>>)})

TakeLocation(t) ==
  LET c == th[t].ctx
      s == ctx_location(th[t].spu, aff_offset(c))
  IN  /\ th[t].pc = "location"
      /\ \/ s \notin spus.used /\ Takes(t, s)
         \/ /\ s \in spus.used
            /\ spus' = [spus EXCEPT !.aff_sched_count[GangOf[c]] = @ - 1]
            /\ Steps(t, NotFound(c))
      /\ UNCHANGED <<spu_prio, info, spu_run, owner, woken>>

ScanNode(t) ==
  LET todo == th[t].todo
      list == SpuList[Head(todo)]
      free == Range(list) \ spus.used
  IN  /\ th[t].pc = "scan"
      /\ \/ todo # <<>> /\ free # {} /\ Takes(t, First(list, free))
         \/ /\ todo # <<>> /\ free = {}
            /\ th' = [th EXCEPT ![t].todo = NextAllowed(th[t].ctx, Tail(@))]
            /\ UNCHANGED spus
         \/ /\ todo = <<>>
            /\ Steps(t, NotFound(th[t].ctx))
            /\ UNCHANGED spus
      /\ UNCHANGED <<spu_prio, info, spu_run, owner, woken>>

\* The victim on one node, before its state_mutex is tried.
Preemptible(c, d) == info[d].prio > info[c].prio /\ d \notin NoSched

VictimNode(t) ==
  LET c == th[t].ctx
      todo == th[t].todo
      list == SpuList[Head(todo)]
      fit == {s \in Range(list) :
                spus.ctxOf[s] # NULL /\ Preemptible(c, spus.ctxOf[s])}
      worst == {s \in fit : \A r \in fit :
                  info[spus.ctxOf[s]].prio >= info[spus.ctxOf[r]].prio}
  IN  /\ th[t].pc = "victims"
      /\ \/ /\ todo # <<>> /\ fit # {}
            /\ th' = [th EXCEPT ![t].pc = "trylock",
                                ![t].new = spus.ctxOf[First(list, worst)]]
         \/ /\ todo # <<>> /\ fit = {}
            /\ th' = [th EXCEPT ![t].todo = NextAllowed(c, Tail(@))]
         \/ todo = <<>> /\ At(t, "queue")
      /\ UNCHANGED <<spus, spu_prio, info, spu_run, owner, woken>>

\* The victim may have been locked, unloaded or moved since.
VictimLost(c, d) ==
  owner[d] # NULL \/ spus.spuOf[d] = NULL \/ info[d].prio <= info[c].prio

TryVictim(t) ==
  LET c == th[t].ctx
      d == th[t].new
      s == spus.spuOf[d]
  IN  /\ th[t].pc = "trylock"
      /\ \/ /\ VictimLost(c, d)
            /\ Steps(t, NotFound(c))
            /\ UNCHANGED <<spus, spu_prio>>
         \/ /\ ~VictimLost(c, d)
            /\ spus' = Unload(spus, Head(th[t].todo), s, d)
            /\ spu_prio' = Requeue(spu_prio, d)
            /\ Steps(t, {Local("load", c, s, NULL, <<>>)})
      /\ UNCHANGED <<info, spu_run, owner, woken>>

ActivateLoad(t) ==
  /\ th[t].pc = "load"
  /\ spus' = Load(spus, th[t].spu, th[t].ctx)
  /\ spu_prio' = LoadFails(spu_prio, th[t].spu, th[t].ctx)
  /\ Activated(t)
  /\ UNCHANGED <<info, woken>>

ActivateQueue(t) ==
  LET c == th[t].ctx
  IN  /\ th[t].pc = "queue"
      /\ c \notin NoSched
      /\ spu_prio' = __spu_add_to_rq(spu_prio, c)
      /\ Activated(t)
      /\ UNCHANGED <<spus, info, woken>>

\* spu_prio_wait(): a pending signal is seen before the context is queued
\* or ends the sleep; spu_activate_top then returns it.
PrioWait(t) ==
  LET c == th[t].ctx
  IN  /\ th[t].pc = "queue"
      /\ c \in NoSched
      /\ \/ Interrupted(t) /\ UNCHANGED spu_prio
         \/ /\ spu_prio' = __spu_add_to_rq(spu_prio, c)
            /\ owner' = [owner EXCEPT ![c] = NULL]
            /\ At(t, "wait")
            /\ UNCHANGED spu_run
      /\ UNCHANGED <<spus, info, woken>>

Relock(t) ==
  LET c == th[t].ctx
  IN  /\ th[t].pc = "wait"
      /\ owner[c] = NULL
      /\ spu_prio' = __spu_del_from_rq(spu_prio, c)
      /\ \/ /\ t \in woken
            /\ owner' = [owner EXCEPT ![c] = t]
            /\ At(t, "activate")
         \/ Rests(t) /\ UNCHANGED owner           \* a signal
      /\ woken' = woken \ {t}
      /\ UNCHANGED <<spus, info, spu_run>>

-----------------------------------------------------------------------------
(* spu_deactivate(), spu_yield(), and spu_schedule() on their behalf.      *)

Waiters(c) == {t \in Thread : th[t].pc = "wait" /\ th[t].ctx = c}

\* wake_up(&new->stop_wq) wakes one exclusive waiter; spu_unbind_context()
\* wakes all those of the context it unloads, if the SPU had stopped.
Wakes(c, new) ==
  \E stopped \in {{}, Waiters(c)} :
    \E one \in IF new \notin NoSched \/ Waiters(new) = {} THEN {{}}
               ELSE {{t} : t \in Waiters(new)} :
      woken' = woken \cup stopped \cup one

\* __spu_deactivate() of c by t; the SPU is handed to the context grabbed.
__spu_deactivate(t, c, force, end, own) ==
  LET s   == spus.spuOf[c]
      new == IF s = NULL THEN NULL
             ELSE grab_runnable_context(spu_prio, MAX_PRIO, NodeOf(s))
      ends == /\ owner' = [owner EXCEPT ![c] = own]
              /\ Steps(t, {end})
  IN  \/ /\ s = NULL \/ (new = NULL /\ ~force)
         /\ ends
         /\ UNCHANGED <<spus, spu_prio, woken>>
      \/ /\ s # NULL /\ (new # NULL \/ force)
         /\ spus' = spu_unschedule(spus, s, c, new = NULL)
         /\ spu_prio' = __spu_del_from_rq(spu_prio, new)
         /\ Wakes(c, new)
         /\ \/ new \in NoSched \cup {NULL} /\ ends
            \/ /\ new \notin NoSched \cup {NULL}
               /\ owner' = [owner EXCEPT ![c] = NULL]
               /\ Steps(t, {Local("handover", c, s, new, <<>>)})

spu_yield(t) ==
  /\ th[t].pc = "yield"
  /\ owner[t] = NULL
  /\ __spu_deactivate(t, t, FALSE, Idle, NULL)
  /\ UNCHANGED <<info, spu_run>>

\* spu_schedule(), and the way back to its caller.
spu_schedule(t) ==
  LET s == th[t].spu
      d == th[t].new
  IN  /\ th[t].pc = "handover"
      /\ owner[d] = NULL
      /\ \/ /\ spus.spuOf[d] = NULL
            /\ spus' = Load(spus, s, d)
            /\ spu_prio' = LoadFails(spu_prio, s, d)
         \/ /\ spus.spuOf[d] # NULL
            /\ UNCHANGED <<spus, spu_prio>>
      /\ Steps(t, {IF t = spusched
                   THEN Local("walk", NULL, NULL, NULL, th[t].todo)
                   ELSE IF t \in Saver
                   THEN Local("retake", th[t].ctx, NULL, NULL, <<>>)
                   ELSE Idle})
      /\ UNCHANGED <<info, spu_run, owner, woken>>

-----------------------------------------------------------------------------
(* The callers in run.c and context.c.                                     *)

spu_update_sched_info(c) ==
  /\ ~OnRq(spu_prio, c)                  \* BUG_ON() does not return
  /\ \E i \in SchedInfo[c] : info' = [info EXCEPT ![c] = i]

\* spu_run(): a context that is loaded runs on, a saved one is activated.
RunLoaded(t) ==
  /\ th[t].pc = "idle" /\ owner[t] = NULL /\ spus.spuOf[t] # NULL
  /\ spu_update_sched_info(t)
  /\ spus' = spuctx_switch_state(spus, t, TRUE)
  /\ spu_run' = spu_run \cup {t}
  /\ Steps(t, {Local("running", t, NULL, NULL, <<>>)})
  /\ UNCHANGED <<spu_prio, owner, woken>>

RunSaved(t) ==
  /\ th[t].pc = "idle" /\ owner[t] = NULL /\ spus.spuOf[t] = NULL
  /\ spu_update_sched_info(t)
  /\ spus' = spuctx_switch_state(spus, t, FALSE)
  /\ owner' = [owner EXCEPT ![t] = t]
  /\ Steps(t, {Local("activate", t, NULL, NULL, <<>>)})
  /\ UNCHANGED <<spu_prio, spu_run, woken>>

\* The SPU stopped, or a signal came: spu_run_fini(), then spu_yield().
RunEnds(t) ==
  /\ th[t].pc = "running" /\ owner[t] = NULL
  /\ spu_prio' = __spu_del_from_rq(spu_prio, t)
  /\ spus' = spuctx_switch_state(spus, t, FALSE)
  /\ spu_run' = spu_run \ {t}
  /\ IF t \in NoSched THEN Rests(t) ELSE At(t, "yield")
  /\ UNCHANGED <<info, owner, woken>>

\* spu_acquire_saved() of a loaded context.
SaveBegins(t, c) ==
  /\ th[t].pc = "idle" /\ owner[c] = NULL /\ spus.spuOf[c] # NULL
  /\ __spu_deactivate(t, c, TRUE, Local("saved", c, NULL, NULL, <<>>), t)
  /\ UNCHANGED <<info, spu_run>>

SaveRetakes(t) ==
  /\ th[t].pc = "retake" /\ owner[th[t].ctx] = NULL
  /\ owner' = [owner EXCEPT ![th[t].ctx] = t]
  /\ At(t, "saved")
  /\ UNCHANGED <<spus, spu_prio, info, spu_run, woken>>

\* spu_release_saved()
SaveEnds(t) ==
  LET c == th[t].ctx
  IN  /\ th[t].pc = "saved"
      /\ IF c \in spu_run /\ spus.spuOf[c] = NULL
         THEN At(t, "activate") /\ UNCHANGED owner
         ELSE Rests(t) /\ owner' = [owner EXCEPT ![c] = NULL]
      /\ UNCHANGED <<spus, spu_prio, info, spu_run, woken>>

\* do_notify_spus_active(), one node: it wakes all at stop_wq.
do_notify_spus_active(n) ==
  /\ woken' = woken \cup UNION {Waiters(spus.ctxOf[s]) :
                s \in Range(SpuList[n]) \cap spus.used}
  /\ UNCHANGED <<spus, spu_prio, info, spu_run, owner, th>>

-----------------------------------------------------------------------------
(* The timer and the spusched thread.                                      *)

\* The timer expires and its handler arms it again; a thread that is not
\* asleep yet does not see the wake-up.
spusched_wake ==
  /\ spu_prio.armed
  /\ th[spusched].pc = "idle"
  /\ Steps(spusched, {Local("walk", NULL, NULL, NULL,
       [i \in 1 .. MAX_NUMNODES |-> SpuList[i - 1]])})
  /\ UNCHANGED <<spus, spu_prio, info, spu_run, owner, woken>>

spusched_thread ==
  LET todo == th[spusched].todo
      list == Head(todo)
      c == spus.ctxOf[Head(list)]
      rest == [todo EXCEPT ![1] = Tail(@)]
  IN  /\ th[spusched].pc = "walk"
      /\ \/ todo = <<>> /\ Rests(spusched)
         \/ /\ todo # <<>> /\ list = <<>>
            /\ th' = [th EXCEPT ![spusched].todo = Tail(@)]
         \/ /\ todo # <<>> /\ list # <<>> /\ c = NULL
            /\ th' = [th EXCEPT ![spusched].todo = rest]
         \/ /\ todo # <<>> /\ list # <<>> /\ c # NULL
            /\ Steps(spusched, {Local("tick", NULL, NULL, c, rest)})
      /\ UNCHANGED <<spus, spu_prio, info, spu_run, owner, woken>>

spusched_tick ==
  LET c == th[spusched].new
      s == spus.spuOf[c]
      ticked == [spus EXCEPT !.time_slice[c] = @ - 1]
      over == ticked.time_slice[c] = 0 \/ c \notin spu_run
      new == grab_runnable_context(spu_prio, info[c].prio + 1, NodeOf(s))
  IN  /\ th[spusched].pc = "tick"
      /\ owner[c] = NULL
      /\ LET walks == Steps(spusched,
                 {Local("walk", NULL, NULL, NULL, th[spusched].todo)})
         IN
         \/ /\ s = NULL \/ c \in NoSched \/ info[c].fifo
            /\ walks
            /\ UNCHANGED <<spus, spu_prio>>
         \/ /\ s # NULL /\ c \notin NoSched /\ ~info[c].fifo
            /\ \/ /\ ~over \/ new = NULL
                  /\ spus' = [ticked EXCEPT !.time_slice[c] = Max({@, 1})]
                  /\ walks
                  /\ UNCHANGED spu_prio
               \/ /\ over /\ new # NULL
                  /\ spus' = spu_unschedule(ticked, s, c, FALSE)
                  /\ spu_prio' = Requeue(__spu_del_from_rq(spu_prio, new), c)
                  /\ Steps(spusched, {Local("handover", NULL, s, new,
                                            th[spusched].todo)})
      /\ UNCHANGED <<info, spu_run, owner, woken>>

-----------------------------------------------------------------------------
EmptyRunq == [runq |-> [p \in Prio |-> <<>>], bitmap |-> {}, nr_waiting |-> 0,
              armed |-> FALSE]

Init ==
  /\ info \in [Ctx -> UNION Range(SchedInfo)]
  /\ \A c \in Ctx : info[c] \in SchedInfo[c]
  /\ spus = [ctxOf |-> [s \in Spu |-> NULL], used |-> {},
             spuOf |-> [c \in Ctx |-> NULL],
             nr_active |-> [n \in Node |-> 0], reserved_spus |-> [n \in Node |-> 0],
             busy_spus |-> [n \in Node |-> 0],
             util_user |-> [c \in Ctx |-> FALSE],
             time_slice |-> [c \in Ctx |-> Timeslice(info[c].prio)],
             aff_ref_spu |-> [g \in Gang |-> NULL],
             aff_sched_count |-> [g \in Gang |-> 0]]
  /\ spu_prio = EmptyRunq
  /\ spu_run = {}
  /\ owner = [c \in Ctx |-> NULL]
  /\ woken = {}
  /\ th = [t \in Thread |-> Idle]

Activate(t) ==
  \/ ActivateSignalled(t) \/ GetIdle(t) \/ TakeLocation(t) \/ ScanNode(t)
  \/ VictimNode(t) \/ TryVictim(t) \/ ActivateLoad(t) \/ ActivateQueue(t)
  \/ PrioWait(t) \/ Relock(t)

Next ==
  \/ \E t \in Ctx \cup Saver : Activate(t)
  \/ \E t \in Ctx : RunLoaded(t) \/ RunSaved(t) \/ RunEnds(t) \/ spu_yield(t)
  \/ \E t \in Saver : (\E c \in Saved : SaveBegins(t, c))
                      \/ SaveRetakes(t) \/ SaveEnds(t)
  \/ \E t \in Thread : spu_schedule(t)
  \/ \E n \in Node : do_notify_spus_active(n)
  \/ spusched_wake \/ spusched_thread \/ spusched_tick

Spec == Init /\ [][Next]_vars

-----------------------------------------------------------------------------
(* Properties. *)

Locals(t) ==
  [pc : {"idle", "activate", "location", "scan", "victims", "trylock", "load",
         "queue", "wait", "running", "yield", "handover", "saved", "retake",
         "walk", "tick"},
   ctx : Ctx \cup {NULL}, spu : Spu \cup {NULL}, new : Ctx \cup {NULL},
   todo : IF t = spusched THEN Seq(Seq(Spu)) ELSE Seq(Node)]

\* The type of the state of sched.c: the counters that are never negative
\* are natural numbers.
TypeOK ==
  /\ spus.ctxOf \in [Spu -> Ctx \cup {NULL}]
  /\ spus.spuOf \in [Ctx -> Spu \cup {NULL}]
  /\ spus.used \subseteq Spu
  /\ spus.nr_active \in [Node -> Int]
  /\ spus.reserved_spus \in [Node -> Nat]
  /\ spus.busy_spus \in [Node -> Nat]
  /\ spus.util_user \in [Ctx -> BOOLEAN]
  /\ spus.time_slice \in [Ctx -> Nat]
  /\ spus.aff_ref_spu \in [Gang -> Spu \cup {NULL}]
  /\ spus.aff_sched_count \in [Gang -> Int]
  /\ spu_prio.runq \in [Prio -> Seq(Ctx)]
  /\ spu_prio.bitmap \subseteq Prio
  /\ spu_prio.nr_waiting \in Nat
  /\ spu_prio.armed \in BOOLEAN
  /\ \A c \in Ctx : info[c] \in SchedInfo[c]
  /\ spu_run \subseteq Ctx
  /\ owner \in [Ctx -> Thread \cup {NULL}]
  /\ woken \subseteq Thread
  /\ DOMAIN th = Thread
  /\ \A t \in Thread : th[t] \in Locals(t)

InHand(t) == IF th[t].pc \in {"load", "handover"} THEN {th[t].spu} ELSE {}

\* find_victim(), __spu_deactivate() and the tick unload an SPU under one
\* lock and load it under another: in between no other thread gets it, so
\* that the test of spu->ctx in __spu_schedule() never fails.
HandsExclusive ==
  \A t \in Thread : \A s \in InHand(t) :
    /\ s \in spus.used
    /\ spus.ctxOf[s] = NULL
    /\ \A u \in Thread \ {t} : s \notin InHand(u)

\* A context that the scheduler may preempt is on one SPU at most, the one
\* it points to, and that SPU is not taken for idle.
BindingExact ==
  /\ \A c \in Ctx : spus.spuOf[c] # NULL => spus.ctxOf[spus.spuOf[c]] = c
  /\ \A s \in Spu : spus.ctxOf[s] # NULL =>
       /\ s \in spus.used
       /\ spus.ctxOf[s] \notin NoSched => spus.spuOf[spus.ctxOf[s]] = s

Queued == {c \in Ctx : OnRq(spu_prio, c)}

\* nr_waiting, the bitmap and the lists of the run queue agree, a queued
\* context is in the list of its priority, once, and the tick is coming
\* while any waits.
QueueExact ==
  /\ spu_prio.nr_waiting = Cardinality(Queued)
  /\ \A p \in Prio :
       /\ p \in spu_prio.bitmap <=> spu_prio.runq[p] # <<>>
       /\ \A i \in DOMAIN spu_prio.runq[p] :
            info[spu_prio.runq[p][i]].prio = p
  /\ \A p \in Prio : IsInjective(spu_prio.runq[p])
  /\ spu_prio.nr_waiting > 0 => spu_prio.armed

\* BUG_ON(!list_empty(&ctx->rq)) of __spu_update_sched_info(): no context
\* is left on the run queue when its thread is out of spu_run().
UpdateNotQueued ==
  \A c \in Ctx \ NoSched : th[c].pc = "idle" => ~OnRq(spu_prio, c)

Loaded(n) == {s \in Range(SpuList[n]) : spus.ctxOf[s] # NULL}

\* count_active_contexts() is the number of SPUs with a context and of
\* contexts that wait, though find_victim() may count down the wrong node;
\* reserved_spus and busy_spus of a node are those of the contexts on it;
\* no gang counts more placed contexts than it has SPUs and threads about
\* to get one (a SPU_CREATE_NOSCHED context may have two SPUs); and a loaded
\* context has a tick left, so that --ctx->time_slice does not wrap round.
\* All state has its type.
CountsExact ==
  /\ TypeOK
  /\ SumFunction(spus.nr_active) + spu_prio.nr_waiting =
       Cardinality({s \in Spu : spus.ctxOf[s] # NULL}) + Cardinality(Queued)
  /\ \A n \in Node :
       /\ spus.reserved_spus[n] =
            Cardinality({s \in Loaded(n) : spus.ctxOf[s] \in NoSched})
       /\ spus.busy_spus[n] =
            Cardinality({c \in Ctx : /\ spus.spuOf[c] \in Range(SpuList[n])
                                     /\ spus.util_user[c]})
  /\ \A g \in Gang :
       spus.aff_sched_count[g] <=
         Cardinality({s \in Spu : /\ spus.ctxOf[s] # NULL
                                  /\ GangOf[spus.ctxOf[s]] = g})
         + Cardinality({t \in Thread : /\ th[t].pc \in {"location", "load"}
                                       /\ GangOf[th[t].ctx] = g})
  /\ \A c \in Ctx : spus.spuOf[c] # NULL => spus.time_slice[c] >= 1

\* An SPU in use holds a context, or a thread is about to give it one.
Accounted(s) ==
  s \in spus.used =>
    spus.ctxOf[s] # NULL \/ \E t \in Thread : s \in InHand(t)

\* spu_unschedule(): "If this is zero, the caller is expected to schedule
\* another context to this spu."  There are two ways only to lose an SPU for
\* good: __spu_deactivate() grabs a SPU_CREATE_NOSCHED context, which it
\* wakes and gives nothing, or the context grabbed has got another SPU when
\* spu_schedule() comes to lock it.
SpuLostOnlyByHandover ==
  [][\A s \in Spu : Accounted(s) /\ ~Accounted(s)' =>
       \/ \E c \in NoSched : c \in Queued /\ c \notin Queued'
       \/ \E t \in Thread : /\ th[t].pc = "handover" /\ th[t].spu = s
                            /\ spus.spuOf[th[t].new] # NULL]_vars
=============================================================================
