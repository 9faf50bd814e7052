---------------------------- MODULE SpuSchedInv ----------------------------
(***************************************************************************)
(* The inductive invariants from which SpuSchedProofs derives the safety   *)
(* properties of SpuSched: SchedInv, and CountInv, which is inductive      *)
(* given SchedInv.                                                         *)
(***************************************************************************)
EXTENDS SpuSched

\* Where a thread is inside spu_activate(), and where it holds the
\* state_mutex of the context it works on.
Activating ==
  {"activate", "location", "scan", "victims", "trylock", "load", "queue"}
Holding == Activating \cup {"saved"}

\* The shape of the state.  That the counters of a node are not negative is
\* not needed, and is left to CountsExact.
SpusType ==
  [ctxOf : [Spu -> Ctx \cup {NULL}], used : SUBSET Spu,
   spuOf : [Ctx -> Spu \cup {NULL}],
   nr_active : [Node -> Int], reserved_spus : [Node -> Int],
   busy_spus : [Node -> Int],
   util_user : [Ctx -> BOOLEAN], time_slice : [Ctx -> Int],
   aff_ref_spu : [Gang -> Spu \cup {NULL}], aff_sched_count : [Gang -> Int]]

QueueType ==
  [runq : [Prio -> Seq(Ctx)], bitmap : SUBSET Prio, nr_waiting : Int,
   armed : BOOLEAN]

InfoType == [prio : Prio, fifo : BOOLEAN, cpus : SUBSET Node]

Shape ==
  /\ spus \in SpusType
  /\ spu_prio \in QueueType
  /\ info \in [Ctx -> InfoType]
  /\ spu_run \subseteq Ctx
  /\ owner \in [Ctx -> Thread \cup {NULL}]
  /\ woken \subseteq Thread
  /\ DOMAIN th = Thread
  /\ \A t \in Thread : th[t] \in Locals(t)

\* QueueExact of any value of the record spu_prio.
QueuedIn(q) == {c \in Ctx : OnRq(q, c)}

QueueOK(q) ==
  /\ q.nr_waiting = Cardinality(QueuedIn(q))
  /\ \A p \in Prio :
       /\ p \in q.bitmap <=> q.runq[p] # <<>>
       /\ \A i \in DOMAIN q.runq[p] : info[q.runq[p][i]].prio = p
       /\ IsInjective(q.runq[p])
  /\ q.nr_waiting > 0 => q.armed

\* What the locals of a thread are where it uses them.
LocalsOf(t, l) ==
  /\ t = spusched => l.pc \in {"idle", "walk", "tick", "handover"}
  /\ l.pc \in {"walk", "tick"} => t = spusched
  /\ l.pc \in {"running", "yield"} => t \in Ctx
  /\ t \in Ctx => l.ctx \in {t, NULL}
  /\ l.pc \in Holding \cup {"wait", "retake"} => l.ctx \in Ctx
  /\ l.pc = "handover" /\ t # spusched => l.ctx \in Ctx
  /\ l.pc \in {"location", "load", "handover"} => l.spu \in Spu
  /\ l.pc \in {"trylock", "handover", "tick"} => l.new \in Ctx
  /\ l.pc = "wait" => l.ctx \in NoSched

LocalsInv == \A t \in Thread : LocalsOf(t, th[t])

\* A thread in spu_activate() or with a saved context has its state_mutex.
OwnerInv ==
  \A t \in Thread : th[t].pc \in Holding => owner[th[t].ctx] = t

\* A context that the scheduler may preempt is not loaded while a thread
\* activates it, and one activated by spu_release_saved() is in spu_run().
ActivateInv ==
  \A t \in Thread : th[t].pc \in Activating /\ th[t].ctx \notin NoSched =>
    /\ spus.spuOf[th[t].ctx] = NULL
    /\ t \notin Ctx => th[t].ctx \in spu_run

\* SPU_SCHED_SPU_RUN is set just while the thread of the context runs, and
\* such a context waits only then.
RunInv ==
  \A c \in Ctx : /\ c \in spu_run <=> th[c].pc = "running"
                 /\ c \in Queued /\ c \notin NoSched => c \in spu_run

\* A loaded context has a tick left.
SliceInv == \A c \in Ctx : spus.spuOf[c] # NULL => spus.time_slice[c] >= 1

SchedInv ==
  /\ Shape
  /\ LocalsInv
  /\ OwnerInv
  /\ ActivateInv
  /\ HandsExclusive
  /\ BindingExact
  /\ QueueExact
  /\ RunInv
  /\ SliceInv
-----------------------------------------------------------------------------
(* The counters, of any value of the record spus.                          *)

Active(l) == {s \in Spu : l.ctxOf[s] # NULL}

ReservedOn(l, n) ==
  {s \in Range(SpuList[n]) : l.ctxOf[s] # NULL /\ l.ctxOf[s] \in NoSched}

BusyOn(l, n) ==
  {c \in Ctx : l.spuOf[c] \in Range(SpuList[n]) /\ l.util_user[c]}

\* The SPUs with a context of gang g, and the threads that are about to
\* load one.
GangSpus(l, g) == {s \in Spu : l.ctxOf[s] # NULL /\ GangOf[l.ctxOf[s]] = g}
Placing(T, g) ==
  {t \in Thread : T[t].pc \in {"location", "load"} /\ GangOf[T[t].ctx] = g}

ActiveOK(l)   == SumFunction(l.nr_active) = Cardinality(Active(l))
ReservedOK(l) ==
  \A n \in Node : l.reserved_spus[n] = Cardinality(ReservedOn(l, n))
BusyOK(l)     == \A n \in Node : l.busy_spus[n] = Cardinality(BusyOn(l, n))
PlacedOK(l, T) ==
  \A g \in Gang : l.aff_sched_count[g] <=
                    Cardinality(GangSpus(l, g)) + Cardinality(Placing(T, g))
TicksOK(l)    == \A c \in Ctx : l.time_slice[c] >= 0

\* find_victim() counts down a node, because it has gone on with one.
CountInv ==
  /\ ActiveOK(spus) /\ ReservedOK(spus) /\ BusyOK(spus) /\ TicksOK(spus)
  /\ PlacedOK(spus, th)
  /\ \A c \in Ctx : info[c] \in SchedInfo[c]
  /\ \A t \in Thread : th[t].pc = "trylock" => th[t].todo # <<>>
=============================================================================
