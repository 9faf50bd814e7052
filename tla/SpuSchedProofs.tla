--------------------------- MODULE SpuSchedProofs ---------------------------
(***************************************************************************)
(* Proofs about SpuSched, for every number of contexts, SPUs, nodes,       *)
(* priorities and saving threads, and for every affinity.  The lemmas on   *)
(* what the operators return, preserve and change come first: the lists    *)
(* that are searched, the run queue, and the records of the SPUs.  Then    *)
(* one lemma per action shows that it preserves SchedInv (SpuSchedInv);    *)
(* the properties follow from it.  The last part is about the counters:    *)
(* sums over the nodes, and that each action preserves CountInv, from which*)
(* CountsExact follows.                                                    *)
(***************************************************************************)
EXTENDS SpuSchedInv, FiniteSetTheorems, WellFoundedInduction, TLAPS

-----------------------------------------------------------------------------
(* Searches in a list.                                                     *)

(* A set of natural numbers has a least element, which is the one Min      *)
(* chooses.                                                                *)
LEMMA MinNat ==
  ASSUME NEW S, S \subseteq Nat, S # {}
  PROVE  Min(S) \in S /\ \A y \in S : Min(S) <= y
<1>1. PICK x \in S : \A y \in S : ~(<<y, x>> \in OpToRel(<, Nat))
  BY NatLessThanWellFounded, WFMin
<1>2. ASSUME NEW y \in S, y < x
      PROVE  FALSE
  <2>1. <<y, x>> \in OpToRel(<, Nat)
    BY <1>2 DEF OpToRel
  <2> QED
    BY <1>1, <2>1
<1>3. \A y \in S : x <= y
  BY <1>2
<1> QED
  BY <1>3 DEF Min

(* A loop over a list with an entry in S stops at an entry in S.           *)
LEMMA FirstFound ==
  ASSUME NEW X, NEW seq \in Seq(X), NEW S, Range(seq) \cap S # {}
  PROVE  First(seq, S) \in S /\ First(seq, S) \in X /\ First(seq, S) \in Range(seq)
<1> DEFINE I == {i \in DOMAIN seq : seq[i] \in S}
<1>1. I \subseteq Nat /\ I # {}
  BY DEF Range
<1>2. Min(I) \in I
  BY <1>1, MinNat
<1>3. First(seq, S) = seq[Min(I)]
  BY DEF First
<1>4. seq[Min(I)] \in S /\ seq[Min(I)] \in X /\ seq[Min(I)] \in Range(seq)
  <2> HIDE DEF I
  <2>1. Min(I) \in DOMAIN seq /\ seq[Min(I)] \in S
    BY <1>2 DEF I
  <2> QED
    BY <2>1 DEF Range
<1> QED
  BY <1>3, <1>4

(* The rest of a search over nodes is a search over nodes.                 *)
LEMMA NextAllowedType ==
  ASSUME NEW c, NEW nodes \in Seq(Node)
  PROVE  NextAllowed(c, nodes) \in Seq(Node)
<1> DEFINE ok == {i \in DOMAIN nodes : node_allowed(c, nodes[i])}
<1>1. CASE ok = {}
  BY <1>1 DEF NextAllowed
<1>2. CASE ok # {}
  <2>0. ok \subseteq Nat
    OBVIOUS
  <2> HIDE DEF ok
  <2>1. Min(ok) \in ok
    BY <1>2, <2>0, MinNat
  <2>2. Min(ok) \in 1 .. Len(nodes)
    BY <2>1 DEF ok
  <2>3. PICK m \in 1 .. Len(nodes) : m = Min(ok)
    BY <2>2
  <2>4. SubSeq(nodes, m, Len(nodes)) \in Seq(Node)
    OBVIOUS
  <2>5. NextAllowed(c, nodes) = SubSeq(nodes, m, Len(nodes))
    BY <1>2, <2>3 DEF NextAllowed, ok
  <2> QED
    BY <2>4, <2>5
<1> QED
  BY <1>1, <1>2

(* The order of the nodes, wherever the search begins.                     *)
LEMMA NodeOrderType ==
  ASSUME NEW n \in Node
  PROVE  NodeOrder(n) \in Seq(Node)
<1>1. \A i \in 1 .. MAX_NUMNODES : (n + i - 1) % MAX_NUMNODES \in Node
  BY SpusAssumption DEF Node
<1> QED
  BY <1>1, SpusAssumption DEF NodeOrder

(* The nodes that a search visits are nodes.                               *)
LEMMA NodesFromType ==
  ASSUME NEW c, NEW n \in Node
  PROVE  NodesFrom(c, n) \in Seq(Node)
BY NodeOrderType, NextAllowedType DEF NodesFrom

(* The SPUs of a node are SPUs, and every SPU is in the list of its node.  *)
LEMMA SpuNodes ==
  /\ \A n \in Node : Range(SpuList[n]) \subseteq Spu /\ SpuList[n] \in Seq(Spu)
  /\ \A s \in Spu : NodeOf(s) \in Node /\ s \in Range(SpuList[NodeOf(s)])
<1>1. \A n \in Node : Range(SpuList[n]) \subseteq Spu /\ SpuList[n] \in Seq(Spu)
  BY SpusAssumption DEF Spu
<1>2. ASSUME NEW s \in Spu
      PROVE  NodeOf(s) \in Node /\ s \in Range(SpuList[NodeOf(s)])
  <2>1. \E n \in Node : s \in Range(SpuList[n])
    BY DEF Spu
  <2> QED
    BY <2>1 DEF NodeOf
<1> QED
  BY <1>1, <1>2

-----------------------------------------------------------------------------
(* The records of the SPUs: type, and the fields that matter.              *)

(* A counter of one node is counted up or down.                            *)
LEMMA NodeCounter ==
  ASSUME NEW f \in [Node -> Int], NEW n, NEW d \in Int
  PROVE  [f EXCEPT ![n] = @ + d] \in [Node -> Int]
         /\ [f EXCEPT ![n] = @ - d] \in [Node -> Int]
<1>1. CASE n \in Node
  BY <1>1
<1>2. CASE n \notin Node
  BY <1>2
<1> QED
  BY <1>1, <1>2

(* spu_set_timeslice() gives at least one tick.                            *)
LEMMA TimesliceType ==
  ASSUME NEW p \in Prio
  PROVE  Timeslice(p) \in Int /\ Timeslice(p) >= 1
<1> DEFINE x == IF p < NORMAL_PRIO THEN DEF_SPU_TIMESLICE * 4
                                   ELSE DEF_SPU_TIMESLICE
           d == MAX_USER_PRIO \div 2
           y == (x * (MAX_PRIO - p)) \div d
<1>1. d \in Int /\ d > 0
  BY PrioAssumption
<1>2. x * (MAX_PRIO - p) \in Int
  <2>1. x \in Int
    BY PrioAssumption
  <2>2. MAX_PRIO - p \in Int
    BY PrioAssumption DEF Prio
  <2> HIDE DEF x
  <2> QED
    BY <2>1, <2>2
<1>3. y \in Int
  <2> HIDE DEF d, x
  <2>1. PICK a \in Int : a = x * (MAX_PRIO - p)
    BY <1>2
  <2>2. a \div d \in Int
    BY <1>1
  <2> QED
    BY <2>1, <2>2
<1>4. Timeslice(p) = Max({y, MIN_SPU_TIMESLICE})
  BY DEF Timeslice, SCALE_PRIO
<1> HIDE DEF y
<1>5. Max({y, MIN_SPU_TIMESLICE}) \in {y, MIN_SPU_TIMESLICE}
      /\ Max({y, MIN_SPU_TIMESLICE}) >= MIN_SPU_TIMESLICE
  <2>1. \E v \in {y, MIN_SPU_TIMESLICE} : \A w \in {y, MIN_SPU_TIMESLICE} : v >= w
    BY <1>3, PrioAssumption
  <2> QED
    BY <2>1 DEF Max
<1> QED
  BY <1>3, <1>4, <1>5, PrioAssumption

(* spu_set_timeslice() changes the time slice of the context only.         *)
LEMMA SetTimeslice ==
  ASSUME NEW l \in SpusType, NEW c \in Ctx, info \in [Ctx -> InfoType]
  PROVE  /\ spu_set_timeslice(l, c) \in SpusType
         /\ spu_set_timeslice(l, c).ctxOf = l.ctxOf
         /\ spu_set_timeslice(l, c).used = l.used
         /\ spu_set_timeslice(l, c).spuOf = l.spuOf
         /\ spu_set_timeslice(l, c).time_slice[c] >= 1
         /\ \A d \in Ctx \ {c} :
              spu_set_timeslice(l, c).time_slice[d] = l.time_slice[d]
<1>1. info[c].prio \in Prio
  BY DEF InfoType
<1>2. PICK v \in Int : v = Timeslice(info[c].prio) /\ v >= 1
  BY <1>1, TimesliceType
<1>3. spu_set_timeslice(l, c) = [l EXCEPT !.time_slice[c] = v]
  BY <1>2 DEF spu_set_timeslice
<1> QED
  BY <1>2, <1>3, SMTT(30) DEF SpusType

\* What a change of ctx->stats leaves as it was.
SameBinding(l, m) ==
  /\ m \in SpusType
  /\ m.ctxOf = l.ctxOf
  /\ m.used = l.used
  /\ m.spuOf = l.spuOf
  /\ m.time_slice = l.time_slice

(* spuctx_switch_state() changes statistics only.                          *)
LEMMA SwitchState ==
  ASSUME NEW l \in SpusType, NEW c \in Ctx, NEW user \in BOOLEAN
  PROVE  SameBinding(l, spuctx_switch_state(l, c, user))
<1> DEFINE at == {NodeOf(s) : s \in {l.spuOf[c]} \ {NULL}}
           u(x) == IF x THEN 1 ELSE 0
           b == [n \in Node |-> IF n \notin at THEN l.busy_spus[n]
                   ELSE l.busy_spus[n] - u(l.util_user[c]) + u(user)]
<1>1. b \in [Node -> Int]
  BY DEF SpusType
<1>2. spuctx_switch_state(l, c, user)
        = [l EXCEPT !.util_user[c] = user, !.busy_spus = b]
  BY DEF spuctx_switch_state
<1> HIDE DEF b
<1>3. [l EXCEPT !.util_user[c] = user, !.busy_spus = b] \in SpusType
  BY <1>1 DEF SpusType
<1> QED
  BY <1>2, <1>3 DEF SameBinding, SpusType

\* The binding of context c and SPU s to each other.
Bound(l, m, s, c) ==
  /\ m \in SpusType
  /\ m.ctxOf = [l.ctxOf EXCEPT ![s] = c]
  /\ m.spuOf = [l.spuOf EXCEPT ![c] = s]
  /\ m.used = l.used
  /\ m.time_slice = l.time_slice

(* spu_bind_context() binds the SPU and the context to each other.         *)
LEMMA BindContext ==
  ASSUME NEW l \in SpusType, NEW s \in Spu, NEW c \in Ctx
  PROVE  Bound(l, spu_bind_context(l, s, c), s, c)
<1>1. PICK m : m = spuctx_switch_state(l, c, FALSE)
  OBVIOUS
<1>2. SameBinding(l, m)
  BY <1>1, SwitchState
<1>3. PICK b : b = [m EXCEPT !.reserved_spus[NodeOf(s)] = @ + Reserves(c),
                             !.ctxOf[s] = c,
                             !.spuOf[c] = s]
  OBVIOUS
<1>4. /\ b \in SpusType
      /\ b.ctxOf = [m.ctxOf EXCEPT ![s] = c]
      /\ b.spuOf = [m.spuOf EXCEPT ![c] = s]
      /\ b.used = m.used
      /\ b.time_slice = m.time_slice
  <2>1. Reserves(c) \in Int
    BY DEF Reserves
  <2>2. PICK r \in [Node -> Int] :
          r = [m.reserved_spus EXCEPT ![NodeOf(s)] = @ + Reserves(c)]
    BY <1>2, <2>1, NodeCounter DEF SameBinding, SpusType
  <2>3. b = [m EXCEPT !.reserved_spus = r, !.ctxOf[s] = c, !.spuOf[c] = s]
    BY <1>3, <2>2
  <2>4. b \in SpusType
    BY <1>2, <2>2, <2>3 DEF SameBinding, SpusType
  <2> QED
    BY <1>2, <2>3, <2>4 DEF SameBinding, SpusType
<1>5. SameBinding(b, spuctx_switch_state(b, c, TRUE))
  BY <1>4, SwitchState
<1>6. spu_bind_context(l, s, c) = spuctx_switch_state(b, c, TRUE)
  BY <1>1, <1>3 DEF spu_bind_context
<1> QED
  BY <1>2, <1>4, <1>5, <1>6 DEF SameBinding, Bound

(* spu_unbind_context() clears both pointers.                              *)
LEMMA UnbindContext ==
  ASSUME NEW l \in SpusType, NEW s \in Spu, NEW c \in Ctx
  PROVE  /\ spu_unbind_context(l, s, c) \in SpusType
         /\ spu_unbind_context(l, s, c).ctxOf = [l.ctxOf EXCEPT ![s] = NULL]
         /\ spu_unbind_context(l, s, c).spuOf = [l.spuOf EXCEPT ![c] = NULL]
         /\ spu_unbind_context(l, s, c).used = l.used
         /\ spu_unbind_context(l, s, c).time_slice = l.time_slice
<1>1. PICK m : m = spuctx_switch_state(l, c, FALSE)
  OBVIOUS
<1>2. SameBinding(l, m)
  BY <1>1, SwitchState
<1> DEFINE counts == [g \in Gang |->
             IF g = GangOf[c] /\ m.aff_sched_count[g] > 0
             THEN m.aff_sched_count[g] - 1 ELSE m.aff_sched_count[g]]
<1>3. PICK b : b = [m EXCEPT !.reserved_spus[NodeOf(s)] = @ - Reserves(l.ctxOf[s]),
                             !.aff_sched_count = counts,
                             !.ctxOf[s] = NULL]
  OBVIOUS
<1>4. /\ b \in SpusType
      /\ b.ctxOf = [m.ctxOf EXCEPT ![s] = NULL]
      /\ b.spuOf = m.spuOf
      /\ b.used = m.used
      /\ b.time_slice = m.time_slice
  <2>1. Reserves(l.ctxOf[s]) \in Int
    BY DEF Reserves
  <2>2. PICK r \in [Node -> Int] :
          r = [m.reserved_spus EXCEPT ![NodeOf(s)] = @ - Reserves(l.ctxOf[s])]
    BY <1>2, <2>1, NodeCounter DEF SameBinding, SpusType
  <2>3. counts \in [Gang -> Int]
    BY <1>2 DEF SameBinding, SpusType
  <2>4. b = [m EXCEPT !.reserved_spus = r, !.aff_sched_count = counts,
                      !.ctxOf[s] = NULL]
    BY <1>3, <2>2
  <2> HIDE DEF counts
  <2>5. b \in SpusType
    BY <1>2, <2>2, <2>3, <2>4 DEF SameBinding, SpusType
  <2> QED
    BY <1>2, <2>4, <2>5 DEF SameBinding, SpusType
<1>5. PICK e : e = spuctx_switch_state(b, c, FALSE)
  OBVIOUS
<1>6. SameBinding(b, e)
  BY <1>4, <1>5, SwitchState
<1>7. spu_unbind_context(l, s, c) = [e EXCEPT !.spuOf[c] = NULL]
  BY <1>1, <1>3, <1>5 DEF spu_unbind_context
<1>8. /\ [e EXCEPT !.spuOf[c] = NULL] \in SpusType
      /\ [e EXCEPT !.spuOf[c] = NULL].ctxOf = e.ctxOf
      /\ [e EXCEPT !.spuOf[c] = NULL].spuOf = [e.spuOf EXCEPT ![c] = NULL]
      /\ [e EXCEPT !.spuOf[c] = NULL].used = e.used
      /\ [e EXCEPT !.spuOf[c] = NULL].time_slice = e.time_slice
  BY <1>6 DEF SameBinding, SpusType
<1> QED
  BY <1>2, <1>4, <1>6, <1>7, <1>8 DEF SameBinding

\* The unloading of context c from SPU s, as find_victim() and
\* spu_unschedule() do it.
Unloaded(l, m, s, c) ==
  /\ m \in SpusType
  /\ m.ctxOf = [l.ctxOf EXCEPT ![s] = NULL]
  /\ m.spuOf = [l.spuOf EXCEPT ![c] = NULL]
  /\ m.time_slice = l.time_slice

(* The unloading half of find_victim(); n need not be the node of s.       *)
LEMMA UnloadEffect ==
  ASSUME NEW l \in SpusType, NEW n, NEW s \in Spu, NEW c \in Ctx
  PROVE  Unloaded(l, Unload(l, n, s, c), s, c) /\ Unload(l, n, s, c).used = l.used
<1>1. PICK m : m = [l EXCEPT !.nr_active[n] = @ - 1]
  OBVIOUS
<1>2. /\ m \in SpusType /\ m.ctxOf = l.ctxOf /\ m.spuOf = l.spuOf
      /\ m.used = l.used /\ m.time_slice = l.time_slice
  <2>1. [l.nr_active EXCEPT ![n] = @ - 1] \in [Node -> Int]
    <3>1. l.nr_active \in [Node -> Int] /\ 1 \in Int
      BY DEF SpusType
    <3> QED
      BY <3>1, NodeCounter
  <2> QED
    BY <1>1, <2>1 DEF SpusType
<1>3. Unload(l, n, s, c) = spu_unbind_context(m, s, c)
  BY <1>1 DEF Unload
<1> QED
  BY <1>2, <1>3, UnbindContext DEF Unloaded

\* spu_unschedule() of context c, which has SPU s.
Unscheduled(l, m, s, c, free) ==
  /\ Unloaded(l, m, s, c)
  /\ free => m.used = l.used \ {s}
  /\ ~free => m.used = l.used

(* spu_unschedule() also makes the SPU free if it is told to.              *)
LEMMA UnscheduleEffect ==
  ASSUME NEW l \in SpusType, NEW s \in Spu, NEW c \in Ctx, NEW free \in BOOLEAN
  PROVE  Unscheduled(l, spu_unschedule(l, s, c, free), s, c, free)
<1>1. PICK m : m = [l EXCEPT !.used = IF free THEN @ \ {s} ELSE @]
  OBVIOUS
<1>2. /\ m \in SpusType /\ m.ctxOf = l.ctxOf /\ m.spuOf = l.spuOf
      /\ m.used = (IF free THEN l.used \ {s} ELSE l.used)
      /\ m.time_slice = l.time_slice
  BY <1>1 DEF SpusType
<1>3. spu_unschedule(l, s, c, free) = Unload(m, NodeOf(s), s, c)
  BY <1>1 DEF spu_unschedule
<1>4. /\ Unloaded(l, spu_unschedule(l, s, c, free), s, c)
      /\ spu_unschedule(l, s, c, free).used = m.used
  BY <1>2, <1>3, UnloadEffect DEF Unloaded
<1> QED
  BY <1>2, <1>4 DEF Unscheduled

\* The loading of context c on SPU s.
LoadedOn(l, m, s, c) ==
  /\ m \in SpusType
  /\ m.ctxOf = [l.ctxOf EXCEPT ![s] = c]
  /\ m.spuOf = [l.spuOf EXCEPT ![c] = s]
  /\ m.used = l.used \cup {s}
  /\ m.time_slice[c] >= 1
  /\ \A d \in Ctx \ {c} : m.time_slice[d] = l.time_slice[d]

(* __spu_schedule() of an SPU without a context.                           *)
LEMMA LoadEffect ==
  ASSUME NEW l \in SpusType, NEW s \in Spu, NEW c \in Ctx,
         info \in [Ctx -> InfoType], l.ctxOf[s] = NULL
  PROVE  LoadedOn(l, Load(l, s, c), s, c)
<1>1. PICK m : m = spu_set_timeslice(l, c)
  OBVIOUS
<1>2. /\ m \in SpusType /\ m.ctxOf = l.ctxOf /\ m.spuOf = l.spuOf
      /\ m.used = l.used /\ m.time_slice[c] >= 1
      /\ \A d \in Ctx \ {c} : m.time_slice[d] = l.time_slice[d]
  BY <1>1, SetTimeslice
<1>3. PICK b : b = spu_bind_context(m, s, c)
  OBVIOUS
<1>4. /\ b \in SpusType
      /\ b.ctxOf = [m.ctxOf EXCEPT ![s] = c]
      /\ b.spuOf = [m.spuOf EXCEPT ![c] = s]
      /\ b.used = m.used
      /\ b.time_slice = m.time_slice
  <2>1. Bound(m, b, s, c)
    BY <1>2, <1>3, BindContext
  <2> QED
    BY <2>1 DEF Bound
<1>5. Load(l, s, c) = [b EXCEPT !.nr_active[NodeOf(s)] = @ + 1,
                                !.used = @ \cup {s}]
  BY <1>1, <1>3 DEF Load
<1>6. PICK e : e = [b EXCEPT !.nr_active[NodeOf(s)] = @ + 1,
                             !.used = @ \cup {s}]
  OBVIOUS
<1>7. /\ e \in SpusType /\ e.ctxOf = b.ctxOf /\ e.spuOf = b.spuOf
      /\ e.used = b.used \cup {s} /\ e.time_slice = b.time_slice
  <2>1. [b.nr_active EXCEPT ![NodeOf(s)] = @ + 1] \in [Node -> Int]
    <3>1. b.nr_active \in [Node -> Int] /\ 1 \in Int
      BY <1>4 DEF SpusType
    <3> QED
      BY <3>1, NodeCounter
  <2> QED
    BY <1>4, <1>6, <2>1 DEF SpusType
<1> QED
  BY <1>2, <1>4, <1>5, <1>6, <1>7 DEF LoadedOn

-----------------------------------------------------------------------------
(* The run queue.                                                          *)

(* list_del_init(): the entry is gone and the others keep their order.     *)
LEMMA RemoveFirstOnce ==
  ASSUME NEW X, NEW s \in Seq(X), IsInjective(s), NEW e
  PROVE  /\ RemoveFirst(s, e) \in Seq(X)
         /\ Range(RemoveFirst(s, e)) = Range(s) \ {e}
         /\ IsInjective(RemoveFirst(s, e))
<1>1. CASE ~ \E i \in 1 .. Len(s) : s[i] = e
  <2>1. RemoveFirst(s, e) = s
    BY <1>1 DEF RemoveFirst
  <2>2. e \notin Range(s)
    BY <1>1 DEF Range
  <2> QED
    BY <2>1, <2>2
<1>2. CASE \E i \in 1 .. Len(s) : s[i] = e
  <2> DEFINE I == {i \in 1 .. Len(s) : s[i] = e}
  <2>1. I \subseteq Nat /\ I # {}
    BY <1>2
  <2>2. Min(I) \in I
    <3> HIDE DEF I
    <3> QED
      BY <2>1, MinNat
  <2>3. PICK k \in 1 .. Len(s) : k = Min(I) /\ s[k] = e
    BY <2>2
  <2>4. SelectInSeq(s, LAMBDA v : v = e) = k
    BY <2>1, <2>3 DEF SelectInSeq
  <2>5. RemoveFirst(s, e) = SubSeq(s, 1, k - 1) \o SubSeq(s, k + 1, Len(s))
    BY <1>2, <2>4 DEF RemoveFirst, RemoveAt
  <2>6. PICK r : r = SubSeq(s, 1, k - 1) \o SubSeq(s, k + 1, Len(s))
    OBVIOUS
  <2>7. /\ r \in Seq(X) /\ Len(r) = Len(s) - 1
        /\ \A j \in 1 .. Len(s) - 1 : r[j] = IF j < k THEN s[j] ELSE s[j + 1]
    <3>1. PICK a : a = SubSeq(s, 1, k - 1)
      OBVIOUS
    <3>2. /\ a \in Seq(X) /\ Len(a) = k - 1
          /\ \A j \in 1 .. k - 1 : a[j] = s[j]
      BY <3>1
    <3>3. PICK b : b = SubSeq(s, k + 1, Len(s))
      OBVIOUS
    <3>4. /\ b \in Seq(X) /\ Len(b) = Len(s) - k
          /\ \A j \in 1 .. Len(s) - k : b[j] = s[j + k]
      BY <3>3
    <3>5. r = a \o b
      BY <2>6, <3>1, <3>3
    <3>6. /\ r \in Seq(X) /\ Len(r) = Len(a) + Len(b)
          /\ \A j \in 1 .. Len(a) : r[j] = a[j]
          /\ \A j \in 1 .. Len(b) : r[j + Len(a)] = b[j]
      <4>1. a \in Seq(X) /\ b \in Seq(X)
        BY <3>2, <3>4
      <4> QED
        BY <3>5, <4>1
    <3>7. ASSUME NEW j \in 1 .. Len(s) - 1
          PROVE  r[j] = IF j < k THEN s[j] ELSE s[j + 1]
      <4>1. CASE j < k
        <5>1. j \in 1 .. Len(a) /\ j \in 1 .. k - 1
          BY <3>2, <4>1
        <5>2. r[j] = a[j] /\ a[j] = s[j]
          BY <3>2, <3>6, <5>1
        <5> QED
          BY <4>1, <5>2
      <4>2. CASE ~(j < k)
        <5>1. PICK m \in 1 .. Len(b) : m = j - (k - 1)
          BY <3>4, <4>2
        <5>2. r[m + Len(a)] = b[m]
          BY <3>6
        <5>3. m + Len(a) = j
          BY <3>2, <5>1
        <5>4. b[m] = s[m + k]
          BY <3>4
        <5>5. m + k = j + 1
          BY <5>1
        <5> QED
          BY <4>2, <5>2, <5>3, <5>4, <5>5
      <4> QED
        BY <4>1, <4>2
    <3>8. Len(r) = Len(s) - 1
      BY <3>2, <3>4, <3>6
    <3> QED
      BY <3>6, <3>7, <3>8
  <2>8. \A j \in DOMAIN r : r[j] # e
    <3> SUFFICES ASSUME NEW j \in DOMAIN r, r[j] = e
                 PROVE  FALSE
      OBVIOUS
    <3>1. j \in 1 .. Len(s) - 1
      BY <2>7
    <3>2. \A x, y \in 1 .. Len(s) : s[x] = s[y] => x = y
      BY DEF IsInjective
    <3>3. CASE j < k
      BY <2>3, <2>7, <3>1, <3>2, <3>3
    <3>4. CASE j >= k
      BY <2>3, <2>7, <3>1, <3>2, <3>4
    <3> QED
      BY <3>1, <3>3, <3>4
  <2>9. \A i \in DOMAIN s : s[i] # e => \E j \in DOMAIN r : r[j] = s[i]
    <3> SUFFICES ASSUME NEW i \in DOMAIN s, s[i] # e
                 PROVE  \E j \in DOMAIN r : r[j] = s[i]
      OBVIOUS
    <3>1. CASE i < k
      BY <2>7, <3>1
    <3>2. CASE i > k
      <4>1. i - 1 \in DOMAIN r /\ r[i - 1] = s[i]
        BY <2>7, <3>2
      <4> QED
        BY <4>1
    <3> QED
      BY <2>3, <3>1, <3>2
  <2>10. \A j \in DOMAIN r : \E i \in DOMAIN s : r[j] = s[i]
    BY <2>7
  <2>11. Range(r) = Range(s) \ {e}
    BY <2>8, <2>9, <2>10 DEF Range
  <2>12. IsInjective(r)
    <3> SUFFICES ASSUME NEW i \in DOMAIN r, NEW j \in DOMAIN r, r[i] = r[j]
                 PROVE  i = j
      BY DEF IsInjective
    <3>1. i \in 1 .. Len(s) - 1 /\ j \in 1 .. Len(s) - 1
      BY <2>7
    <3>2. PICK x \in 1 .. Len(s) : /\ r[i] = s[x]
                                   /\ x = IF i < k THEN i ELSE i + 1
      BY <2>7, <3>1, SMTT(30)
    <3>3. PICK y \in 1 .. Len(s) : /\ r[j] = s[y]
                                   /\ y = IF j < k THEN j ELSE j + 1
      BY <2>7, <3>1
    <3>4. x = y
      <4>1. s[x] = s[y]
        BY <3>2, <3>3
      <4>2. \A m, n \in 1 .. Len(s) : s[m] = s[n] => m = n
        BY DEF IsInjective
      <4> QED
        BY <4>1, <4>2
    <3> QED
      BY <3>1, <3>2, <3>3, <3>4
  <2> QED
    BY <2>5, <2>6, <2>7, <2>11, <2>12
<1> QED
  BY <1>1, <1>2

(* list_add_tail(): the new entry is the only new one.                     *)
LEMMA AppendNew ==
  ASSUME NEW X, NEW s \in Seq(X), IsInjective(s), NEW e \in X, e \notin Range(s)
  PROVE  /\ Append(s, e) \in Seq(X)
         /\ Append(s, e) # <<>>
         /\ Range(Append(s, e)) = Range(s) \cup {e}
         /\ IsInjective(Append(s, e))
<1>1. PICK r : r = Append(s, e)
  OBVIOUS
<1>2. /\ r \in Seq(X) /\ Len(r) = Len(s) + 1 /\ r[Len(s) + 1] = e
      /\ \A j \in 1 .. Len(s) : r[j] = s[j]
  BY <1>1
<1>3. Range(r) = Range(s) \cup {e}
  <2>1. \A j \in DOMAIN r : r[j] = e \/ \E i \in DOMAIN s : r[j] = s[i]
    BY <1>2
  <2>2. \A i \in DOMAIN s : \E j \in DOMAIN r : r[j] = s[i]
    BY <1>2
  <2>3. \E j \in DOMAIN r : r[j] = e
    BY <1>2
  <2> QED
    BY <2>1, <2>2, <2>3 DEF Range
<1>4. IsInjective(r)
  <2> SUFFICES ASSUME NEW i \in DOMAIN r, NEW j \in DOMAIN r, r[i] = r[j]
               PROVE  i = j
    BY DEF IsInjective
  <2>1. \A x \in 1 .. Len(s) : s[x] # e
    BY DEF Range
  <2>2. \A x, y \in 1 .. Len(s) : s[x] = s[y] => x = y
    BY DEF IsInjective
  <2> QED
    BY <1>2, <2>1, <2>2
<1> QED
  BY <1>1, <1>2, <1>3, <1>4

(* The set of the queued contexts is finite.                               *)
LEMMA QueuedFinite ==
  ASSUME NEW q
  PROVE  IsFiniteSet(QueuedIn(q)) /\ Cardinality(QueuedIn(q)) \in Nat
<1>1. IsFiniteSet(QueuedIn(q))
  BY FS_Subset, CtxAssumption DEF QueuedIn
<1> QED
  BY <1>1, FS_CardinalityType

(* A queue is empty, by its counter, when no context is queued.            *)
LEMMA QueueEmpty ==
  ASSUME NEW S, IsFiniteSet(S)
  PROVE  (Cardinality(S) = 0) <=> (S = {})
BY FS_EmptySet

(* A context that is queued is in the list of its priority.                *)
LEMMA QueuedAt ==
  ASSUME NEW q \in QueueType, QueueOK(q), NEW c \in Ctx, NEW p \in Prio,
         c \in Range(q.runq[p])
  PROVE  p = info[c].prio
BY DEF QueueOK, Range

(* __spu_add_to_rq() queues the context, once.                             *)
LEMMA AddToRq ==
  ASSUME NEW q \in QueueType, QueueOK(q), NEW c \in Ctx,
         info \in [Ctx -> InfoType]
  PROVE  /\ __spu_add_to_rq(q, c) \in QueueType
         /\ QueueOK(__spu_add_to_rq(q, c))
         /\ QueuedIn(__spu_add_to_rq(q, c)) = QueuedIn(q) \cup {c}
<1>1. CASE OnRq(q, c)
  BY <1>1 DEF __spu_add_to_rq, QueuedIn
<1>2. CASE ~OnRq(q, c)
  <2>1. PICK b \in Prio : b = info[c].prio
    BY DEF InfoType
  <2>2. PICK r : r = Append(q.runq[b], c)
    OBVIOUS
  <2>3. PICK x : x = [q EXCEPT !.runq[b] = r, !.bitmap = @ \cup {b},
                               !.nr_waiting = @ + 1,
                               !.armed = IF q.nr_waiting = 0 THEN TRUE ELSE @]
    OBVIOUS
  <2>4. __spu_add_to_rq(q, c) = x
    BY <1>2, <2>1, <2>2, <2>3 DEF __spu_add_to_rq
  <2>5. /\ q.runq \in [Prio -> Seq(Ctx)] /\ q.bitmap \subseteq Prio
        /\ q.nr_waiting \in Int /\ q.armed \in BOOLEAN
    BY DEF QueueType
  <2>6. /\ r \in Seq(Ctx) /\ r # <<>> /\ Range(r) = Range(q.runq[b]) \cup {c}
        /\ IsInjective(r)
    <3>1. q.runq[b] \in Seq(Ctx) /\ IsInjective(q.runq[b])
      BY <2>5 DEF QueueOK
    <3>2. c \notin Range(q.runq[b])
      BY <1>2 DEF OnRq
    <3> QED
      BY <2>2, <3>1, <3>2, AppendNew
  <2>7. /\ x \in QueueType
        /\ x.runq = [q.runq EXCEPT ![b] = r]
        /\ x.bitmap = q.bitmap \cup {b}
        /\ x.nr_waiting = q.nr_waiting + 1
        /\ x.armed <=> (q.nr_waiting = 0 \/ q.armed)
    <3>1. PICK ar \in BOOLEAN : ar = IF q.nr_waiting = 0 THEN TRUE ELSE q.armed
      BY <2>5
    <3>2. x = [q EXCEPT !.runq[b] = r, !.bitmap = @ \cup {b},
                        !.nr_waiting = @ + 1, !.armed = ar]
      BY <2>3, <3>1
    <3>3. ar <=> (q.nr_waiting = 0 \/ q.armed)
      BY <2>5, <3>1
    <3>4. x.armed = ar
      BY <3>2 DEF QueueType
    <3>5. [q.runq EXCEPT ![b] = r] \in [Prio -> Seq(Ctx)]
      BY <2>5, <2>6
    <3>6. /\ x.runq = [q.runq EXCEPT ![b] = r]
          /\ x.bitmap = q.bitmap \cup {b}
          /\ x.nr_waiting = q.nr_waiting + 1
      BY <3>2 DEF QueueType
    <3>7. x \in QueueType
      <4>1. x = [runq |-> [q.runq EXCEPT ![b] = r], bitmap |-> q.bitmap \cup {b},
                 nr_waiting |-> q.nr_waiting + 1, armed |-> ar]
        BY <3>2 DEF QueueType
      <4>2. q.bitmap \cup {b} \in SUBSET Prio /\ q.nr_waiting + 1 \in Int
        BY <2>5
      <4> QED
        BY <3>1, <3>5, <4>1, <4>2, Zenon DEF QueueType
    <3>8. x.armed <=> (q.nr_waiting = 0 \/ q.armed)
      BY <3>3, <3>4
    <3> QED
      BY <3>6, <3>7, <3>8
  <2>8. QueuedIn(x) = QueuedIn(q) \cup {c}
    <3>1. \A p \in Prio : Range(x.runq[p])
            = IF p = b THEN Range(q.runq[p]) \cup {c} ELSE Range(q.runq[p])
      BY <2>5, <2>6, <2>7
    <3> QED
      BY <3>1 DEF QueuedIn, OnRq
  <2>9. x.nr_waiting = Cardinality(QueuedIn(x))
    <3>1. c \notin QueuedIn(q)
      BY <1>2 DEF QueuedIn
    <3>2. Cardinality(QueuedIn(q) \cup {c}) = Cardinality(QueuedIn(q)) + 1
      BY <3>1, QueuedFinite, FS_AddElement
    <3> QED
      BY <2>7, <2>8, <3>2 DEF QueueOK
  <2>10. ASSUME NEW p \in Prio
         PROVE  /\ p \in x.bitmap <=> x.runq[p] # <<>>
                /\ \A i \in DOMAIN x.runq[p] : info[x.runq[p][i]].prio = p
                /\ IsInjective(x.runq[p])
    <3>1. CASE p = b
      <4>1. x.runq[p] = r
        BY <2>5, <2>7, <3>1
      <4>2. \A d \in Range(r) : info[d].prio = p
        <5>1. \A d \in Range(q.runq[b]) : info[d].prio = b
          BY DEF QueueOK, Range
        <5> QED
          BY <2>1, <2>6, <3>1, <5>1
      <4>3. \A i \in DOMAIN r : r[i] \in Range(r)
        BY DEF Range
      <4> QED
        BY <2>6, <2>7, <3>1, <4>1, <4>2, <4>3
    <3>2. CASE p # b
      BY <2>5, <2>7, <3>2 DEF QueueOK
    <3> QED
      BY <3>1, <3>2
  <2>11. x.nr_waiting > 0 => x.armed
    <3>1. q.nr_waiting \in Nat
      BY QueuedFinite DEF QueueOK
    <3>2. CASE q.nr_waiting = 0
      BY <2>7, <3>2
    <3>3. CASE q.nr_waiting # 0
      BY <2>7, <3>1, <3>3 DEF QueueOK
    <3> QED
      BY <3>2, <3>3
  <2>12. QueueOK(x)
    BY <2>9, <2>10, <2>11 DEF QueueOK
  <2> QED
    BY <2>4, <2>7, <2>8, <2>12
<1> QED
  BY <1>1, <1>2

(* __spu_del_from_rq() takes the context off the queue.                    *)
LEMMA DelFromRq ==
  ASSUME NEW q \in QueueType, QueueOK(q), NEW c \in Ctx \cup {NULL},
         info \in [Ctx -> InfoType]
  PROVE  /\ __spu_del_from_rq(q, c) \in QueueType
         /\ QueueOK(__spu_del_from_rq(q, c))
         /\ QueuedIn(__spu_del_from_rq(q, c)) = QueuedIn(q) \ {c}
<1>1. CASE ~OnRq(q, c)
  BY <1>1 DEF __spu_del_from_rq, QueuedIn
<1>2. CASE OnRq(q, c)
  <2>0. c \in Ctx
    <3>1. \A p \in Prio : Range(q.runq[p]) \subseteq Ctx
      BY DEF QueueType, Range
    <3> QED
      BY <1>2, <3>1 DEF OnRq
  <2>1. PICK b \in Prio : b = info[c].prio
    BY <2>0 DEF InfoType
  <2>2. PICK left : left = [p \in Prio |-> RemoveFirst(q.runq[p], c)]
    OBVIOUS
  <2>3. PICK x : x = [q EXCEPT !.runq = left,
                        !.bitmap = IF left[b] = <<>> THEN @ \ {b} ELSE @,
                        !.nr_waiting = @ - 1,
                        !.armed = IF q.nr_waiting = 1 THEN FALSE ELSE @]
    OBVIOUS
  <2>4. __spu_del_from_rq(q, c) = x
    BY <1>2, <2>1, <2>2, <2>3 DEF __spu_del_from_rq
  <2>5. /\ q.runq \in [Prio -> Seq(Ctx)] /\ q.bitmap \subseteq Prio
        /\ q.nr_waiting \in Int /\ q.armed \in BOOLEAN
    BY DEF QueueType
  <2>6. \A p \in Prio : /\ left[p] \in Seq(Ctx) /\ IsInjective(left[p])
                        /\ Range(left[p]) = Range(q.runq[p]) \ {c}
    <3> SUFFICES ASSUME NEW p \in Prio
                 PROVE  /\ left[p] \in Seq(Ctx) /\ IsInjective(left[p])
                        /\ Range(left[p]) = Range(q.runq[p]) \ {c}
      OBVIOUS
    <3>1. q.runq[p] \in Seq(Ctx) /\ IsInjective(q.runq[p])
      BY <2>5 DEF QueueOK
    <3>2. left[p] = RemoveFirst(q.runq[p], c)
      BY <2>2
    <3> QED
      BY <3>1, <3>2, RemoveFirstOnce
  <2>7. /\ x \in QueueType
        /\ x.runq = left
        /\ x.bitmap = (IF left[b] = <<>> THEN q.bitmap \ {b} ELSE q.bitmap)
        /\ x.nr_waiting = q.nr_waiting - 1
        /\ x.armed <=> (q.nr_waiting # 1 /\ q.armed)
    <3>1. left \in [Prio -> Seq(Ctx)]
      BY <2>2, <2>6
    <3>2. PICK ar \in BOOLEAN : ar = IF q.nr_waiting = 1 THEN FALSE ELSE q.armed
      BY <2>5
    <3>3. PICK bm \in SUBSET Prio :
            bm = IF left[b] = <<>> THEN q.bitmap \ {b} ELSE q.bitmap
      BY <2>5
    <3>4. x = [q EXCEPT !.runq = left, !.bitmap = bm,
                        !.nr_waiting = @ - 1, !.armed = ar]
      BY <2>3, <3>2, <3>3
    <3>5. ar <=> (q.nr_waiting # 1 /\ q.armed)
      BY <2>5, <3>2
    <3>6. x.armed = ar
      BY <3>4 DEF QueueType
    <3>7. x.runq = left /\ x.bitmap = bm /\ x.nr_waiting = q.nr_waiting - 1
      BY <3>4 DEF QueueType
    <3>8. x \in QueueType
      <4>1. x = [runq |-> left, bitmap |-> bm,
                 nr_waiting |-> q.nr_waiting - 1, armed |-> ar]
        BY <3>4 DEF QueueType
      <4>2. q.nr_waiting - 1 \in Int
        BY <2>5
      <4> QED
        BY <3>1, <3>2, <3>3, <4>1, <4>2, Zenon DEF QueueType
    <3>9. x.armed <=> (q.nr_waiting # 1 /\ q.armed)
      BY <3>5, <3>6
    <3> QED
      BY <3>3, <3>7, <3>8, <3>9
  <2>8. QueuedIn(x) = QueuedIn(q) \ {c}
    BY <2>6, <2>7 DEF QueuedIn, OnRq
  <2>9. x.nr_waiting = Cardinality(QueuedIn(x))
    <3>1. c \in QueuedIn(q)
      BY <1>2, <2>0 DEF QueuedIn
    <3>2. Cardinality(QueuedIn(q) \ {c}) = Cardinality(QueuedIn(q)) - 1
      BY <3>1, QueuedFinite, FS_RemoveElement
    <3> QED
      BY <2>7, <2>8, <3>2 DEF QueueOK
  <2>10. ASSUME NEW p \in Prio
         PROVE  /\ p \in x.bitmap <=> x.runq[p] # <<>>
                /\ \A i \in DOMAIN x.runq[p] : info[x.runq[p][i]].prio = p
                /\ IsInjective(x.runq[p])
    <3>1. \A d \in Range(left[p]) : info[d].prio = p
      <4>1. \A d \in Range(q.runq[p]) : info[d].prio = p
        BY DEF QueueOK, Range
      <4> QED
        BY <2>6, <4>1
    <3>2. \A i \in DOMAIN left[p] : left[p][i] \in Range(left[p])
      BY DEF Range
    <3>3. p \in q.bitmap <=> q.runq[p] # <<>>
      BY DEF QueueOK
    <3>4. p # b => left[p] = q.runq[p]
      <4> SUFFICES ASSUME p # b
                   PROVE  RemoveFirst(q.runq[p], c) = q.runq[p]
        BY <2>2
      <4>1. c \notin Range(q.runq[p])
        BY <2>0, <2>1, QueuedAt
      <4>2. ~ \E i \in 1 .. Len(q.runq[p]) : q.runq[p][i] = c
        <5>1. q.runq[p] \in Seq(Ctx)
          BY <2>5
        <5> QED
          BY <4>1, <5>1 DEF Range
      <4> QED
        BY <4>2 DEF RemoveFirst
    <3>5. p = b => (p \in x.bitmap <=> left[p] # <<>>)
      <4> SUFFICES ASSUME p = b
                   PROVE  p \in x.bitmap <=> left[p] # <<>>
        OBVIOUS
      <4>1. CASE left[b] = <<>>
        BY <2>7, <4>1
      <4>2. CASE left[b] # <<>>
        <5>1. q.runq[b] # <<>>
          <6>1. \E p0 \in Prio : c \in Range(q.runq[p0])
            BY <1>2 DEF OnRq
          <6>2. c \in Range(q.runq[b])
            BY <2>0, <2>1, <6>1, QueuedAt
          <6>3. Range(<<>>) = {}
            BY DEF Range
          <6> QED
            BY <6>2, <6>3
        <5> QED
          BY <2>7, <3>3, <4>2, <5>1
      <4> QED
        BY <4>1, <4>2
    <3>6. p # b => (p \in x.bitmap <=> left[p] # <<>>)
      BY <2>7, <3>3, <3>4
    <3> QED
      BY <2>6, <2>7, <3>1, <3>2, <3>5, <3>6
  <2>11. x.nr_waiting > 0 => x.armed
    <3>1. q.nr_waiting \in Nat
      BY QueuedFinite DEF QueueOK
    <3>2. CASE q.nr_waiting <= 1
      BY <2>7, <3>1, <3>2
    <3>3. CASE q.nr_waiting > 1
      BY <2>7, <3>1, <3>3 DEF QueueOK
    <3> QED
      BY <3>1, <3>2, <3>3
  <2>12. QueueOK(x)
    BY <2>9, <2>10, <2>11 DEF QueueOK
  <2> QED
    BY <2>4, <2>7, <2>8, <2>12
<1> QED
  BY <1>1, <1>2

(* grab_runnable_context() returns a context that is queued, or none.      *)
LEMMA Grabbed ==
  ASSUME NEW q \in QueueType, NEW prio \in Int, prio <= MAX_PRIO, NEW n
  PROVE  grab_runnable_context(q, prio, n) \in QueuedIn(q) \cup {NULL}
<1> DEFINE Fit(p) == {c \in Range(q.runq[p]) : node_allowed(c, n)}
           best == {p \in 0 .. prio - 1 :
                      (\E b \in q.bitmap : b <= p) /\ Fit(p) # {}}
<1>1. CASE best = {}
  BY <1>1 DEF grab_runnable_context
<1>2. CASE best # {}
  <2>1. best \subseteq Nat
    OBVIOUS
  <2>2. PICK m \in best : m = Min(best)
    <3> HIDE DEF best
    <3> QED
      BY <1>2, <2>1, MinNat
  <2>3. m \in Prio /\ Fit(m) # {}
    <3>1. m \in 0 .. prio - 1 /\ Fit(m) # {}
      BY <2>2
    <3>2. 0 .. prio - 1 \subseteq Prio
      BY PrioAssumption DEF Prio
    <3> HIDE DEF Fit
    <3> QED
      BY <3>1, <3>2
  <2>4. grab_runnable_context(q, prio, n) = First(q.runq[m], Fit(m))
    BY <1>2, <2>2 DEF grab_runnable_context
  <2>5. q.runq[m] \in Seq(Ctx)
    BY <2>3 DEF QueueType
  <2>6. Range(q.runq[m]) \cap Fit(m) # {}
    BY <2>3
  <2>7. First(q.runq[m], Fit(m)) \in Ctx
        /\ First(q.runq[m], Fit(m)) \in Range(q.runq[m])
    <3> HIDE DEF Fit
    <3> QED
      BY <2>5, <2>6, FirstFound
  <2> QED
    BY <2>3, <2>4, <2>7 DEF QueuedIn, OnRq
<1> QED
  BY <1>1, <1>2

-----------------------------------------------------------------------------
(* Affinity.                                                               *)

(* aff_ref_location() returns an SPU, or none.                             *)
LEMMA RefLocation ==
  ASSUME NEW g, NEW start \in Node, NEW refs
  PROVE  aff_ref_location(g, start, refs) \in Spu \cup {NULL}
<1> DEFINE Fit(n) == {s \in Range(SpuList[n]) :
             (AffRef[g] \in MemAff => s \in HasMemAff) /\ sched_spu(s)}
           all == NodeOrder(start)
           room == {n \in Range(all) : /\ node_allowed(AffRef[g], n)
                                       /\ available_spus(n, refs) >= contexts(g)
                                       /\ Fit(n) # {}}
           node == First(all, room)
<1>1. aff_ref_location(g, start, refs)
        = IF room = {} THEN NULL ELSE First(SpuList[node], Fit(node))
  BY DEF aff_ref_location
<1>2. ASSUME room # {}
      PROVE  First(SpuList[node], Fit(node)) \in Spu
  <2>1. all \in Seq(Node)
    BY NodeOrderType
  <2>3. Range(all) \cap room # {}
    BY <1>2
  <2>4. node \in room
    <3> HIDE DEF all, room
    <3> QED
      BY <2>1, <2>3, FirstFound
  <2>5. PICK m \in Node : m = node /\ Fit(m) # {}
    <3>1. Range(all) \subseteq Node
      BY <2>1 DEF Range
    <3> HIDE DEF all
    <3> QED
      BY <2>4, <3>1
  <2>6. SpuList[m] \in Seq(Spu) /\ Range(SpuList[m]) \cap Fit(m) # {}
    BY <2>5, SpuNodes
  <2>7. First(SpuList[m], Fit(m)) \in Spu
    <3> HIDE DEF Fit
    <3> QED
      BY <2>6, FirstFound
  <2> HIDE DEF Fit, node
  <2> QED
    BY <2>5, <2>7
<1> QED
  BY <1>1, <1>2

(* has_affinity() leaves an SPU in aff_ref_spu, or none.                   *)
LEMMA AffinityType ==
  ASSUME NEW g \in Gang, spus \in SpusType
  PROVE  has_affinity(g) \subseteq Spu \cup {NULL}
<1>1. PICK refs \in [Gang -> Spu \cup {NULL}] :
        refs = IF spus.aff_sched_count[g] = 0
               THEN [spus.aff_ref_spu EXCEPT ![g] = NULL] ELSE spus.aff_ref_spu
  BY DEF SpusType
<1>2. has_affinity(g) = IF refs[g] # NULL THEN {refs[g]}
        ELSE {aff_ref_location(g, start, refs) : start \in Node}
  BY <1>1 DEF has_affinity
<1>3. \A start \in Node : aff_ref_location(g, start, refs) \in Spu \cup {NULL}
  BY RefLocation
<1> QED
  BY <1>1, <1>2, <1>3

(* ctx_location() returns an SPU of the ring of its reference SPU.         *)
LEMMA CtxLocation ==
  ASSUME NEW ref \in Spu, NEW offset
  PROVE  ctx_location(ref, offset) \in Spu
<1> DEFINE ring == SpuList[NodeOf(ref)]
           size == Len(ring)
           from == Position(ring, ref) - 1
           Nth(k) == ring[((from + IF offset >= 0 THEN k ELSE -k) % size) + 1]
           Passed(k) == Cardinality({j \in 0 .. k - 1 : sched_spu(Nth(j))})
           dist == IF offset >= 0 THEN offset ELSE -offset
           stops == {k \in 0 .. size - 1 : k = size - 1 \/ Passed(k) = dist}
<1>1. ctx_location(ref, offset) = Nth(Min(stops))
  BY DEF ctx_location
<1>2. ring \in Seq(Spu) /\ ref \in Range(ring)
  BY SpuNodes
<1> HIDE DEF ring
<1>3. size \in Nat \ {0}
  BY <1>2 DEF Range
<1>4. from \in Int
  <2>1. \E i \in DOMAIN ring : ring[i] = ref
    BY <1>2 DEF Range
  <2>2. Position(ring, ref) \in DOMAIN ring
    BY <2>1 DEF Position
  <2> QED
    BY <1>2, <2>2
<1> HIDE DEF from
<1>5. Min(stops) \in 0 .. size - 1
  <2>1. stops \subseteq Nat
    BY <1>3
  <2>2. size - 1 \in stops
    BY <1>3
  <2> HIDE DEF stops
  <2>3. Min(stops) \in stops
    BY <2>1, <2>2, MinNat
  <2> QED
    BY <2>3 DEF stops
<1> HIDE DEF stops, size
<1>6. \A k \in Int : Nth(k) \in Spu
  <2> SUFFICES ASSUME NEW k \in Int
               PROVE  Nth(k) \in Spu
    OBVIOUS
  <2>1. PICK z \in Int : z = from + IF offset >= 0 THEN k ELSE -k
    BY <1>4
  <2>2. z % size \in 0 .. size - 1
    BY <1>3
  <2>3. (z % size) + 1 \in 1 .. Len(ring)
    BY <2>2, <1>2, <1>3 DEF size
  <2>4. ring[(z % size) + 1] \in Spu
    BY <1>2, <2>3
  <2> QED
    BY <2>1, <2>4
<1> HIDE DEF Nth
<1> QED
  BY <1>1, <1>3, <1>5, <1>6

-----------------------------------------------------------------------------
(* The locals of a thread.                                                 *)

(* Contexts are threads, and NULL is none of the objects.                  *)
LEMMA Sorts ==
  /\ Ctx \subseteq Thread /\ Saver \subseteq Thread /\ spusched \in Thread
  /\ NULL \notin Thread /\ NULL \notin Ctx /\ NULL \notin Spu
  /\ NULL \notin Gang /\ spusched \notin Ctx /\ spusched \notin Saver
  /\ \A t \in Saver : t \notin Ctx
  /\ NoSched \subseteq Ctx /\ Saved \subseteq Ctx
BY CtxAssumption DEF Thread

(* The fields of the locals of a thread have their types.                  *)
LEMMA Fields ==
  ASSUME NEW t, NEW l \in Locals(t)
  PROVE  /\ l.ctx \in Ctx \cup {NULL} /\ l.spu \in Spu \cup {NULL}
         /\ l.new \in Ctx \cup {NULL}
         /\ t # spusched => l.todo \in Seq(Node)
         /\ t = spusched => l.todo \in Seq(Seq(Spu))
         /\ l = Local(l.pc, l.ctx, l.spu, l.new, l.todo)
BY DEF Locals, Local

(* A record of locals that Local() makes.                                  *)
LEMMA LocalType ==
  ASSUME NEW t \in Thread, NEW pc, NEW c \in Ctx \cup {NULL},
         NEW s \in Spu \cup {NULL}, NEW d \in Ctx \cup {NULL}, NEW todo,
         pc \in {"idle", "activate", "location", "scan", "victims", "trylock",
                 "load", "queue", "wait", "running", "yield", "handover",
                 "saved", "retake", "walk", "tick"},
         t # spusched => todo \in Seq(Node),
         t = spusched => todo \in Seq(Seq(Spu))
  PROVE  /\ Local(pc, c, s, d, todo) \in Locals(t)
         /\ Local(pc, c, s, d, todo).pc = pc
         /\ Local(pc, c, s, d, todo).ctx = c
         /\ Local(pc, c, s, d, todo).spu = s
         /\ Local(pc, c, s, d, todo).new = d
         /\ Local(pc, c, s, d, todo).todo = todo
<1>1. CASE t = spusched
  BY <1>1 DEF Local, Locals
<1>2. CASE t # spusched
  BY <1>2 DEF Local, Locals
<1> QED
  BY <1>1, <1>2

(* A thread outside every operation.                                       *)
LEMMA IdleType ==
  ASSUME NEW t \in Thread
  PROVE  Idle \in Locals(t) /\ Idle.pc = "idle" /\ Idle.ctx = NULL
         /\ LocalsOf(t, Idle)
<1>1. <<>> \in Seq(Node) /\ <<>> \in Seq(Seq(Spu))
  OBVIOUS
<1>2. Idle \in Locals(t) /\ Idle.pc = "idle" /\ Idle.ctx = NULL
  <2>1. CASE t = spusched
    BY <1>1, <2>1 DEF Idle, Local, Locals
  <2>2. CASE t # spusched
    BY <1>1, <2>2 DEF Idle, Local, Locals
  <2> QED
    BY <2>1, <2>2
<1> QED
  BY <1>2 DEF LocalsOf, Holding, Activating

-----------------------------------------------------------------------------
(* One thread takes a step: what the step has to satisfy.                  *)

(* The locals that the thread is left with have their shape, and so has    *)
(* the state of sched.c.                                                   *)
LEMMA ShapeStep ==
  ASSUME SchedInv, NEW t \in Thread, NEW x \in Locals(t), LocalsOf(t, x),
         th' = [th EXCEPT ![t] = x],
         spus' \in SpusType, spu_prio' \in QueueType,
         info' \in [Ctx -> InfoType], spu_run' \subseteq Ctx,
         owner' \in [Ctx -> Thread \cup {NULL}], woken' \subseteq Thread
  PROVE  Shape' /\ LocalsInv'
<1>1. DOMAIN th = Thread
  BY DEF SchedInv, Shape
<1>2. DOMAIN th' = Thread
  BY <1>1
<1>3. \A u \in Thread : th'[u] = IF u = t THEN x ELSE th[u]
  BY <1>1
<1>4. \A u \in Thread : th'[u] \in Locals(u) /\ LocalsOf(u, th'[u])
  BY <1>3 DEF SchedInv, Shape, LocalsInv
<1> QED
  BY <1>2, <1>4 DEF Shape, LocalsInv, SpusType, QueueType, InfoType, Locals,
     LocalsOf

(* The state_mutex of a context changes hands only if it is free or held   *)
(* by the thread that steps.                                               *)
LEMMA OwnerStep ==
  ASSUME SchedInv, NEW t \in Thread, NEW x,
         th' = [th EXCEPT ![t] = x],
         \A c \in Ctx : owner'[c] # owner[c] => owner[c] \in {NULL, t},
         x.pc \in Holding => owner'[x.ctx] = t
  PROVE  OwnerInv'
<1> SUFFICES ASSUME NEW u \in Thread, th'[u].pc \in Holding
             PROVE  owner'[th'[u].ctx] = u
  BY DEF OwnerInv
<1>1. CASE u = t
  BY <1>1 DEF SchedInv, Shape
<1>2. CASE u # t
  <2>1. th'[u] = th[u]
    BY <1>2 DEF SchedInv, Shape
  <2>2. owner[th[u].ctx] = u
    BY <2>1 DEF SchedInv, OwnerInv
  <2>3. th[u].ctx \in Ctx
    BY <2>1 DEF SchedInv, LocalsInv, LocalsOf
  <2> QED
    BY <1>2, <2>1, <2>2, <2>3, Sorts
<1> QED
  BY <1>1, <1>2

(* What another thread holds is not loaded, and keeps its flag.            *)
LEMMA ActivateStep ==
  ASSUME SchedInv, NEW t \in Thread, NEW x,
         th' = [th EXCEPT ![t] = x],
         \A c \in Ctx : owner[c] \notin {NULL, t} =>
           /\ spus.spuOf[c] = NULL => spus'.spuOf[c] = NULL
           /\ c \in spu_run => c \in spu_run',
         x.pc \in Activating /\ x.ctx \notin NoSched =>
           /\ spus'.spuOf[x.ctx] = NULL
           /\ t \notin Ctx => x.ctx \in spu_run'
  PROVE  ActivateInv'
<1> SUFFICES ASSUME NEW u \in Thread, th'[u].pc \in Activating,
                    th'[u].ctx \notin NoSched
             PROVE  /\ spus'.spuOf[th'[u].ctx] = NULL
                    /\ u \notin Ctx => th'[u].ctx \in spu_run'
  BY DEF ActivateInv
<1>1. CASE u = t
  BY <1>1 DEF SchedInv, Shape
<1>2. CASE u # t
  <2>1. th'[u] = th[u]
    BY <1>2 DEF SchedInv, Shape
  <2>2. owner[th[u].ctx] = u /\ th[u].ctx \in Ctx
    BY <2>1 DEF SchedInv, OwnerInv, LocalsInv, LocalsOf, Holding
  <2>3. /\ spus.spuOf[th[u].ctx] = NULL
        /\ u \notin Ctx => th[u].ctx \in spu_run
    BY <2>1 DEF SchedInv, ActivateInv
  <2> QED
    BY <1>2, <2>1, <2>2, <2>3, Sorts
<1> QED
  BY <1>1, <1>2

(* SPU_SCHED_SPU_RUN follows the thread of the context.                    *)
LEMMA RunStep ==
  ASSUME SchedInv, NEW t \in Thread, NEW x,
         th' = [th EXCEPT ![t] = x],
         \A c \in Ctx \ {t} : c \in spu_run' <=> c \in spu_run,
         t \in Ctx => (t \in spu_run' <=> x.pc = "running"),
         \A c \in Queued' : c \notin NoSched => c \in spu_run'
  PROVE  RunInv'
<1> SUFFICES ASSUME NEW c \in Ctx
             PROVE  c \in spu_run' <=> th'[c].pc = "running"
  BY DEF RunInv
<1>1. CASE c = t
  BY <1>1 DEF SchedInv, Shape
<1>2. CASE c # t
  <2>1. th'[c] = th[c]
    BY <1>2, Sorts DEF SchedInv, Shape
  <2> QED
    BY <1>2, <2>1 DEF SchedInv, RunInv
<1> QED
  BY <1>1, <1>2

(* All of SchedInv.                                                        *)
LEMMA Step ==
  ASSUME SchedInv, NEW t \in Thread, NEW x \in Locals(t), LocalsOf(t, x),
         th' = [th EXCEPT ![t] = x],
         spus' \in SpusType, spu_prio' \in QueueType,
         info' \in [Ctx -> InfoType], spu_run' \subseteq Ctx,
         owner' \in [Ctx -> Thread \cup {NULL}], woken' \subseteq Thread,
         \A c \in Ctx : owner'[c] # owner[c] => owner[c] \in {NULL, t},
         x.pc \in Holding => owner'[x.ctx] = t,
         \A c \in Ctx : owner[c] \notin {NULL, t} =>
           /\ spus.spuOf[c] = NULL => spus'.spuOf[c] = NULL
           /\ c \in spu_run => c \in spu_run',
         x.pc \in Activating /\ x.ctx \notin NoSched =>
           /\ spus'.spuOf[x.ctx] = NULL
           /\ t \notin Ctx => x.ctx \in spu_run',
         \A c \in Ctx \ {t} : c \in spu_run' <=> c \in spu_run,
         t \in Ctx => (t \in spu_run' <=> x.pc = "running"),
         \A c \in Queued' : c \notin NoSched => c \in spu_run',
         HandsExclusive', BindingExact', QueueExact', SliceInv'
  PROVE  SchedInv'
<1>1. Shape' /\ LocalsInv'
  BY ShapeStep
<1>2. OwnerInv'
  BY OwnerStep
<1>3. ActivateInv'
  BY ActivateStep
<1>4. RunInv'
  BY RunStep
<1> QED
  BY <1>1, <1>2, <1>3, <1>4 DEF SchedInv

-----------------------------------------------------------------------------
(* The four ways in which the SPUs change hands.                           *)

(* No SPU changes hands, and the thread that steps has none in its hands   *)
(* afterwards.                                                             *)
LEMMA HandsNone ==
  ASSUME SchedInv, NEW t \in Thread, NEW x,
         th' = [th EXCEPT ![t] = x],
         x.pc \notin {"load", "handover"},
         spus'.ctxOf = spus.ctxOf, spus'.spuOf = spus.spuOf,
         spus'.used = spus.used
  PROVE  HandsExclusive' /\ BindingExact'
<1>1. \A u \in Thread : th'[u] = IF u = t THEN x ELSE th[u]
  BY DEF SchedInv, Shape
<1>2. \A u \in Thread : InHand(u)' \subseteq InHand(u)
  BY <1>1 DEF InHand
<1>3. HandsExclusive'
  BY <1>2 DEF SchedInv, HandsExclusive
<1>4. BindingExact'
  BY DEF SchedInv, BindingExact
<1> QED
  BY <1>3, <1>4

(* spu_get_idle() takes a free SPU.                                        *)
LEMMA HandsTake ==
  ASSUME SchedInv, NEW t \in Thread, NEW x, NEW s \in Spu, s \notin spus.used,
         th' = [th EXCEPT ![t] = x],
         x.pc = "load", x.spu = s,
         spus'.ctxOf = spus.ctxOf, spus'.spuOf = spus.spuOf,
         spus'.used = spus.used \cup {s}
  PROVE  HandsExclusive' /\ BindingExact'
<1>1. \A u \in Thread : th'[u] = IF u = t THEN x ELSE th[u]
  BY DEF SchedInv, Shape
<1>2. \A u \in Thread : u # t => InHand(u)' = InHand(u)
  BY <1>1 DEF InHand
<1>3. InHand(t)' = {s}
  BY <1>1 DEF InHand
<1>4. spus.ctxOf[s] = NULL /\ \A u \in Thread : s \notin InHand(u)
  BY DEF SchedInv, BindingExact, HandsExclusive
<1>5. HandsExclusive'
  BY <1>2, <1>3, <1>4 DEF SchedInv, HandsExclusive
<1>6. BindingExact'
  BY DEF SchedInv, BindingExact
<1> QED
  BY <1>5, <1>6

(* A context is unloaded, and its SPU is made free, is in the hands of the *)
(* thread, or is lost.                                                     *)
LEMMA HandsUnload ==
  ASSUME SchedInv, NEW t \in Thread, NEW x, NEW s \in Spu, NEW c \in Ctx,
         spus.spuOf[c] = s,
         th' = [th EXCEPT ![t] = x],
         spus'.ctxOf = [spus.ctxOf EXCEPT ![s] = NULL],
         spus'.spuOf = [spus.spuOf EXCEPT ![c] = NULL],
         spus'.used \in {spus.used, spus.used \ {s}},
         x.pc \in {"load", "handover"} => x.spu = s /\ spus'.used = spus.used
  PROVE  HandsExclusive' /\ BindingExact'
<1>1. \A u \in Thread : th'[u] = IF u = t THEN x ELSE th[u]
  BY DEF SchedInv, Shape
<1>2. \A u \in Thread : u # t => InHand(u)' = InHand(u)
  BY <1>1 DEF InHand
<1>3. InHand(t)' \subseteq {s}
  BY <1>1 DEF InHand
<1>4. InHand(t)' # {} => spus'.used = spus.used
  BY <1>1 DEF InHand
<1>5. s \in spus.used /\ spus.ctxOf[s] = c
  BY Sorts DEF SchedInv, BindingExact
<1>6. \A u \in Thread : s \notin InHand(u)
  BY <1>5, Sorts DEF SchedInv, HandsExclusive
<1>7. /\ \A r \in Spu : spus'.ctxOf[r] = IF r = s THEN NULL ELSE spus.ctxOf[r]
      /\ \A d \in Ctx : spus'.spuOf[d] = IF d = c THEN NULL ELSE spus.spuOf[d]
  BY DEF SchedInv, Shape, SpusType
<1>8. HandsExclusive'
  <2> SUFFICES ASSUME NEW u \in Thread, NEW r \in InHand(u)'
               PROVE  /\ r \in spus'.used
                      /\ spus'.ctxOf[r] = NULL
                      /\ \A v \in Thread \ {u} : r \notin InHand(v)'
    BY DEF HandsExclusive
  <2>1. CASE u = t
    <3>1. r = s /\ spus'.used = spus.used
      BY <1>3, <1>4, <2>1
    <3>2. \A v \in Thread \ {u} : r \notin InHand(v)'
      BY <1>2, <1>6, <2>1, <3>1
    <3> QED
      BY <1>5, <1>7, <3>1, <3>2
  <2>2. CASE u # t
    <3>1. r \in InHand(u)
      BY <1>2, <2>2
    <3>2. /\ r \in spus.used /\ spus.ctxOf[r] = NULL /\ r # s
          /\ \A v \in Thread \ {u} : r \notin InHand(v)
      BY <1>6, <3>1 DEF SchedInv, HandsExclusive
    <3>3. r \in Spu
      BY <3>2 DEF SchedInv, Shape, SpusType
    <3> QED
      BY <1>2, <1>3, <1>7, <3>2, <3>3
  <2> QED
    BY <2>1, <2>2
<1>9. BindingExact'
  <2>1. ASSUME NEW d \in Ctx, spus'.spuOf[d] # NULL
        PROVE  spus'.ctxOf[spus'.spuOf[d]] = d
    <3>1. d # c /\ spus'.spuOf[d] = spus.spuOf[d]
      BY <1>7, <2>1
    <3>2. spus.ctxOf[spus.spuOf[d]] = d /\ spus.spuOf[d] \in Spu
      BY <2>1, <3>1 DEF SchedInv, BindingExact, Shape, SpusType
    <3>3. spus.spuOf[d] # s
      BY <1>5, <3>1, <3>2
    <3> QED
      BY <1>7, <3>1, <3>2, <3>3
  <2>2. ASSUME NEW r \in Spu, spus'.ctxOf[r] # NULL
        PROVE  /\ r \in spus'.used
               /\ spus'.ctxOf[r] \notin NoSched => spus'.spuOf[spus'.ctxOf[r]] = r
    <3>1. r # s /\ spus'.ctxOf[r] = spus.ctxOf[r]
      BY <1>7, <2>2
    <3>2. r \in spus.used /\ spus.ctxOf[r] \in Ctx
      BY <2>2, <3>1 DEF SchedInv, BindingExact, Shape, SpusType
    <3>3. ASSUME spus.ctxOf[r] \notin NoSched
          PROVE  spus'.spuOf[spus.ctxOf[r]] = r
      <4>1. spus.spuOf[spus.ctxOf[r]] = r
        BY <2>2, <3>1, <3>3 DEF SchedInv, BindingExact
      <4>2. spus.ctxOf[r] # c
        BY <3>1, <4>1
      <4> QED
        BY <1>7, <3>2, <4>1, <4>2
    <3> QED
      BY <3>1, <3>2, <3>3
  <2> QED
    BY <2>1, <2>2 DEF BindingExact
<1> QED
  BY <1>8, <1>9

(* __spu_schedule(): the SPU in the hands of the thread gets its context.  *)
LEMMA HandsLoad ==
  ASSUME SchedInv, NEW t \in Thread, NEW x, NEW s \in Spu, NEW c \in Ctx,
         th[t].pc \in {"load", "handover"}, th[t].spu = s,
         c \notin NoSched => spus.spuOf[c] = NULL,
         th' = [th EXCEPT ![t] = x],
         x.pc \notin {"load", "handover"},
         spus'.ctxOf = [spus.ctxOf EXCEPT ![s] = c],
         spus'.spuOf = [spus.spuOf EXCEPT ![c] = s],
         spus'.used = spus.used \cup {s}
  PROVE  HandsExclusive' /\ BindingExact'
<1>1. \A u \in Thread : th'[u] = IF u = t THEN x ELSE th[u]
  BY DEF SchedInv, Shape
<1>2. \A u \in Thread : u # t => InHand(u)' = InHand(u)
  BY <1>1 DEF InHand
<1>3. InHand(t)' = {}
  BY <1>1 DEF InHand
<1>4. /\ s \in spus.used /\ spus.ctxOf[s] = NULL
      /\ \A u \in Thread \ {t} : s \notin InHand(u)
  <2>1. s \in InHand(t)
    BY DEF InHand
  <2> QED
    BY <2>1 DEF SchedInv, HandsExclusive
<1>5. /\ \A r \in Spu : spus'.ctxOf[r] = IF r = s THEN c ELSE spus.ctxOf[r]
      /\ \A d \in Ctx : spus'.spuOf[d] = IF d = c THEN s ELSE spus.spuOf[d]
  BY DEF SchedInv, Shape, SpusType
<1>6. HandsExclusive'
  <2> SUFFICES ASSUME NEW u \in Thread, NEW r \in InHand(u)'
               PROVE  /\ r \in spus'.used
                      /\ spus'.ctxOf[r] = NULL
                      /\ \A v \in Thread \ {u} : r \notin InHand(v)'
    BY DEF HandsExclusive
  <2>1. u # t /\ r \in InHand(u)
    BY <1>2, <1>3
  <2>2. /\ r \in spus.used /\ spus.ctxOf[r] = NULL /\ r # s
        /\ \A v \in Thread \ {u} : r \notin InHand(v)
    BY <1>4, <2>1 DEF SchedInv, HandsExclusive
  <2>3. r \in Spu
    BY <2>2 DEF SchedInv, Shape, SpusType
  <2> QED
    BY <1>2, <1>3, <1>5, <2>2, <2>3
<1>7. BindingExact'
  <2>1. ASSUME NEW d \in Ctx, spus'.spuOf[d] # NULL
        PROVE  spus'.ctxOf[spus'.spuOf[d]] = d
    <3>1. CASE d = c
      BY <1>5, <3>1
    <3>2. CASE d # c
      <4>1. spus'.spuOf[d] = spus.spuOf[d]
        BY <1>5, <3>2
      <4>2. spus.ctxOf[spus.spuOf[d]] = d /\ spus.spuOf[d] \in Spu
        BY <2>1, <4>1 DEF SchedInv, BindingExact, Shape, SpusType
      <4>3. spus.spuOf[d] # s
        BY <1>4, <4>2, Sorts
      <4> QED
        BY <1>5, <4>1, <4>2, <4>3
    <3> QED
      BY <3>1, <3>2
  <2>2. ASSUME NEW r \in Spu, spus'.ctxOf[r] # NULL
        PROVE  /\ r \in spus'.used
               /\ spus'.ctxOf[r] \notin NoSched => spus'.spuOf[spus'.ctxOf[r]] = r
    <3>1. CASE r = s
      BY <1>4, <1>5, <3>1
    <3>2. CASE r # s
      <4>1. spus'.ctxOf[r] = spus.ctxOf[r]
        BY <1>5, <3>2
      <4>2. r \in spus.used /\ spus.ctxOf[r] \in Ctx
        BY <2>2, <4>1 DEF SchedInv, BindingExact, Shape, SpusType
      <4>3. ASSUME spus.ctxOf[r] \notin NoSched
            PROVE  spus'.spuOf[spus.ctxOf[r]] = r
        <5>1. spus.spuOf[spus.ctxOf[r]] = r
          BY <2>2, <4>1, <4>3 DEF SchedInv, BindingExact
        <5>2. spus.ctxOf[r] # c
          BY <4>3, <5>1, Sorts
        <5> QED
          BY <1>5, <4>2, <5>1, <5>2
      <4> QED
        BY <4>1, <4>2, <4>3
    <3> QED
      BY <3>1, <3>2
  <2> QED
    BY <2>1, <2>2 DEF BindingExact
<1> QED
  BY <1>6, <1>7

-----------------------------------------------------------------------------
(* Steps that leave the SPUs, the queue and the contexts where they are.   *)

(* QueueExact speaks of the run queue as it is.                            *)
LEMMA QueueNow ==
  ASSUME SchedInv
  PROVE  /\ QueueOK(spu_prio) /\ QueuedIn(spu_prio) = Queued
         /\ spu_prio \in QueueType /\ info \in [Ctx -> InfoType]
BY DEF SchedInv, Shape, QueueExact, QueueOK, Queued, QueuedIn

(* QueueExact speaks of the run queue that a step leaves.                  *)
LEMMA QueueThen ==
  ASSUME NEW q, spu_prio' = q, info' = info, QueueOK(q)
  PROVE  QueueExact' /\ Queued' = QueuedIn(q)
<1>1. Queued' = QueuedIn(q)
  BY DEF Queued, QueuedIn, OnRq
<1> QED
  BY <1>1 DEF QueueExact, QueueOK

(* A time slice that nothing changes stays positive.                       *)
LEMMA SliceKept ==
  ASSUME SchedInv, spus'.time_slice = spus.time_slice,
         \A c \in Ctx : spus'.spuOf[c] \in {spus.spuOf[c], NULL}
  PROVE  SliceInv'
BY DEF SchedInv, SliceInv

(* A step that moves a thread and changes at most statistics, time slices  *)
(* and the state_mutex of a context preserves SchedInv.                    *)
LEMMA QuietStep ==
  ASSUME SchedInv, NEW t \in Thread, NEW x \in Locals(t), LocalsOf(t, x),
         th' = [th EXCEPT ![t] = x],
         x.pc \notin {"load", "handover"},
         spus' \in SpusType, spus'.ctxOf = spus.ctxOf,
         spus'.spuOf = spus.spuOf, spus'.used = spus.used, SliceInv',
         UNCHANGED <<spu_prio, info, spu_run>>, woken' \subseteq Thread,
         owner' \in [Ctx -> Thread \cup {NULL}],
         \A c \in Ctx : owner'[c] # owner[c] => owner[c] \in {NULL, t},
         x.pc \in Holding => owner'[x.ctx] = t,
         x.pc \in Activating /\ x.ctx \notin NoSched =>
           /\ spus.spuOf[x.ctx] = NULL
           /\ t \notin Ctx => x.ctx \in spu_run,
         t \in Ctx => (t \in spu_run <=> x.pc = "running")
  PROVE  SchedInv'
<1>1. HandsExclusive' /\ BindingExact'
  BY HandsNone
<1>2. PICK q : q = spu_prio
  OBVIOUS
<1>3. QueueExact' /\ Queued' = Queued
  BY <1>2, QueueNow, QueueThen
<1>4. \A c \in Queued' : c \notin NoSched => c \in spu_run'
  BY <1>3 DEF SchedInv, RunInv, Queued
<1>5. /\ spu_prio' \in QueueType /\ info' \in [Ctx -> InfoType]
      /\ spu_run' \subseteq Ctx
  BY DEF SchedInv, Shape
<1> QED
  BY <1>1, <1>3, <1>4, <1>5, Step

(* What is known of a thread in spu_activate().                            *)
LEMMA InActivate ==
  ASSUME SchedInv, NEW t \in Thread, th[t].pc \in Activating
  PROVE  /\ th[t] \in Locals(t) /\ t # spusched
         /\ th[t].ctx \in Ctx /\ owner[th[t].ctx] = t
         /\ t \in Ctx => th[t].ctx = t /\ t \notin spu_run
         /\ th[t].todo \in Seq(Node)
         /\ th[t].ctx \notin NoSched =>
              /\ spus.spuOf[th[t].ctx] = NULL
              /\ t \notin Ctx => th[t].ctx \in spu_run
<1>1. th[t] \in Locals(t)
  BY DEF SchedInv, Shape
<1>2. t # spusched /\ th[t].ctx \in Ctx /\ (t \in Ctx => th[t].ctx = t)
  BY Sorts DEF SchedInv, LocalsInv, LocalsOf, Activating, Holding
<1>3. owner[th[t].ctx] = t
  BY DEF SchedInv, OwnerInv, Holding
<1>4. t \in Ctx => t \notin spu_run
  BY DEF SchedInv, RunInv, Activating
<1>5. th[t].todo \in Seq(Node)
  BY <1>1, <1>2, Fields
<1> QED
  BY <1>1, <1>2, <1>3, <1>4, <1>5 DEF SchedInv, ActivateInv

(* The state has its shape.                                                *)
LEMMA ShapeNow ==
  ASSUME SchedInv
  PROVE  /\ spus \in SpusType /\ spu_run \subseteq Ctx /\ woken \subseteq Thread
         /\ owner \in [Ctx -> Thread \cup {NULL}] /\ DOMAIN th = Thread
         /\ spus.ctxOf \in [Spu -> Ctx \cup {NULL}] /\ spus.used \subseteq Spu
         /\ spus.spuOf \in [Ctx -> Spu \cup {NULL}]
         /\ spus.time_slice \in [Ctx -> Int]
         /\ \A t \in Thread : th[t] \in Locals(t) /\ LocalsOf(t, th[t])
BY DEF SchedInv, Shape, SpusType, LocalsInv

(* A thread goes on in spu_activate().                                     *)
LEMMA ActivateGoesOn ==
  ASSUME SchedInv, NEW t \in Thread, th[t].pc \in Activating,
         NEW x \in Locals(t), LocalsOf(t, x), x.ctx = th[t].ctx,
         x.pc \in Activating, x.pc # "load",
         th' = [th EXCEPT ![t] = x],
         SameBinding(spus, spus'),
         UNCHANGED <<spu_prio, info, spu_run, owner, woken>>
  PROVE  SchedInv'
<1>1. SliceInv'
  BY SliceKept DEF SameBinding
<1>2. /\ woken' \subseteq Thread /\ owner' \in [Ctx -> Thread \cup {NULL}]
  BY ShapeNow
<1>3. x.pc \notin {"load", "handover"} /\ x.pc # "running"
  BY DEF Activating
<1>4. /\ spus' \in SpusType /\ spus'.ctxOf = spus.ctxOf
      /\ spus'.spuOf = spus.spuOf /\ spus'.used = spus.used
  BY DEF SameBinding
<1>5. /\ x.pc \in Holding => owner'[x.ctx] = t
      /\ x.pc \in Activating /\ x.ctx \notin NoSched =>
           /\ spus.spuOf[x.ctx] = NULL
           /\ t \notin Ctx => x.ctx \in spu_run
      /\ t \in Ctx => (t \in spu_run <=> x.pc = "running")
      /\ \A c \in Ctx : owner'[c] # owner[c] => owner[c] \in {NULL, t}
  BY <1>3, InActivate
<1> QED
  BY <1>1, <1>2, <1>3, <1>4, <1>5, QuietStep

(* spu_activate() returns without the context being loaded or queued.      *)
LEMMA PreserveActivateSignalled ==
  ASSUME SchedInv, NEW t \in Ctx \cup Saver, ActivateSignalled(t)
  PROVE  SchedInv'
<1> DEFINE c == th[t].ctx
<1>1. t \in Thread /\ th[t].pc \in Activating
  BY Sorts DEF ActivateSignalled, Activating
<1>2. c \in Ctx /\ owner[c] = t /\ (t \in Ctx => t \notin spu_run)
  BY <1>1, InActivate
<1>3. owner' = [owner EXCEPT ![c] = NULL] /\ th' = [th EXCEPT ![t] = Idle]
      /\ UNCHANGED <<spus, spu_prio, info, spu_run, woken>>
  BY DEF ActivateSignalled, Interrupted, Rests
<1>4. SliceInv'
  BY <1>3, SliceKept
<1>5. Idle \in Locals(t) /\ Idle.pc = "idle" /\ LocalsOf(t, Idle)
  BY <1>1, IdleType
<1>6. owner' \in [Ctx -> Thread \cup {NULL}]
      /\ \A d \in Ctx : owner'[d] # owner[d] => owner[d] \in {NULL, t}
  BY <1>2, <1>3, ShapeNow
<1>7. "idle" \notin Holding /\ "idle" \notin Activating
  BY DEF Holding, Activating
<1>8. /\ spus' \in SpusType /\ spus'.ctxOf = spus.ctxOf
      /\ spus'.spuOf = spus.spuOf /\ spus'.used = spus.used
      /\ woken' \subseteq Thread
  BY <1>3, ShapeNow
<1>9. Idle.pc \notin {"load", "handover"} /\ Idle.pc # "running"
      /\ Idle.pc \notin Holding /\ Idle.pc \notin Activating
  BY <1>5, <1>7
<1> QED
  BY <1>1, <1>2, <1>3, <1>4, <1>5, <1>6, <1>8, <1>9, QuietStep

(* Locals of a thread in spu_activate() that looks for an SPU.             *)
LEMMA SearchLocal ==
  ASSUME NEW t \in Thread, t # spusched, NEW c \in Ctx, t \in Ctx => c = t,
         NEW pc \in {"scan", "victims", "queue", "activate"},
         NEW todo \in Seq(Node)
  PROVE  /\ Local(pc, c, NULL, NULL, todo) \in Locals(t)
         /\ LocalsOf(t, Local(pc, c, NULL, NULL, todo))
         /\ Local(pc, c, NULL, NULL, todo).pc = pc
         /\ Local(pc, c, NULL, NULL, todo).ctx = c
<1>1. PICK x : x = Local(pc, c, NULL, NULL, todo)
  OBVIOUS
<1>2. x \in Locals(t) /\ x.pc = pc /\ x.ctx = c
  BY <1>1 DEF Local, Locals
<1>3. LocalsOf(t, x)
  BY <1>2 DEF LocalsOf
<1> QED
  BY <1>1, <1>2, <1>3

(* Locals of a thread in spu_activate() that has an SPU.                   *)
LEMMA SpuLocal ==
  ASSUME NEW t \in Thread, t # spusched, NEW c \in Ctx, t \in Ctx => c = t,
         NEW pc \in {"location", "load"}, NEW s \in Spu
  PROVE  /\ Local(pc, c, s, NULL, <<>>) \in Locals(t)
         /\ LocalsOf(t, Local(pc, c, s, NULL, <<>>))
         /\ Local(pc, c, s, NULL, <<>>).pc = pc
         /\ Local(pc, c, s, NULL, <<>>).ctx = c
         /\ Local(pc, c, s, NULL, <<>>).spu = s
<1>1. PICK x : x = Local(pc, c, s, NULL, <<>>)
  OBVIOUS
<1>2. x \in Locals(t) /\ x.pc = pc /\ x.ctx = c /\ x.spu = s
  <2>1. <<>> \in Seq(Node)
    OBVIOUS
  <2> QED
    BY <1>1, <2>1 DEF Local, Locals
<1>3. LocalsOf(t, x)
  BY <1>2 DEF LocalsOf
<1> QED
  BY <1>1, <1>2, <1>3

(* What spu_activate() goes on with when no SPU is idle.                   *)
LEMMA NotFoundLocals ==
  ASSUME NEW t \in Thread, t # spusched, NEW c \in Ctx, t \in Ctx => c = t,
         NEW x \in NotFound(c)
  PROVE  /\ x \in Locals(t) /\ LocalsOf(t, x) /\ x.ctx = c
         /\ x.pc \in Activating /\ x.pc # "load"
<1>1. <<>> \in Seq(Node) /\ "victims" \in Activating /\ "queue" \in Activating
  BY DEF Activating
<1>2. CASE x \in VictimSearch(c)
  <2>1. PICK n \in Node : x = Local("victims", c, NULL, NULL, NodesFrom(c, n))
    BY <1>2 DEF VictimSearch
  <2>2. NodesFrom(c, n) \in Seq(Node)
    BY NodesFromType
  <2> QED
    BY <1>1, <2>1, <2>2, SearchLocal
<1>3. CASE x = Local("queue", c, NULL, NULL, <<>>)
  <2>1. PICK none \in Seq(Node) : none = <<>>
    BY <1>1
  <2>2. x = Local("queue", c, NULL, NULL, none)
    BY <1>3, <2>1
  <2> QED
    BY <1>1, <2>2, SearchLocal
<1> QED
  BY <1>2, <1>3 DEF NotFound

(* spu_get_idle() begins.                                                  *)
LEMMA PreserveGetIdle ==
  ASSUME SchedInv, NEW t \in Ctx \cup Saver, GetIdle(t)
  PROVE  SchedInv'
<1> DEFINE c == th[t].ctx
           g == GangOf[c]
           scan == {Local("scan", c, NULL, NULL, NodesFrom(c, n)) : n \in Node}
<1>1. t \in Thread /\ th[t].pc \in Activating
  BY Sorts DEF GetIdle, Activating
<1>2. c \in Ctx /\ t # spusched /\ (t \in Ctx => c = t)
  BY <1>1, InActivate
<1>3. UNCHANGED <<spu_prio, info, spu_run, owner, woken>>
  BY DEF GetIdle
<1>4. "scan" \in Activating /\ "location" \in Activating
  BY DEF Activating
<1>5. ASSUME NEW x \in scan
      PROVE  /\ x \in Locals(t) /\ LocalsOf(t, x) /\ x.ctx = c
             /\ x.pc \in Activating /\ x.pc # "load"
  <2>1. PICK n \in Node : x = Local("scan", c, NULL, NULL, NodesFrom(c, n))
    BY <1>5
  <2>2. NodesFrom(c, n) \in Seq(Node)
    BY NodesFromType
  <2> QED
    BY <1>1, <1>2, <1>4, <2>1, <2>2, SearchLocal
<1>6. CASE ~HasAffList(c)
  <2>1. Steps(t, scan) /\ UNCHANGED spus
    BY <1>6 DEF GetIdle
  <2>2. PICK x \in scan : th' = [th EXCEPT ![t] = x]
    BY <2>1 DEF Steps
  <2>3. SameBinding(spus, spus')
    BY <2>1, ShapeNow DEF SameBinding
  <2> QED
    BY <1>1, <1>3, <1>5, <2>2, <2>3, ActivateGoesOn
<1>7. CASE HasAffList(c)
  <2>1. PICK ref \in has_affinity(g) :
          /\ spus' = [spus EXCEPT
               !.aff_ref_spu[g] = ref,
               !.aff_sched_count[g] = IF ref = NULL THEN @ ELSE @ + 1]
          /\ Steps(t, IF ref = NULL THEN scan
                      ELSE {Local("location", c, ref, NULL, <<>>)})
    BY <1>7 DEF GetIdle
  <2>2. g \in Gang
    <3>1. g # NULL /\ g \in Gang \cup {NULL}
      BY <1>2, <1>7, CtxAssumption DEF HasAffList
    <3> QED
      BY <3>1
  <2>3. ref \in Spu \cup {NULL}
    BY <2>1, <2>2, AffinityType, ShapeNow
  <2>4. SameBinding(spus, spus')
    <3>1. PICK k \in Int : k = IF ref = NULL THEN spus.aff_sched_count[g]
                               ELSE spus.aff_sched_count[g] + 1
      BY <2>2, ShapeNow DEF SpusType
    <3>2. spus' = [spus EXCEPT !.aff_ref_spu[g] = ref, !.aff_sched_count[g] = k]
      BY <2>1, <3>1
    <3>3. [spus EXCEPT !.aff_ref_spu[g] = ref, !.aff_sched_count[g] = k] \in SpusType
      BY <2>3, <3>1, ShapeNow DEF SpusType
    <3> QED
      BY <3>2, <3>3, ShapeNow DEF SameBinding, SpusType
  <2>5. CASE ref = NULL
    <3>1. PICK x \in scan : th' = [th EXCEPT ![t] = x]
      BY <2>1, <2>5 DEF Steps
    <3> QED
      BY <1>1, <1>3, <1>5, <2>4, <3>1, ActivateGoesOn
  <2>6. CASE ref # NULL
    <3>1. PICK x : /\ x = Local("location", c, ref, NULL, <<>>)
                   /\ th' = [th EXCEPT ![t] = x]
      BY <2>1, <2>6 DEF Steps
    <3>2. ref \in Spu
      BY <2>3, <2>6
    <3>3. /\ x \in Locals(t) /\ LocalsOf(t, x) /\ x.ctx = c
          /\ x.pc \in Activating /\ x.pc # "load"
      BY <1>1, <1>2, <1>4, <3>1, <3>2, SpuLocal
    <3> QED
      BY <1>1, <1>3, <2>4, <3>1, <3>3, ActivateGoesOn
  <2> QED
    BY <2>5, <2>6
<1> QED
  BY <1>6, <1>7

(* spu_get_idle() takes SPU s for the caller.                              *)
LEMMA TakesStep ==
  ASSUME SchedInv, NEW t \in Thread, th[t].pc \in Activating,
         NEW s \in Spu, s \notin spus.used, Takes(t, s),
         UNCHANGED <<spu_prio, info, spu_run, owner, woken>>
  PROVE  SchedInv'
<1> DEFINE c == th[t].ctx
<1>1. /\ c \in Ctx /\ owner[c] = t /\ t # spusched
      /\ t \in Ctx => c = t /\ t \notin spu_run
      /\ c \notin NoSched => /\ spus.spuOf[c] = NULL
                             /\ t \notin Ctx => c \in spu_run
  BY InActivate
<1>2. PICK x : x = Local("load", c, s, NULL, <<>>) /\ th' = [th EXCEPT ![t] = x]
  BY DEF Takes, Steps
<1>3. /\ x \in Locals(t) /\ LocalsOf(t, x) /\ x.ctx = c /\ x.spu = s
      /\ x.pc = "load"
  BY <1>1, <1>2, SpuLocal
<1>4. /\ spus' \in SpusType /\ spus'.ctxOf = spus.ctxOf
      /\ spus'.spuOf = spus.spuOf /\ spus'.used = spus.used \cup {s}
      /\ spus'.time_slice = spus.time_slice
  <2>1. spus' = [spus EXCEPT !.used = @ \cup {s}]
    BY DEF Takes
  <2> QED
    BY <2>1, ShapeNow DEF SpusType
<1>5. HandsExclusive' /\ BindingExact'
  BY <1>2, <1>3, <1>4, HandsTake
<1>6. SliceInv'
  BY <1>4, SliceKept
<1>7. PICK q : q = spu_prio
  OBVIOUS
<1>8. QueueExact' /\ Queued' = Queued
  BY <1>7, QueueNow, QueueThen
<1>9. \A d \in Queued' : d \notin NoSched => d \in spu_run'
  BY <1>8 DEF SchedInv, RunInv, Queued
<1>10. /\ spu_prio' \in QueueType /\ info' \in [Ctx -> InfoType]
       /\ spu_run' \subseteq Ctx /\ woken' \subseteq Thread
       /\ owner' \in [Ctx -> Thread \cup {NULL}]
  BY ShapeNow, QueueNow
<1> QED
  BY <1>1, <1>2, <1>3, <1>4, <1>5, <1>6, <1>8, <1>9, <1>10, Step

(* spu_get_idle() looks at the SPU that the affinity asks for.             *)
LEMMA PreserveTakeLocation ==
  ASSUME SchedInv, NEW t \in Ctx \cup Saver, TakeLocation(t)
  PROVE  SchedInv'
<1> DEFINE c == th[t].ctx
<1>1. t \in Thread /\ th[t].pc \in Activating /\ th[t].pc = "location"
  BY Sorts DEF TakeLocation, Activating
<1>2. c \in Ctx /\ t # spusched /\ (t \in Ctx => c = t)
  BY <1>1, InActivate
<1>3. UNCHANGED <<spu_prio, info, spu_run, owner, woken>>
  BY DEF TakeLocation
<1>4. th[t].spu \in Spu
  BY <1>1, ShapeNow DEF LocalsOf
<1>5. PICK s \in Spu : s = ctx_location(th[t].spu, aff_offset(c))
  BY <1>4, CtxLocation
<1>6. CASE s \notin spus.used
  <2>1. Takes(t, s)
    BY <1>5, <1>6 DEF TakeLocation
  <2> QED
    BY <1>1, <1>3, <1>6, <2>1, TakesStep
<1>7. CASE s \in spus.used
  <2>1. /\ spus' = [spus EXCEPT !.aff_sched_count[GangOf[c]] = @ - 1]
        /\ Steps(t, NotFound(c))
    BY <1>5, <1>7 DEF TakeLocation
  <2>2. PICK x \in NotFound(c) : th' = [th EXCEPT ![t] = x]
    BY <2>1 DEF Steps
  <2>3. SameBinding(spus, spus')
    <3>1. PICK f : f = [spus.aff_sched_count EXCEPT ![GangOf[c]] = @ - 1]
      OBVIOUS
    <3>2. f \in [Gang -> Int]
      <4>1. spus.aff_sched_count \in [Gang -> Int]
        BY ShapeNow DEF SpusType
      <4>2. CASE GangOf[c] \in Gang
        BY <3>1, <4>1, <4>2
      <4>3. CASE GangOf[c] \notin Gang
        BY <3>1, <4>1, <4>3
      <4> QED
        BY <4>2, <4>3
    <3>3. spus' = [spus EXCEPT !.aff_sched_count = f]
      BY <2>1, <3>1
    <3>4. [spus EXCEPT !.aff_sched_count = f] \in SpusType
      BY <3>2, ShapeNow DEF SpusType
    <3> QED
      BY <3>3, <3>4, ShapeNow DEF SameBinding, SpusType
  <2>4. /\ x \in Locals(t) /\ LocalsOf(t, x) /\ x.ctx = c
        /\ x.pc \in Activating /\ x.pc # "load"
    BY <1>1, <1>2, NotFoundLocals
  <2> QED
    BY <1>1, <1>3, <2>2, <2>3, <2>4, ActivateGoesOn
<1> QED
  BY <1>6, <1>7

(* spu_get_idle() looks at the SPUs of a node.                             *)
LEMMA PreserveScanNode ==
  ASSUME SchedInv, NEW t \in Ctx \cup Saver, ScanNode(t)
  PROVE  SchedInv'
<1> DEFINE c == th[t].ctx
           todo == th[t].todo
           list == SpuList[Head(todo)]
           free == Range(list) \ spus.used
<1>1. t \in Thread /\ th[t].pc \in Activating /\ th[t].pc = "scan"
  BY Sorts DEF ScanNode, Activating
<1>2. c \in Ctx /\ t # spusched /\ (t \in Ctx => c = t) /\ todo \in Seq(Node)
  BY <1>1, InActivate
<1>3. UNCHANGED <<spu_prio, info, spu_run, owner, woken>>
  BY DEF ScanNode
<1>4. UNCHANGED spus => SameBinding(spus, spus')
  BY ShapeNow DEF SameBinding
<1>5. CASE todo # <<>> /\ free # {} /\ Takes(t, First(list, free))
  <2>1. Head(todo) \in Node
    BY <1>2, <1>5
  <2>2. list \in Seq(Spu) /\ Range(list) \cap free # {}
    BY <1>5, <2>1, SpuNodes
  <2>3. PICK s : s = First(list, free)
    OBVIOUS
  <2>4. s \in free /\ s \in Spu
    BY <2>2, <2>3, FirstFound
  <2>5. s \notin spus.used /\ Takes(t, s)
    BY <1>5, <2>3, <2>4
  <2> HIDE DEF free, list
  <2> QED
    BY <1>1, <1>3, <2>4, <2>5, TakesStep
<1>6. CASE /\ todo # <<>> /\ free = {}
           /\ th' = [th EXCEPT ![t].todo = NextAllowed(th[t].ctx, Tail(@))]
           /\ UNCHANGED spus
  <2>1. PICK rest : rest = NextAllowed(c, Tail(todo))
    OBVIOUS
  <2>2. rest \in Seq(Node)
    <3>1. Tail(todo) \in Seq(Node)
      BY <1>2, <1>6
    <3> QED
      BY <2>1, <3>1, NextAllowedType
  <2>3. PICK x : x = [th[t] EXCEPT !.todo = rest]
    OBVIOUS
  <2>4. th' = [th EXCEPT ![t] = x]
    BY <1>1, <1>6, <2>1, <2>3, ShapeNow
  <2>5. th[t] \in Locals(t) /\ LocalsOf(t, th[t])
    BY <1>1, ShapeNow
  <2>6. /\ x \in Locals(t) /\ x.pc = "scan" /\ x.ctx = c
        /\ x.spu = th[t].spu /\ x.new = th[t].new
    BY <1>1, <1>2, <2>2, <2>3, <2>5 DEF Locals
  <2>7. LocalsOf(t, x)
    BY <1>1, <2>5, <2>6 DEF LocalsOf
  <2>8. x.pc \in Activating /\ x.pc # "load"
    BY <2>6 DEF Activating
  <2> QED
    BY <1>1, <1>3, <1>4, <1>6, <2>4, <2>6, <2>7, <2>8, ActivateGoesOn
<1>7. CASE /\ todo = <<>> /\ Steps(t, NotFound(c)) /\ UNCHANGED spus
  <2>1. PICK x \in NotFound(c) : th' = [th EXCEPT ![t] = x]
    BY <1>7 DEF Steps
  <2>2. /\ x \in Locals(t) /\ LocalsOf(t, x) /\ x.ctx = c
        /\ x.pc \in Activating /\ x.pc # "load"
    BY <1>1, <1>2, NotFoundLocals
  <2> QED
    BY <1>1, <1>3, <1>4, <1>7, <2>1, <2>2, ActivateGoesOn
<1> QED
  BY <1>5, <1>6, <1>7 DEF ScanNode

(* find_victim() looks at the SPUs of a node.                              *)
LEMMA PreserveVictimNode ==
  ASSUME SchedInv, NEW t \in Ctx \cup Saver, VictimNode(t)
  PROVE  SchedInv'
<1> DEFINE c == th[t].ctx
           todo == th[t].todo
           list == SpuList[Head(todo)]
           fit == {s \in Range(list) :
                     spus.ctxOf[s] # NULL /\ Preemptible(c, spus.ctxOf[s])}
           worst == {s \in fit : \A r \in fit :
                       info[spus.ctxOf[s]].prio >= info[spus.ctxOf[r]].prio}
<1>1. t \in Thread /\ th[t].pc \in Activating /\ th[t].pc = "victims"
  BY Sorts DEF VictimNode, Activating
<1>2. c \in Ctx /\ t # spusched /\ (t \in Ctx => c = t) /\ todo \in Seq(Node)
  BY <1>1, InActivate
<1>3. UNCHANGED <<spu_prio, info, spu_run, owner, woken>> /\ UNCHANGED spus
  BY DEF VictimNode
<1>4. SameBinding(spus, spus')
  BY <1>3, ShapeNow DEF SameBinding
<1>5. th[t] \in Locals(t) /\ LocalsOf(t, th[t])
  BY <1>1, ShapeNow
<1>6. CASE /\ todo # <<>> /\ fit # {}
           /\ th' = [th EXCEPT ![t].pc = "trylock",
                               ![t].new = spus.ctxOf[First(list, worst)]]
  <2>1. Head(todo) \in Node
    BY <1>2, <1>6
  <2>2. list \in Seq(Spu) /\ Range(list) \subseteq Spu
    BY <2>1, SpuNodes
  <2>3. \A s \in fit : spus.ctxOf[s] \in Ctx
    BY <2>2, ShapeNow
  <2>4. Range(list) \cap worst # {}
    <3>1. PICK prios : prios = {info[spus.ctxOf[s]].prio : s \in fit}
      OBVIOUS
    <3>2. \A p \in prios : p \in Prio
      BY <2>3, <3>1, QueueNow DEF InfoType
    <3>3. prios # {}
      BY <1>6, <3>1
    <3>4. PICK low \in {MAX_PRIO - p : p \in prios} :
            \A z \in {MAX_PRIO - p : p \in prios} : low <= z
      <4>1. {MAX_PRIO - p : p \in prios} \subseteq Nat
        BY <3>2, PrioAssumption DEF Prio
      <4>2. {MAX_PRIO - p : p \in prios} # {}
        BY <3>3
      <4> QED
        BY <4>1, <4>2, MinNat
    <3>5. PICK top \in prios : low = MAX_PRIO - top
      OBVIOUS
    <3>6. \A p \in prios : top >= p
      BY <3>2, <3>4, <3>5, PrioAssumption DEF Prio
    <3>7. PICK s \in fit : info[spus.ctxOf[s]].prio = top
      BY <3>1, <3>5
    <3>8. s \in worst
      BY <3>1, <3>6, <3>7
    <3> QED
      BY <3>8
  <2>5. First(list, worst) \in worst
    <3> HIDE DEF list, worst
    <3> QED
      BY <2>2, <2>4, FirstFound
  <2>6. PICK d \in Ctx : d = spus.ctxOf[First(list, worst)]
    BY <2>3, <2>5
  <2>7. PICK x : x = [th[t] EXCEPT !.pc = "trylock", !.new = d]
    OBVIOUS
  <2> HIDE DEF list, worst, fit
  <2>8. th' = [th EXCEPT ![t] = x]
    BY <1>1, <1>6, <2>6, <2>7, ShapeNow
  <2>9. x \in Locals(t) /\ x.pc = "trylock" /\ x.ctx = c /\ x.new = d
    BY <1>5, <2>6, <2>7 DEF Locals
  <2>10. LocalsOf(t, x)
    BY <1>2, <2>6, <2>9 DEF LocalsOf
  <2>11. x.pc \in Activating /\ x.pc # "load"
    BY <2>9 DEF Activating
  <2> QED
    BY <1>1, <1>3, <1>4, <2>8, <2>9, <2>10, <2>11, ActivateGoesOn
<1>7. CASE /\ todo # <<>>
           /\ th' = [th EXCEPT ![t].todo = NextAllowed(c, Tail(@))]
  <2>1. PICK rest : rest = NextAllowed(c, Tail(todo))
    OBVIOUS
  <2>2. rest \in Seq(Node)
    <3>1. Tail(todo) \in Seq(Node)
      BY <1>2, <1>7
    <3> QED
      BY <2>1, <3>1, NextAllowedType
  <2>3. PICK x : x = [th[t] EXCEPT !.todo = rest]
    OBVIOUS
  <2>4. th' = [th EXCEPT ![t] = x]
    BY <1>1, <1>7, <2>1, <2>3, ShapeNow
  <2>5. /\ x \in Locals(t) /\ x.pc = "victims" /\ x.ctx = c
        /\ x.spu = th[t].spu /\ x.new = th[t].new
    BY <1>1, <1>2, <1>5, <2>2, <2>3 DEF Locals
  <2>6. LocalsOf(t, x)
    BY <1>1, <1>5, <2>5 DEF LocalsOf
  <2>7. x.pc \in Activating /\ x.pc # "load"
    BY <2>5 DEF Activating
  <2> QED
    BY <1>1, <1>3, <1>4, <2>4, <2>5, <2>6, <2>7, ActivateGoesOn
<1>8. CASE At(t, "queue")
  <2>1. PICK x : /\ x = Local("queue", c, NULL, NULL, <<>>)
                 /\ th' = [th EXCEPT ![t] = x]
    BY <1>8 DEF At
  <2>2. PICK none \in Seq(Node) : none = <<>>
    <3>1. <<>> \in Seq(Node)
      OBVIOUS
    <3> QED
      BY <3>1
  <2>3. x \in Locals(t) /\ LocalsOf(t, x) /\ x.pc = "queue" /\ x.ctx = c
    <3>1. x = Local("queue", c, NULL, NULL, none)
      BY <2>1, <2>2
    <3> QED
      BY <1>1, <1>2, <3>1, SearchLocal
  <2>4. x.pc \in Activating /\ x.pc # "load"
    BY <2>3 DEF Activating
  <2> QED
    BY <1>1, <1>3, <1>4, <2>1, <2>3, <2>4, ActivateGoesOn
<1> QED
  BY <1>6, <1>7, <1>8 DEF VictimNode

(* A context that loses its SPU is queued if its thread is in spu_run().   *)
LEMMA RequeueEffect ==
  ASSUME NEW q \in QueueType, QueueOK(q), NEW c \in Ctx,
         info \in [Ctx -> InfoType]
  PROVE  /\ Requeue(q, c) \in QueueType
         /\ QueueOK(Requeue(q, c))
         /\ QueuedIn(Requeue(q, c)) \subseteq QueuedIn(q) \cup ({c} \cap spu_run)
<1>1. CASE c \in spu_run
  BY <1>1, AddToRq DEF Requeue
<1>2. CASE c \notin spu_run
  BY <1>2 DEF Requeue
<1> QED
  BY <1>1, <1>2

(* find_victim() unloads the victim, or has lost it.                       *)
LEMMA PreserveTryVictim ==
  ASSUME SchedInv, NEW t \in Ctx \cup Saver, TryVictim(t)
  PROVE  SchedInv'
<1> DEFINE c == th[t].ctx
           d == th[t].new
<1>1. t \in Thread /\ th[t].pc \in Activating /\ th[t].pc = "trylock"
  BY Sorts DEF TryVictim, Activating
<1>2. /\ c \in Ctx /\ owner[c] = t /\ t # spusched
      /\ t \in Ctx => c = t /\ t \notin spu_run
      /\ c \notin NoSched => /\ spus.spuOf[c] = NULL
                             /\ t \notin Ctx => c \in spu_run
  BY <1>1, InActivate
<1>3. UNCHANGED <<info, spu_run, owner, woken>>
  BY DEF TryVictim
<1>4. d \in Ctx
  BY <1>1, ShapeNow DEF LocalsOf
<1>5. CASE VictimLost(c, d)
  <2>1. Steps(t, NotFound(c)) /\ UNCHANGED <<spus, spu_prio>>
    BY <1>5 DEF TryVictim
  <2>2. PICK x \in NotFound(c) : th' = [th EXCEPT ![t] = x]
    BY <2>1 DEF Steps
  <2>3. SameBinding(spus, spus')
    BY <2>1, ShapeNow DEF SameBinding
  <2>4. /\ x \in Locals(t) /\ LocalsOf(t, x) /\ x.ctx = c
        /\ x.pc \in Activating /\ x.pc # "load"
    BY <1>1, <1>2, NotFoundLocals
  <2> QED
    BY <1>1, <1>3, <2>1, <2>2, <2>3, <2>4, ActivateGoesOn
<1>6. CASE ~VictimLost(c, d)
  <2>1. PICK s \in Spu : s = spus.spuOf[d]
    BY <1>4, <1>6, ShapeNow DEF VictimLost
  <2>2. /\ spus' = Unload(spus, Head(th[t].todo), s, d)
        /\ spu_prio' = Requeue(spu_prio, d)
        /\ Steps(t, {Local("load", c, s, NULL, <<>>)})
    BY <1>6, <2>1 DEF TryVictim
  <2>3. PICK x : x = Local("load", c, s, NULL, <<>>) /\ th' = [th EXCEPT ![t] = x]
    BY <2>2 DEF Steps
  <2>4. /\ x \in Locals(t) /\ LocalsOf(t, x) /\ x.ctx = c /\ x.spu = s
        /\ x.pc = "load"
    BY <1>1, <1>2, <2>3, SpuLocal
  <2>5. Unloaded(spus, spus', s, d) /\ spus'.used = spus.used
    BY <1>4, <2>2, UnloadEffect, ShapeNow
  <2>6. HandsExclusive' /\ BindingExact'
    BY <1>1, <1>4, <2>1, <2>3, <2>4, <2>5, HandsUnload DEF Unloaded
  <2>7. /\ spus' \in SpusType
        /\ \A e \in Ctx : spus'.spuOf[e] \in {spus.spuOf[e], NULL}
        /\ spus'.time_slice = spus.time_slice
    BY <2>5, ShapeNow DEF Unloaded
  <2>8. SliceInv'
    BY <2>7, SliceKept
  <2>9. PICK q : q = Requeue(spu_prio, d)
    OBVIOUS
  <2>10. /\ q \in QueueType /\ QueueOK(q)
         /\ QueuedIn(q) \subseteq Queued \cup ({d} \cap spu_run)
    BY <1>4, <2>9, QueueNow, RequeueEffect
  <2>11. QueueExact' /\ Queued' = QueuedIn(q)
    BY <1>3, <2>2, <2>9, <2>10, QueueThen
  <2>12. \A e \in Queued' : e \notin NoSched => e \in spu_run'
    BY <1>3, <2>10, <2>11 DEF SchedInv, RunInv, Queued
  <2>13. /\ spu_prio' \in QueueType /\ info' \in [Ctx -> InfoType]
         /\ spu_run' \subseteq Ctx /\ woken' \subseteq Thread
         /\ owner' \in [Ctx -> Thread \cup {NULL}]
    BY <1>3, <2>2, <2>9, <2>10, ShapeNow, QueueNow
  <2>14. x.pc \in Activating /\ x.ctx \notin NoSched =>
           /\ spus'.spuOf[x.ctx] = NULL
           /\ t \notin Ctx => x.ctx \in spu_run'
    BY <1>2, <1>3, <2>4, <2>7
  <2>15. \A e \in Ctx : spus.spuOf[e] = NULL => spus'.spuOf[e] = NULL
    BY <2>7
  <2> QED
    BY <1>1, <1>2, <1>3, <2>3, <2>4, <2>6, <2>7, <2>8, <2>11, <2>12, <2>13,
       <2>14, <2>15, Step
<1> QED
  BY <1>5, <1>6

(* spu_activate() returns 0.                                               *)
LEMMA ActivatedStep ==
  ASSUME SchedInv, NEW t \in Ctx \cup Saver, th[t].pc \in Activating,
         Activated(t)
  PROVE  \E x \in Locals(t) :
           /\ LocalsOf(t, x) /\ th' = [th EXCEPT ![t] = x]
           /\ x.pc \in {"running", "idle"} /\ x.pc \notin Holding
           /\ t \in Ctx => x.pc = "running" /\ spu_run' = spu_run \cup {t}
           /\ t \notin Ctx => spu_run' = spu_run
           /\ owner' \in [Ctx -> Thread \cup {NULL}]
           /\ \A c \in Ctx : owner'[c] # owner[c] => owner[c] \in {NULL, t}
<1> DEFINE c == th[t].ctx
<1>1. t \in Thread /\ c \in Ctx /\ owner[c] = t /\ t # spusched
      /\ (t \in Ctx => c = t)
  BY Sorts, InActivate
<1>2. /\ owner' = [owner EXCEPT ![c] = NULL]
      /\ spu_run' = IF t = c THEN spu_run \cup {c} ELSE spu_run
      /\ IF t = c THEN At(t, "running") ELSE Rests(t)
  BY DEF Activated
<1>3. /\ owner' \in [Ctx -> Thread \cup {NULL}]
      /\ \A e \in Ctx : owner'[e] # owner[e] => owner[e] \in {NULL, t}
  BY <1>1, <1>2, ShapeNow
<1>4. CASE t \in Ctx
  <2>1. PICK x : /\ x = Local("running", c, NULL, NULL, <<>>)
                 /\ th' = [th EXCEPT ![t] = x]
    BY <1>1, <1>2, <1>4 DEF At
  <2>2. x \in Locals(t) /\ x.pc = "running" /\ x.ctx = c
    <3>1. <<>> \in Seq(Node)
      OBVIOUS
    <3> QED
      BY <1>1, <2>1, <3>1 DEF Local, Locals
  <2>3. LocalsOf(t, x)
    BY <1>1, <1>4, <2>2 DEF LocalsOf, Holding, Activating
  <2>4. x.pc \notin Holding
    BY <2>2 DEF Holding, Activating
  <2>5. spu_run' = spu_run \cup {t}
    BY <1>1, <1>2, <1>4
  <2> QED
    BY <1>3, <1>4, <2>1, <2>2, <2>3, <2>4, <2>5
<1>5. CASE t \notin Ctx
  <2>1. th' = [th EXCEPT ![t] = Idle] /\ spu_run' = spu_run
    BY <1>1, <1>2, <1>5 DEF Rests
  <2>2. Idle \in Locals(t) /\ Idle.pc = "idle" /\ LocalsOf(t, Idle)
    BY <1>1, IdleType
  <2>3. Idle.pc \notin Holding
    BY <2>2 DEF Holding, Activating
  <2> QED
    BY <1>3, <1>5, <2>1, <2>2, <2>3
<1> QED
  BY <1>4, <1>5

(* spu_activate() loads the context on the SPU it has.                     *)
LEMMA PreserveActivateLoad ==
  ASSUME SchedInv, NEW t \in Ctx \cup Saver, ActivateLoad(t)
  PROVE  SchedInv'
<1> DEFINE c == th[t].ctx
<1>1. t \in Thread /\ th[t].pc \in Activating /\ th[t].pc = "load"
  BY Sorts DEF ActivateLoad, Activating
<1>2. /\ c \in Ctx /\ owner[c] = t /\ t # spusched /\ (t \in Ctx => c = t)
      /\ c \notin NoSched => /\ spus.spuOf[c] = NULL
                             /\ t \notin Ctx => c \in spu_run
  BY <1>1, InActivate
<1>3. PICK s \in Spu : s = th[t].spu
  BY <1>1, ShapeNow DEF LocalsOf
<1>4. spus.ctxOf[s] = NULL
  BY <1>1, <1>3 DEF SchedInv, HandsExclusive, InHand
<1>5. /\ spus' = Load(spus, s, c) /\ spu_prio' = spu_prio
      /\ Activated(t) /\ UNCHANGED <<info, woken>>
  BY <1>3, <1>4 DEF ActivateLoad, LoadFails
<1>6. PICK x \in Locals(t) :
        /\ LocalsOf(t, x) /\ th' = [th EXCEPT ![t] = x]
        /\ x.pc \in {"running", "idle"} /\ x.pc \notin Holding
        /\ t \in Ctx => x.pc = "running" /\ spu_run' = spu_run \cup {t}
        /\ t \notin Ctx => spu_run' = spu_run
        /\ owner' \in [Ctx -> Thread \cup {NULL}]
        /\ \A e \in Ctx : owner'[e] # owner[e] => owner[e] \in {NULL, t}
  BY <1>1, <1>5, ActivatedStep
<1>7. /\ spus' \in SpusType
      /\ spus'.ctxOf = [spus.ctxOf EXCEPT ![s] = c]
      /\ spus'.spuOf = [spus.spuOf EXCEPT ![c] = s]
      /\ spus'.used = spus.used \cup {s}
      /\ spus'.time_slice[c] >= 1
      /\ \A d \in Ctx \ {c} : spus'.time_slice[d] = spus.time_slice[d]
  <2>1. LoadedOn(spus, spus', s, c)
    BY <1>2, <1>4, <1>5, LoadEffect, ShapeNow, QueueNow
  <2> QED
    BY <2>1 DEF LoadedOn
<1>8. x.pc \notin {"load", "handover"}
  BY <1>6
<1>9. HandsExclusive' /\ BindingExact'
  <2>1. /\ th[t].pc \in {"load", "handover"} /\ th[t].spu = s
        /\ c \notin NoSched => spus.spuOf[c] = NULL
        /\ th' = [th EXCEPT ![t] = x]
    BY <1>1, <1>2, <1>3, <1>6
  <2>2. /\ spus'.ctxOf = [spus.ctxOf EXCEPT ![s] = c]
        /\ spus'.spuOf = [spus.spuOf EXCEPT ![c] = s]
        /\ spus'.used = spus.used \cup {s} /\ c \in Ctx
    BY <1>2, <1>7
  <2> HIDE DEF c
  <2> QED
    BY <1>1, <1>8, <2>1, <2>2, HandsLoad
<1>10. \A e \in Ctx : e # c => spus'.spuOf[e] = spus.spuOf[e]
  BY <1>7, ShapeNow
<1>11. SliceInv'
  BY <1>7, <1>10 DEF SchedInv, SliceInv
<1>12. PICK q : q = spu_prio
  OBVIOUS
<1>13. QueueExact' /\ Queued' = Queued
  BY <1>5, <1>12, QueueNow, QueueThen
<1>14. \A e \in Queued' : e \notin NoSched => e \in spu_run'
  BY <1>6, <1>13 DEF SchedInv, RunInv, Queued
<1>15. /\ spu_prio' \in QueueType /\ info' \in [Ctx -> InfoType]
       /\ spu_run' \subseteq Ctx /\ woken' \subseteq Thread
  BY <1>5, <1>6, ShapeNow, QueueNow
<1>16. \A e \in Ctx : owner[e] \notin {NULL, t} =>
         /\ spus.spuOf[e] = NULL => spus'.spuOf[e] = NULL
         /\ e \in spu_run => e \in spu_run'
  BY <1>2, <1>6, <1>10
<1>17. /\ x.pc \notin Activating
       /\ \A e \in Ctx \ {t} : e \in spu_run' <=> e \in spu_run
       /\ t \in Ctx => (t \in spu_run' <=> x.pc = "running")
  BY <1>6 DEF Holding
<1> QED
  BY <1>1, <1>6, <1>7, <1>9, <1>11, <1>13, <1>14, <1>15, <1>16, <1>17, Step

(* spu_activate() queues the context.                                      *)
LEMMA PreserveActivateQueue ==
  ASSUME SchedInv, NEW t \in Ctx \cup Saver, ActivateQueue(t)
  PROVE  SchedInv'
<1> DEFINE c == th[t].ctx
<1>1. t \in Thread /\ th[t].pc \in Activating
  BY Sorts DEF ActivateQueue, Activating
<1>2. /\ c \in Ctx /\ owner[c] = t /\ (t \in Ctx => c = t)
      /\ c \notin NoSched => (t \notin Ctx => c \in spu_run)
  BY <1>1, InActivate
<1>3. /\ c \notin NoSched /\ spu_prio' = __spu_add_to_rq(spu_prio, c)
      /\ Activated(t) /\ UNCHANGED <<spus, info, woken>>
  BY DEF ActivateQueue
<1>4. PICK x \in Locals(t) :
        /\ LocalsOf(t, x) /\ th' = [th EXCEPT ![t] = x]
        /\ x.pc \in {"running", "idle"} /\ x.pc \notin Holding
        /\ t \in Ctx => x.pc = "running" /\ spu_run' = spu_run \cup {t}
        /\ t \notin Ctx => spu_run' = spu_run
        /\ owner' \in [Ctx -> Thread \cup {NULL}]
        /\ \A e \in Ctx : owner'[e] # owner[e] => owner[e] \in {NULL, t}
  BY <1>1, <1>3, ActivatedStep
<1>5. x.pc \notin {"load", "handover"}
  BY <1>4
<1>6. HandsExclusive' /\ BindingExact'
  BY <1>1, <1>3, <1>4, <1>5, HandsNone
<1>7. SliceInv'
  BY <1>3, SliceKept
<1>8. PICK q : q = __spu_add_to_rq(spu_prio, c)
  OBVIOUS
<1>9. q \in QueueType /\ QueueOK(q) /\ QueuedIn(q) = Queued \cup {c}
  BY <1>2, <1>8, QueueNow, AddToRq
<1>10. QueueExact' /\ Queued' = QueuedIn(q)
  BY <1>3, <1>8, <1>9, QueueThen
<1>11. \A e \in Queued' : e \notin NoSched => e \in spu_run'
  BY <1>2, <1>3, <1>4, <1>9, <1>10 DEF SchedInv, RunInv, Queued
<1>12. /\ spu_prio' \in QueueType /\ info' \in [Ctx -> InfoType]
       /\ spu_run' \subseteq Ctx /\ woken' \subseteq Thread /\ spus' \in SpusType
  BY <1>3, <1>4, <1>8, <1>9, ShapeNow, QueueNow
<1>13. /\ x.pc \notin Activating
       /\ \A e \in Ctx \ {t} : e \in spu_run' <=> e \in spu_run
       /\ \A e \in Ctx : /\ e \in spu_run => e \in spu_run'
                         /\ spus.spuOf[e] = NULL => spus'.spuOf[e] = NULL
       /\ t \in Ctx => (t \in spu_run' <=> x.pc = "running")
  BY <1>3, <1>4 DEF Holding
<1> QED
  BY <1>1, <1>4, <1>6, <1>7, <1>10, <1>11, <1>12, <1>13, Step

(* spu_prio_wait() queues the context and goes to sleep, or sees a signal. *)
LEMMA PreservePrioWait ==
  ASSUME SchedInv, NEW t \in Ctx \cup Saver, PrioWait(t)
  PROVE  SchedInv'
<1> DEFINE c == th[t].ctx
<1>1. t \in Thread /\ th[t].pc \in Activating
  BY Sorts DEF PrioWait, Activating
<1>2. /\ c \in Ctx /\ owner[c] = t /\ t # spusched
      /\ t \in Ctx => c = t /\ t \notin spu_run
  BY <1>1, InActivate
<1>3. c \in NoSched /\ UNCHANGED <<spus, info, woken>>
  BY DEF PrioWait
<1>4. ASSUME owner' = [owner EXCEPT ![c] = NULL]
      PROVE  /\ owner' \in [Ctx -> Thread \cup {NULL}]
             /\ \A e \in Ctx : owner'[e] # owner[e] => owner[e] \in {NULL, t}
  BY <1>2, <1>4, ShapeNow
<1>5. SliceInv'
  BY <1>3, SliceKept
<1>6. spus' \in SpusType /\ woken' \subseteq Thread /\ info' \in [Ctx -> InfoType]
  BY <1>3, ShapeNow, QueueNow
<1>7. CASE Interrupted(t) /\ UNCHANGED spu_prio
  <2>1. /\ owner' = [owner EXCEPT ![c] = NULL] /\ th' = [th EXCEPT ![t] = Idle]
        /\ UNCHANGED spu_run
    BY <1>7 DEF Interrupted, Rests
  <2>2. Idle \in Locals(t) /\ Idle.pc = "idle" /\ LocalsOf(t, Idle)
    BY <1>1, IdleType
  <2>3. Idle.pc \notin {"load", "handover"} /\ Idle.pc # "running"
        /\ Idle.pc \notin Holding /\ Idle.pc \notin Activating
    BY <2>2 DEF Holding, Activating
  <2> QED
    BY <1>1, <1>2, <1>3, <1>4, <1>5, <1>6, <1>7, <2>1, <2>2, <2>3, QuietStep
<1>8. CASE /\ spu_prio' = __spu_add_to_rq(spu_prio, c)
           /\ owner' = [owner EXCEPT ![c] = NULL]
           /\ At(t, "wait")
           /\ UNCHANGED spu_run
  <2>1. PICK x : /\ x = Local("wait", c, NULL, NULL, <<>>)
                 /\ th' = [th EXCEPT ![t] = x]
    BY <1>8 DEF At
  <2>2. x \in Locals(t) /\ x.pc = "wait" /\ x.ctx = c
    <3>1. <<>> \in Seq(Node)
      OBVIOUS
    <3> QED
      BY <1>2, <2>1, <3>1 DEF Local, Locals
  <2>3. LocalsOf(t, x) /\ x.pc \notin Holding /\ x.pc \notin Activating
    BY <1>2, <1>3, <2>2 DEF LocalsOf, Holding, Activating
  <2>4. x.pc \notin {"load", "handover"} /\ x.pc # "running"
    BY <2>2
  <2>5. HandsExclusive' /\ BindingExact'
    BY <1>1, <1>3, <2>1, <2>4, HandsNone
  <2>6. PICK q : q = __spu_add_to_rq(spu_prio, c)
    OBVIOUS
  <2>7. q \in QueueType /\ QueueOK(q) /\ QueuedIn(q) = Queued \cup {c}
    BY <1>2, <2>6, QueueNow, AddToRq
  <2>8. QueueExact' /\ Queued' = QueuedIn(q)
    BY <1>3, <1>8, <2>6, <2>7, QueueThen
  <2>9. \A e \in Queued' : e \notin NoSched => e \in spu_run'
    BY <1>3, <1>8, <2>7, <2>8 DEF SchedInv, RunInv, Queued
  <2>10. spu_prio' \in QueueType /\ spu_run' \subseteq Ctx
    BY <1>8, <2>6, <2>7, ShapeNow
  <2> QED
    BY <1>1, <1>2, <1>3, <1>4, <1>5, <1>6, <1>8, <2>1, <2>2, <2>3, <2>4, <2>5,
       <2>8, <2>9, <2>10, Step
<1> QED
  BY <1>7, <1>8 DEF PrioWait

(* spu_prio_wait() takes the context off the queue and locks it again.     *)
LEMMA PreserveRelock ==
  ASSUME SchedInv, NEW t \in Ctx \cup Saver, Relock(t)
  PROVE  SchedInv'
<1> DEFINE c == th[t].ctx
<1>1. t \in Thread /\ th[t].pc = "wait" /\ t # spusched
  BY Sorts DEF Relock
<1>2. c \in Ctx /\ c \in NoSched /\ (t \in Ctx => c = t)
  BY <1>1, ShapeNow, Sorts DEF LocalsOf
<1>3. /\ owner[c] = NULL /\ spu_prio' = __spu_del_from_rq(spu_prio, c)
      /\ woken' = woken \ {t} /\ UNCHANGED <<spus, info, spu_run>>
  BY DEF Relock
<1>4. t \in Ctx => t \notin spu_run
  BY <1>1 DEF SchedInv, RunInv
<1>5. SliceInv'
  BY <1>3, SliceKept
<1>6. PICK q : q = __spu_del_from_rq(spu_prio, c)
  OBVIOUS
<1>7. q \in QueueType /\ QueueOK(q) /\ QueuedIn(q) = Queued \ {c}
  BY <1>2, <1>6, QueueNow, DelFromRq
<1>8. QueueExact' /\ Queued' = QueuedIn(q)
  BY <1>3, <1>6, <1>7, QueueThen
<1>9. \A e \in Queued' : e \notin NoSched => e \in spu_run'
  BY <1>3, <1>7, <1>8 DEF SchedInv, RunInv, Queued
<1>10. /\ spus' \in SpusType /\ woken' \subseteq Thread
       /\ info' \in [Ctx -> InfoType] /\ spu_prio' \in QueueType
       /\ spu_run' \subseteq Ctx
  BY <1>3, <1>6, <1>7, ShapeNow, QueueNow
<1>11. CASE owner' = [owner EXCEPT ![c] = t] /\ At(t, "activate")
  <2>1. PICK x : /\ x = Local("activate", c, NULL, NULL, <<>>)
                 /\ th' = [th EXCEPT ![t] = x]
    BY <1>11 DEF At
  <2>2. PICK none \in Seq(Node) : none = <<>>
    <3>1. <<>> \in Seq(Node)
      OBVIOUS
    <3> QED
      BY <3>1
  <2>3. x \in Locals(t) /\ LocalsOf(t, x) /\ x.pc = "activate" /\ x.ctx = c
    <3>1. x = Local("activate", c, NULL, NULL, none)
      BY <2>1, <2>2
    <3> QED
      BY <1>1, <1>2, <3>1, SearchLocal
  <2>4. x.pc \notin {"load", "handover"} /\ x.pc # "running"
    BY <2>3
  <2>5. HandsExclusive' /\ BindingExact'
    BY <1>1, <1>3, <2>1, <2>4, HandsNone
  <2>6. /\ owner' \in [Ctx -> Thread \cup {NULL}] /\ owner'[c] = t
        /\ \A e \in Ctx : owner'[e] # owner[e] => owner[e] \in {NULL, t}
    BY <1>1, <1>2, <1>3, <1>11, ShapeNow
  <2> QED
    BY <1>1, <1>2, <1>3, <1>4, <1>5, <1>8, <1>9, <1>10, <2>1, <2>3, <2>4, <2>5,
       <2>6, Step
<1>12. CASE Rests(t) /\ UNCHANGED owner
  <2>1. th' = [th EXCEPT ![t] = Idle]
    BY <1>12 DEF Rests
  <2>2. Idle \in Locals(t) /\ Idle.pc = "idle" /\ LocalsOf(t, Idle)
    BY <1>1, IdleType
  <2>3. Idle.pc \notin {"load", "handover"} /\ Idle.pc # "running"
        /\ Idle.pc \notin Holding /\ Idle.pc \notin Activating
    BY <2>2 DEF Holding, Activating
  <2>4. HandsExclusive' /\ BindingExact'
    BY <1>1, <1>3, <2>1, <2>3, HandsNone
  <2>5. owner' \in [Ctx -> Thread \cup {NULL}]
    BY <1>12, ShapeNow
  <2> QED
    BY <1>1, <1>3, <1>4, <1>5, <1>8, <1>9, <1>10, <1>12, <2>1, <2>2, <2>3, <2>4,
       <2>5, Step
<1> QED
  BY <1>11, <1>12 DEF Relock

-----------------------------------------------------------------------------
(* spu_deactivate(), spu_yield() and spu_schedule().                       *)

(* The threads that a wake-up reaches are threads.                         *)
LEMMA WakesType ==
  ASSUME NEW c, NEW new, Wakes(c, new), woken \subseteq Thread
  PROVE  woken' \subseteq Thread
BY DEF Wakes, Waiters

(* __spu_deactivate() of a context whose state_mutex the caller has taken. *)
LEMMA DeactivateStep ==
  ASSUME SchedInv, NEW t \in Thread, t # spusched, NEW c \in Ctx,
         owner[c] = NULL,
         t \in Ctx => c = t /\ t \notin spu_run,
         NEW force, NEW end \in Locals(t), LocalsOf(t, end),
         end.pc \notin {"load", "handover", "running"},
         end.pc \notin Activating, NEW own \in {NULL, t},
         end.pc \in Holding => own = t /\ end.ctx = c,
         __spu_deactivate(t, c, force, end, own),
         UNCHANGED <<info, spu_run>>
  PROVE  SchedInv'
<1>1. PICK s : s = spus.spuOf[c]
  OBVIOUS
<1>2. s \in Spu \cup {NULL}
  BY <1>1, ShapeNow
<1>3. PICK new : new = IF s = NULL THEN NULL
                 ELSE grab_runnable_context(spu_prio, MAX_PRIO, NodeOf(s))
  OBVIOUS
<1>4. new \in Queued \cup {NULL} /\ new \in Ctx \cup {NULL}
  <2>1. MAX_PRIO \in Int /\ MAX_PRIO <= MAX_PRIO
    BY PrioAssumption
  <2>2. grab_runnable_context(spu_prio, MAX_PRIO, NodeOf(s))
          \in QueuedIn(spu_prio) \cup {NULL}
    BY <2>1, QueueNow, Grabbed
  <2> QED
    BY <1>3, <2>2, QueueNow DEF Queued
<1>5. ASSUME NEW v \in {NULL, t}, owner' = [owner EXCEPT ![c] = v]
      PROVE  /\ owner' \in [Ctx -> Thread \cup {NULL}] /\ owner'[c] = v
             /\ \A e \in Ctx : owner'[e] # owner[e] => owner[e] \in {NULL, t}
  BY <1>5, ShapeNow
<1>6. CASE /\ owner' = [owner EXCEPT ![c] = own]
           /\ th' = [th EXCEPT ![t] = end]
           /\ UNCHANGED <<spus, spu_prio, woken>>
  <2>1. SliceInv'
    BY <1>6, SliceKept
  <2>2. /\ spus' \in SpusType /\ woken' \subseteq Thread
        /\ spus'.ctxOf = spus.ctxOf /\ spus'.spuOf = spus.spuOf
        /\ spus'.used = spus.used
    BY <1>6, ShapeNow
  <2>3. end.pc \notin {"load", "handover"} /\ end.pc # "running"
    OBVIOUS
  <2>4. /\ owner' \in [Ctx -> Thread \cup {NULL}] /\ owner'[c] = own
        /\ \A e \in Ctx : owner'[e] # owner[e] => owner[e] \in {NULL, t}
    BY <1>5, <1>6
  <2>5. end.pc \in Holding => owner'[end.ctx] = t
    BY <2>4
  <2> QED
    BY <1>6, <2>1, <2>2, <2>3, <2>4, <2>5, QuietStep
<1>7. ASSUME s # NULL,
             spus' = spu_unschedule(spus, s, c, new = NULL),
             spu_prio' = __spu_del_from_rq(spu_prio, new),
             woken' \subseteq Thread,
             NEW x \in Locals(t), LocalsOf(t, x), th' = [th EXCEPT ![t] = x],
             x.pc \notin Activating, x.pc # "running",
             x.pc = "handover" => x.spu = s /\ new # NULL,
             NEW v \in {NULL, t}, owner' = [owner EXCEPT ![c] = v],
             x.pc \in Holding => v = t /\ x.ctx = c
      PROVE  SchedInv'
  <2>1. s \in Spu
    BY <1>2, <1>7
  <2>2. PICK free \in BOOLEAN : free <=> new = NULL
    OBVIOUS
  <2>3. /\ Unloaded(spus, spus', s, c)
        /\ spus'.used = IF new = NULL THEN spus.used \ {s} ELSE spus.used
    <3>1. spus' = spu_unschedule(spus, s, c, free)
      BY <1>7, <2>2
    <3>2. spus \in SpusType
      BY ShapeNow
    <3>3. Unscheduled(spus, spu_unschedule(spus, s, c, free), s, c, free)
      BY <2>1, <3>2, UnscheduleEffect
    <3> QED
      BY <2>2, <3>1, <3>3 DEF Unscheduled
  <2>4. x.pc # "load"
    BY <1>7 DEF Activating
  <2>5. x.pc \in {"load", "handover"} => x.spu = s /\ spus'.used = spus.used
    BY <1>7, <2>3, <2>4
  <2>6. HandsExclusive' /\ BindingExact'
    BY <1>1, <1>7, <2>1, <2>3, <2>5, HandsUnload DEF Unloaded
  <2>7. /\ spus' \in SpusType
        /\ \A e \in Ctx : spus'.spuOf[e] \in {spus.spuOf[e], NULL}
        /\ spus'.time_slice = spus.time_slice
    BY <2>3, ShapeNow DEF Unloaded
  <2>8. SliceInv'
    BY <2>7, SliceKept
  <2>9. PICK q : q = __spu_del_from_rq(spu_prio, new)
    OBVIOUS
  <2>10. q \in QueueType /\ QueueOK(q) /\ QueuedIn(q) = Queued \ {new}
    BY <1>4, <2>9, QueueNow, DelFromRq
  <2>11. QueueExact' /\ Queued' = QueuedIn(q)
    BY <1>7, <2>9, <2>10, QueueThen
  <2>12. \A e \in Queued' : e \notin NoSched => e \in spu_run'
    BY <2>10, <2>11 DEF SchedInv, RunInv, Queued
  <2>13. /\ spu_prio' \in QueueType /\ info' \in [Ctx -> InfoType]
         /\ spu_run' \subseteq Ctx
    BY <1>7, <2>9, <2>10, ShapeNow, QueueNow
  <2>14. /\ owner' \in [Ctx -> Thread \cup {NULL}] /\ owner'[c] = v
         /\ \A e \in Ctx : owner'[e] # owner[e] => owner[e] \in {NULL, t}
    BY <1>5, <1>7
  <2>15. x.pc \in Holding => owner'[x.ctx] = t
    BY <1>7, <2>14
  <2>16. \A e \in Ctx : /\ spus.spuOf[e] = NULL => spus'.spuOf[e] = NULL
                        /\ e \in spu_run => e \in spu_run'
    BY <2>7
  <2>17. t \in Ctx => (t \in spu_run' <=> x.pc = "running")
    BY <1>7
  <2>18. \A e \in Ctx \ {t} : e \in spu_run' <=> e \in spu_run
    OBVIOUS
  <2> QED
    BY <1>7, <2>6, <2>7, <2>8, <2>11, <2>12, <2>13, <2>14, <2>15, <2>16, <2>17,
       <2>18, Step
<1>8. CASE /\ s # NULL
           /\ spus' = spu_unschedule(spus, s, c, new = NULL)
           /\ spu_prio' = __spu_del_from_rq(spu_prio, new)
           /\ Wakes(c, new)
           /\ owner' = [owner EXCEPT ![c] = own]
           /\ th' = [th EXCEPT ![t] = end]
  <2>1. woken' \subseteq Thread
    BY <1>8, WakesType, ShapeNow
  <2>2. end.pc # "handover" /\ end.pc # "running"
    OBVIOUS
  <2> QED
    BY <1>7, <1>8, <2>1, <2>2
<1>9. CASE /\ s # NULL
           /\ spus' = spu_unschedule(spus, s, c, new = NULL)
           /\ spu_prio' = __spu_del_from_rq(spu_prio, new)
           /\ Wakes(c, new)
           /\ new \notin NoSched \cup {NULL}
           /\ owner' = [owner EXCEPT ![c] = NULL]
           /\ th' = [th EXCEPT ![t] = Local("handover", c, s, new, <<>>)]
  <2>1. woken' \subseteq Thread
    BY <1>9, WakesType, ShapeNow
  <2>2. s \in Spu /\ new \in Ctx
    BY <1>2, <1>4, <1>9
  <2>3. PICK x : x = Local("handover", c, s, new, <<>>)
    OBVIOUS
  <2>4. /\ x \in Locals(t) /\ x.pc = "handover" /\ x.ctx = c /\ x.spu = s
        /\ x.new = new
    <3>1. <<>> \in Seq(Node)
      OBVIOUS
    <3> QED
      BY <2>2, <2>3, <3>1 DEF Local, Locals
  <2>5. x.pc \notin Activating /\ x.pc \notin Holding /\ x.pc # "running"
    BY <2>4 DEF Activating, Holding
  <2>6. LocalsOf(t, x)
    BY <2>2, <2>4, <2>5 DEF LocalsOf
  <2>7. th' = [th EXCEPT ![t] = x] /\ new # NULL
    BY <1>9, <2>3
  <2> QED
    BY <1>7, <1>9, <2>1, <2>4, <2>5, <2>6, <2>7
<1> QED
  BY <1>1, <1>3, <1>6, <1>8, <1>9 DEF __spu_deactivate, Steps

(* spu_yield().                                                            *)
LEMMA PreserveYield ==
  ASSUME SchedInv, NEW t \in Ctx, spu_yield(t)
  PROVE  SchedInv'
<1>1. t \in Thread /\ t # spusched /\ th[t].pc = "yield" /\ owner[t] = NULL
  BY Sorts DEF spu_yield
<1>2. t \notin spu_run
  BY <1>1 DEF SchedInv, RunInv
<1>3. Idle \in Locals(t) /\ Idle.pc = "idle" /\ LocalsOf(t, Idle)
  BY <1>1, IdleType
<1>4. /\ Idle.pc \notin {"load", "handover", "running"}
      /\ Idle.pc \notin Holding /\ Idle.pc \notin Activating
  BY <1>3 DEF Holding, Activating
<1>5. __spu_deactivate(t, t, FALSE, Idle, NULL) /\ UNCHANGED <<info, spu_run>>
  BY DEF spu_yield
<1> QED
  BY <1>1, <1>2, <1>3, <1>4, <1>5, DeactivateStep

(* spu_acquire_saved() unloads a context.                                  *)
LEMMA PreserveSaveBegins ==
  ASSUME SchedInv, NEW t \in Saver, NEW c \in Saved, SaveBegins(t, c)
  PROVE  SchedInv'
<1>1. t \in Thread /\ t # spusched /\ t \notin Ctx /\ c \in Ctx /\ owner[c] = NULL
  BY Sorts DEF SaveBegins
<1>2. PICK end : end = Local("saved", c, NULL, NULL, <<>>)
  OBVIOUS
<1>3. end \in Locals(t) /\ end.pc = "saved" /\ end.ctx = c
  <2>1. <<>> \in Seq(Node)
    OBVIOUS
  <2> QED
    BY <1>1, <1>2, <2>1 DEF Local, Locals
<1>4. /\ end.pc \notin {"load", "handover", "running"}
      /\ end.pc \notin Activating
  BY <1>3 DEF Activating
<1>5. LocalsOf(t, end)
  BY <1>1, <1>3 DEF LocalsOf
<1>6. __spu_deactivate(t, c, TRUE, end, t) /\ UNCHANGED <<info, spu_run>>
  BY <1>2 DEF SaveBegins
<1> QED
  BY <1>1, <1>3, <1>4, <1>5, <1>6, DeactivateStep

(* Where spu_schedule() returns to.                                        *)
LEMMA HandoverReturns ==
  ASSUME SchedInv, NEW t \in Thread, spu_schedule(t)
  PROVE  \E x \in Locals(t) :
           /\ LocalsOf(t, x) /\ th' = [th EXCEPT ![t] = x]
           /\ x.pc \in {"walk", "retake", "idle"}
<1>1. th[t].pc = "handover" /\ th[t] \in Locals(t) /\ LocalsOf(t, th[t])
  BY ShapeNow DEF spu_schedule
<1>2. PICK x :
        /\ x = IF t = spusched
               THEN Local("walk", NULL, NULL, NULL, th[t].todo)
               ELSE IF t \in Saver
               THEN Local("retake", th[t].ctx, NULL, NULL, <<>>)
               ELSE Idle
        /\ th' = [th EXCEPT ![t] = x]
  BY DEF spu_schedule, Steps
<1>3. CASE t = spusched
  <2>1. PICK todo \in Seq(Seq(Spu)) : todo = th[t].todo
    BY <1>1, <1>3, Fields
  <2>2. x = Local("walk", NULL, NULL, NULL, todo)
    BY <1>2, <1>3, <2>1
  <2>3. x \in Locals(t) /\ x.pc = "walk" /\ x.ctx = NULL
    BY <1>3, <2>2 DEF Local, Locals
  <2>4. LocalsOf(t, x)
    BY <1>3, <2>3, Sorts DEF LocalsOf, Holding, Activating
  <2> QED
    BY <1>2, <2>3, <2>4
<1>4. CASE t # spusched /\ t \in Saver
  <2>1. PICK c \in Ctx : c = th[t].ctx
    BY <1>1, <1>4 DEF LocalsOf
  <2>2. x = Local("retake", c, NULL, NULL, <<>>)
    BY <1>2, <1>4, <2>1
  <2>3. x \in Locals(t) /\ x.pc = "retake" /\ x.ctx = c
    <3>1. <<>> \in Seq(Node)
      OBVIOUS
    <3> QED
      BY <1>4, <2>2, <3>1 DEF Local, Locals
  <2>4. LocalsOf(t, x)
    BY <1>4, <2>3, Sorts DEF LocalsOf, Holding, Activating
  <2> QED
    BY <1>2, <2>3, <2>4
<1>5. CASE t # spusched /\ t \notin Saver
  <2>1. x = Idle
    BY <1>2, <1>5
  <2> QED
    BY <1>2, <2>1, IdleType
<1> QED
  BY <1>3, <1>4, <1>5

(* spu_schedule() loads the context that was grabbed, or gives up.         *)
LEMMA PreserveSchedule ==
  ASSUME SchedInv, NEW t \in Thread, spu_schedule(t)
  PROVE  SchedInv'
<1>1. th[t].pc = "handover" /\ LocalsOf(t, th[t])
  BY ShapeNow DEF spu_schedule
<1>2. PICK s \in Spu : s = th[t].spu
  BY <1>1 DEF LocalsOf
<1>3. PICK d \in Ctx : d = th[t].new
  BY <1>1 DEF LocalsOf
<1>4. owner[d] = NULL /\ UNCHANGED <<info, spu_run, owner, woken>>
  BY <1>3 DEF spu_schedule
<1>5. PICK x \in Locals(t) : /\ LocalsOf(t, x) /\ th' = [th EXCEPT ![t] = x]
                             /\ x.pc \in {"walk", "retake", "idle"}
  BY HandoverReturns
<1>6. /\ x.pc \notin {"load", "handover"} /\ x.pc \notin Activating
      /\ x.pc \notin Holding /\ x.pc # "running"
  BY <1>5 DEF Holding, Activating
<1>7. t \in Ctx => t \notin spu_run
  BY <1>1 DEF SchedInv, RunInv
<1>8. /\ woken' \subseteq Thread /\ owner' \in [Ctx -> Thread \cup {NULL}]
      /\ spu_run' \subseteq Ctx /\ info' \in [Ctx -> InfoType]
  BY <1>4, ShapeNow, QueueNow
<1>9. CASE spus.spuOf[d] # NULL
  <2>1. UNCHANGED <<spus, spu_prio>>
    BY <1>3, <1>9 DEF spu_schedule
  <2>2. SliceInv'
    BY <2>1, SliceKept
  <2>3. spus' \in SpusType
    BY <2>1, ShapeNow
  <2> QED
    BY <1>4, <1>5, <1>6, <1>7, <1>8, <2>1, <2>2, <2>3, QuietStep
<1>10. CASE spus.spuOf[d] = NULL
  <2>1. spus.ctxOf[s] = NULL
    BY <1>1, <1>2 DEF SchedInv, HandsExclusive, InHand
  <2>2. spus' = Load(spus, s, d) /\ spu_prio' = spu_prio
    BY <1>2, <1>3, <1>10, <2>1 DEF spu_schedule, LoadFails
  <2>3. LoadedOn(spus, spus', s, d)
    BY <2>1, <2>2, LoadEffect, ShapeNow, QueueNow
  <2>4. /\ spus' \in SpusType
        /\ spus'.ctxOf = [spus.ctxOf EXCEPT ![s] = d]
        /\ spus'.spuOf = [spus.spuOf EXCEPT ![d] = s]
        /\ spus'.used = spus.used \cup {s}
        /\ spus'.time_slice[d] >= 1
        /\ \A e \in Ctx \ {d} : spus'.time_slice[e] = spus.time_slice[e]
    BY <2>3 DEF LoadedOn
  <2>5. HandsExclusive' /\ BindingExact'
    BY <1>1, <1>2, <1>5, <1>6, <1>10, <2>4, HandsLoad
  <2>6. \A e \in Ctx : e # d => spus'.spuOf[e] = spus.spuOf[e]
    BY <2>4, ShapeNow
  <2>7. SliceInv'
    BY <2>4, <2>6 DEF SchedInv, SliceInv
  <2>8. PICK q : q = spu_prio
    OBVIOUS
  <2>9. QueueExact' /\ Queued' = Queued
    BY <1>4, <2>2, <2>8, QueueNow, QueueThen
  <2>10. \A e \in Queued' : e \notin NoSched => e \in spu_run'
    BY <1>4, <2>9 DEF SchedInv, RunInv, Queued
  <2>11. spu_prio' \in QueueType
    BY <2>2, QueueNow
  <2>12. \A e \in Ctx : owner[e] \notin {NULL, t} =>
           /\ spus.spuOf[e] = NULL => spus'.spuOf[e] = NULL
           /\ e \in spu_run => e \in spu_run'
    BY <1>4, <2>6
  <2> QED
    BY <1>4, <1>5, <1>6, <1>7, <1>8, <2>4, <2>5, <2>7, <2>9, <2>10, <2>11, <2>12,
       Step
<1> QED
  BY <1>9, <1>10

-----------------------------------------------------------------------------
(* The callers in run.c and context.c.                                     *)

(* spu_update_sched_info() of a context that does not wait leaves the run  *)
(* queue exact.                                                            *)
LEMMA UpdateInfo ==
  ASSUME SchedInv, NEW c \in Ctx, spu_update_sched_info(c), spu_prio' = spu_prio
  PROVE  QueueExact' /\ Queued' = Queued /\ info' \in [Ctx -> InfoType]
<1>1. c \notin Queued
  BY DEF spu_update_sched_info, Queued
<1>2. PICK i \in SchedInfo[c] : info' = [info EXCEPT ![c] = i]
  BY DEF spu_update_sched_info
<1>3. i \in InfoType
  BY CtxAssumption DEF InfoType
<1>4. info' \in [Ctx -> InfoType]
  BY <1>2, <1>3, QueueNow
<1>5. Queued' = Queued
  BY DEF Queued, OnRq
<1>6. \A d \in Ctx : d # c => info'[d] = info[d]
  BY <1>2, QueueNow
<1>7. ASSUME NEW p \in Prio, NEW j \in DOMAIN spu_prio.runq[p]
      PROVE  info'[spu_prio.runq[p][j]].prio = p
  <2>1. PICK d \in Ctx : d = spu_prio.runq[p][j]
    BY QueueNow DEF QueueType
  <2>2. d \in Queued
    BY <2>1 DEF Queued, OnRq, Range
  <2>3. info[d].prio = p
    BY <2>1 DEF SchedInv, QueueExact
  <2> QED
    BY <1>1, <1>6, <2>1, <2>2, <2>3
<1>8. QueueExact'
  BY <1>5, <1>7 DEF SchedInv, QueueExact
<1> QED
  BY <1>4, <1>5, <1>8

(* spu_run() of a context that is loaded.                                  *)
LEMMA PreserveRunLoaded ==
  ASSUME SchedInv, NEW t \in Ctx, RunLoaded(t)
  PROVE  SchedInv'
<1>1. /\ t \in Thread /\ t # spusched /\ owner[t] = NULL
      /\ spu_update_sched_info(t) /\ spu_run' = spu_run \cup {t}
      /\ UNCHANGED <<spu_prio, owner, woken>>
  BY Sorts DEF RunLoaded
<1>2. SameBinding(spus, spus')
  BY ShapeNow, SwitchState DEF RunLoaded
<1>3. PICK x : /\ x = Local("running", t, NULL, NULL, <<>>)
               /\ th' = [th EXCEPT ![t] = x]
  BY DEF RunLoaded, Steps
<1>4. x \in Locals(t) /\ x.pc = "running" /\ x.ctx = t
  <2>1. <<>> \in Seq(Node)
    OBVIOUS
  <2> QED
    BY <1>1, <1>3, <2>1 DEF Local, Locals
<1>5. LocalsOf(t, x) /\ x.pc \notin Holding /\ x.pc \notin Activating
  BY <1>1, <1>4 DEF LocalsOf, Holding, Activating
<1>6. /\ spus' \in SpusType /\ spus'.ctxOf = spus.ctxOf
      /\ spus'.spuOf = spus.spuOf /\ spus'.used = spus.used
      /\ spus'.time_slice = spus.time_slice
  BY <1>2 DEF SameBinding
<1>7. HandsExclusive' /\ BindingExact'
  BY <1>1, <1>3, <1>4, <1>6, HandsNone
<1>8. SliceInv'
  BY <1>6, SliceKept
<1>9. QueueExact' /\ Queued' = Queued /\ info' \in [Ctx -> InfoType]
  BY <1>1, UpdateInfo
<1>10. \A e \in Queued' : e \notin NoSched => e \in spu_run'
  BY <1>1, <1>9 DEF SchedInv, RunInv, Queued
<1>11. /\ spu_prio' \in QueueType /\ spu_run' \subseteq Ctx
       /\ woken' \subseteq Thread /\ owner' \in [Ctx -> Thread \cup {NULL}]
  BY <1>1, ShapeNow, QueueNow
<1> QED
  BY <1>1, <1>3, <1>4, <1>5, <1>6, <1>7, <1>8, <1>9, <1>10, <1>11, Step

(* spu_run() of a context that is saved.                                   *)
LEMMA PreserveRunSaved ==
  ASSUME SchedInv, NEW t \in Ctx, RunSaved(t)
  PROVE  SchedInv'
<1>1. /\ t \in Thread /\ t # spusched /\ owner[t] = NULL /\ th[t].pc = "idle"
      /\ spus.spuOf[t] = NULL
      /\ spu_update_sched_info(t) /\ owner' = [owner EXCEPT ![t] = t]
      /\ UNCHANGED <<spu_prio, spu_run, woken>>
  BY Sorts DEF RunSaved
<1>2. SameBinding(spus, spus')
  BY ShapeNow, SwitchState DEF RunSaved
<1>3. PICK x : /\ x = Local("activate", t, NULL, NULL, <<>>)
               /\ th' = [th EXCEPT ![t] = x]
  BY DEF RunSaved, Steps
<1>4. x \in Locals(t) /\ x.pc = "activate" /\ x.ctx = t
  <2>1. <<>> \in Seq(Node)
    OBVIOUS
  <2> QED
    BY <1>1, <1>3, <2>1 DEF Local, Locals
<1>5. LocalsOf(t, x)
  BY <1>1, <1>4 DEF LocalsOf, Holding, Activating
<1>6. /\ spus' \in SpusType /\ spus'.ctxOf = spus.ctxOf
      /\ spus'.spuOf = spus.spuOf /\ spus'.used = spus.used
      /\ spus'.time_slice = spus.time_slice
  BY <1>2 DEF SameBinding
<1>7. HandsExclusive' /\ BindingExact'
  BY <1>1, <1>3, <1>4, <1>6, HandsNone
<1>8. SliceInv'
  BY <1>6, SliceKept
<1>9. QueueExact' /\ Queued' = Queued /\ info' \in [Ctx -> InfoType]
  BY <1>1, UpdateInfo
<1>10. \A e \in Queued' : e \notin NoSched => e \in spu_run'
  BY <1>1, <1>9 DEF SchedInv, RunInv, Queued
<1>11. /\ spu_prio' \in QueueType /\ spu_run' \subseteq Ctx
       /\ woken' \subseteq Thread
  BY <1>1, ShapeNow, QueueNow
<1>12. /\ owner' \in [Ctx -> Thread \cup {NULL}] /\ owner'[t] = t
       /\ \A e \in Ctx : owner'[e] # owner[e] => owner[e] \in {NULL, t}
  BY <1>1, ShapeNow
<1>13. t \notin spu_run
  BY <1>1 DEF SchedInv, RunInv
<1> QED
  BY <1>1, <1>3, <1>4, <1>5, <1>6, <1>7, <1>8, <1>9, <1>10, <1>11, <1>12, <1>13,
     Step

(* spu_run() ends: the context leaves the run queue with its flag.         *)
LEMMA PreserveRunEnds ==
  ASSUME SchedInv, NEW t \in Ctx, RunEnds(t)
  PROVE  SchedInv'
<1>1. /\ t \in Thread /\ t # spusched /\ owner[t] = NULL
      /\ spu_prio' = __spu_del_from_rq(spu_prio, t)
      /\ spu_run' = spu_run \ {t} /\ UNCHANGED <<info, owner, woken>>
  BY Sorts DEF RunEnds
<1>2. SameBinding(spus, spus')
  BY ShapeNow, SwitchState DEF RunEnds
<1>3. PICK c \in {t, NULL} : c = th[t].ctx
  BY <1>1, ShapeNow DEF LocalsOf
<1>4. PICK x : /\ x = Idle \/ x = Local("yield", c, NULL, NULL, <<>>)
               /\ th' = [th EXCEPT ![t] = x]
  BY <1>3 DEF RunEnds, Rests, At
<1>5. x \in Locals(t) /\ LocalsOf(t, x) /\ x.pc \in {"idle", "yield"}
  <2>1. CASE x = Idle
    BY <1>1, <2>1, IdleType
  <2>2. CASE x = Local("yield", c, NULL, NULL, <<>>)
    <3>1. <<>> \in Seq(Node)
      OBVIOUS
    <3>2. x \in Locals(t) /\ x.pc = "yield" /\ x.ctx = c
      BY <1>1, <1>3, <2>2, <3>1 DEF Local, Locals
    <3> QED
      BY <1>1, <1>3, <3>2 DEF LocalsOf, Holding, Activating
  <2> QED
    BY <1>4, <2>1, <2>2
<1>6. /\ x.pc \notin Holding /\ x.pc \notin Activating /\ x.pc # "running"
      /\ x.pc \notin {"load", "handover"}
  BY <1>5 DEF Holding, Activating
<1>7. /\ spus' \in SpusType /\ spus'.ctxOf = spus.ctxOf
      /\ spus'.spuOf = spus.spuOf /\ spus'.used = spus.used
      /\ spus'.time_slice = spus.time_slice
  BY <1>2 DEF SameBinding
<1>8. HandsExclusive' /\ BindingExact'
  BY <1>1, <1>4, <1>6, <1>7, HandsNone
<1>9. SliceInv'
  BY <1>7, SliceKept
<1>10. PICK q : q = __spu_del_from_rq(spu_prio, t)
  OBVIOUS
<1>11. q \in QueueType /\ QueueOK(q) /\ QueuedIn(q) = Queued \ {t}
  BY <1>10, QueueNow, DelFromRq
<1>12. QueueExact' /\ Queued' = QueuedIn(q)
  BY <1>1, <1>10, <1>11, QueueThen
<1>13. \A e \in Queued' : e \notin NoSched => e \in spu_run'
  BY <1>1, <1>11, <1>12 DEF SchedInv, RunInv, Queued
<1>14. /\ spu_prio' \in QueueType /\ info' \in [Ctx -> InfoType]
       /\ spu_run' \subseteq Ctx /\ woken' \subseteq Thread
       /\ owner' \in [Ctx -> Thread \cup {NULL}]
  BY <1>1, <1>10, <1>11, ShapeNow, QueueNow
<1>15. \A e \in Ctx : owner[e] \notin {NULL, t} =>
         /\ spus.spuOf[e] = NULL => spus'.spuOf[e] = NULL
         /\ e \in spu_run => e \in spu_run'
  BY <1>1, <1>7
<1> QED
  BY <1>1, <1>4, <1>5, <1>6, <1>7, <1>8, <1>9, <1>12, <1>13, <1>14, <1>15, Step

(* spu_acquire_saved() locks the context again.                            *)
LEMMA PreserveSaveRetakes ==
  ASSUME SchedInv, NEW t \in Saver, SaveRetakes(t)
  PROVE  SchedInv'
<1>1. t \in Thread /\ t # spusched /\ t \notin Ctx /\ th[t].pc = "retake"
  BY Sorts DEF SaveRetakes
<1>2. PICK c \in Ctx : c = th[t].ctx
  BY <1>1, ShapeNow DEF LocalsOf
<1>3. /\ owner[c] = NULL /\ owner' = [owner EXCEPT ![c] = t]
      /\ UNCHANGED <<spus, spu_prio, info, spu_run, woken>>
  BY <1>2 DEF SaveRetakes
<1>4. PICK x : /\ x = Local("saved", c, NULL, NULL, <<>>)
               /\ th' = [th EXCEPT ![t] = x]
  BY <1>2 DEF SaveRetakes, At
<1>5. x \in Locals(t) /\ x.pc = "saved" /\ x.ctx = c
  <2>1. <<>> \in Seq(Node)
    OBVIOUS
  <2> QED
    BY <1>1, <1>4, <2>1 DEF Local, Locals
<1>6. /\ LocalsOf(t, x) /\ x.pc \notin Activating /\ x.pc # "running"
      /\ x.pc \notin {"load", "handover"}
  BY <1>1, <1>5 DEF LocalsOf, Activating
<1>7. /\ owner' \in [Ctx -> Thread \cup {NULL}] /\ owner'[x.ctx] = t
      /\ \A e \in Ctx : owner'[e] # owner[e] => owner[e] \in {NULL, t}
  BY <1>1, <1>3, <1>5, ShapeNow
<1>8. SliceInv'
  BY <1>3, SliceKept
<1>9. spus' \in SpusType /\ woken' \subseteq Thread
  BY <1>3, ShapeNow
<1> QED
  BY <1>1, <1>3, <1>4, <1>5, <1>6, <1>7, <1>8, <1>9, QuietStep

(* spu_release_saved() releases the context, or activates it again.        *)
LEMMA PreserveSaveEnds ==
  ASSUME SchedInv, NEW t \in Saver, SaveEnds(t)
  PROVE  SchedInv'
<1>1. t \in Thread /\ t # spusched /\ t \notin Ctx /\ th[t].pc = "saved"
  BY Sorts DEF SaveEnds
<1>2. PICK c \in Ctx : c = th[t].ctx
  BY <1>1, ShapeNow DEF LocalsOf, Holding
<1>3. owner[c] = t
  BY <1>1, <1>2 DEF SchedInv, OwnerInv, Holding
<1>4. UNCHANGED <<spus, spu_prio, info, spu_run, woken>>
  BY DEF SaveEnds
<1>5. SliceInv'
  BY <1>4, SliceKept
<1>6. spus' \in SpusType /\ woken' \subseteq Thread
  BY <1>4, ShapeNow
<1>7. CASE c \in spu_run /\ spus.spuOf[c] = NULL
  <2>1. At(t, "activate") /\ UNCHANGED owner
    BY <1>2, <1>7 DEF SaveEnds
  <2>2. PICK x : /\ x = Local("activate", c, NULL, NULL, <<>>)
                 /\ th' = [th EXCEPT ![t] = x]
    BY <1>2, <2>1 DEF At
  <2>3. x \in Locals(t) /\ x.pc = "activate" /\ x.ctx = c
    <3>1. <<>> \in Seq(Node)
      OBVIOUS
    <3> QED
      BY <1>1, <2>2, <3>1 DEF Local, Locals
  <2>4. LocalsOf(t, x) /\ x.pc # "running" /\ x.pc \notin {"load", "handover"}
    BY <1>1, <2>3 DEF LocalsOf, Activating
  <2>5. owner' \in [Ctx -> Thread \cup {NULL}] /\ owner'[x.ctx] = t
    BY <1>3, <2>1, <2>3, ShapeNow
  <2> QED
    BY <1>1, <1>4, <1>5, <1>6, <1>7, <2>1, <2>2, <2>3, <2>4, <2>5, QuietStep
<1>8. CASE ~(c \in spu_run /\ spus.spuOf[c] = NULL)
  <2>1. Rests(t) /\ owner' = [owner EXCEPT ![c] = NULL]
    BY <1>2, <1>8 DEF SaveEnds
  <2>2. th' = [th EXCEPT ![t] = Idle]
    BY <2>1 DEF Rests
  <2>3. Idle \in Locals(t) /\ Idle.pc = "idle" /\ LocalsOf(t, Idle)
    BY <1>1, IdleType
  <2>4. /\ Idle.pc \notin {"load", "handover"} /\ Idle.pc # "running"
        /\ Idle.pc \notin Holding /\ Idle.pc \notin Activating
    BY <2>3 DEF Holding, Activating
  <2>5. /\ owner' \in [Ctx -> Thread \cup {NULL}]
        /\ \A e \in Ctx : owner'[e] # owner[e] => owner[e] \in {NULL, t}
    BY <1>3, <2>1, ShapeNow
  <2> QED
    BY <1>1, <1>4, <1>5, <1>6, <2>2, <2>3, <2>4, <2>5, QuietStep
<1> QED
  BY <1>7, <1>8

(* A step that wakes threads at most changes nothing SchedInv speaks of.   *)
LEMMA OnlyWakes ==
  ASSUME SchedInv, UNCHANGED <<spus, spu_prio, info, spu_run, owner, th>>,
         woken' \subseteq Thread
  PROVE  SchedInv'
<1>1. Shape'
  BY DEF SchedInv, Shape, SpusType, QueueType, InfoType, Locals
<1>2. LocalsInv' /\ OwnerInv' /\ ActivateInv'
  BY DEF SchedInv, LocalsInv, LocalsOf, OwnerInv, ActivateInv
<1>3. HandsExclusive' /\ BindingExact' /\ SliceInv'
  BY DEF SchedInv, HandsExclusive, InHand, BindingExact, SliceInv
<1>4. PICK q : q = spu_prio
  OBVIOUS
<1>5. QueueExact' /\ Queued' = Queued
  BY <1>4, QueueNow, QueueThen
<1>6. RunInv'
  BY <1>5 DEF SchedInv, RunInv
<1> QED
  BY <1>1, <1>2, <1>3, <1>5, <1>6 DEF SchedInv

(* do_notify_spus_active() only wakes.                                     *)
LEMMA PreserveNotify ==
  ASSUME SchedInv, NEW n \in Node, do_notify_spus_active(n)
  PROVE  SchedInv'
<1>1. UNCHANGED <<spus, spu_prio, info, spu_run, owner, th>>
  BY DEF do_notify_spus_active
<1>2. woken' \subseteq Thread
  BY ShapeNow DEF do_notify_spus_active, Waiters
<1> QED
  BY <1>1, <1>2, OnlyWakes

-----------------------------------------------------------------------------
(* The spusched thread.                                                    *)

(* Locals of the spusched thread between two SPUs.                         *)
LEMMA WalkLocal ==
  ASSUME NEW todo \in Seq(Seq(Spu)), NEW x,
         x = Local("walk", NULL, NULL, NULL, todo)
  PROVE  /\ x \in Locals(spusched) /\ LocalsOf(spusched, x) /\ x.pc = "walk"
         /\ x.pc \notin {"load", "handover"} /\ x.pc # "running"
         /\ x.pc \notin Holding /\ x.pc \notin Activating
<1>1. x \in Locals(spusched) /\ x.pc = "walk" /\ x.ctx = NULL
  BY DEF Local, Locals
<1> QED
  BY <1>1, Sorts DEF LocalsOf, Holding, Activating

(* The spusched thread goes on with its walk, or rests.                    *)
LEMMA WalkStep ==
  ASSUME SchedInv, NEW x \in Locals(spusched), LocalsOf(spusched, x),
         x.pc \in {"idle", "walk", "tick"}, th' = [th EXCEPT ![spusched] = x],
         spus' \in SpusType, spus'.ctxOf = spus.ctxOf,
         spus'.spuOf = spus.spuOf, spus'.used = spus.used, SliceInv',
         UNCHANGED <<spu_prio, info, spu_run, owner, woken>>
  PROVE  SchedInv'
<1>1. /\ x.pc \notin {"load", "handover"} /\ x.pc # "running"
      /\ x.pc \notin Holding /\ x.pc \notin Activating
  BY DEF Holding, Activating
<1>2. woken' \subseteq Thread /\ owner' \in [Ctx -> Thread \cup {NULL}]
  BY ShapeNow
<1> QED
  BY <1>1, <1>2, QuietStep, Sorts

(* The timer wakes the spusched thread.                                    *)
LEMMA PreserveWake ==
  ASSUME SchedInv, spusched_wake
  PROVE  SchedInv'
<1>1. UNCHANGED <<spus, spu_prio, info, spu_run, owner, woken>>
  BY DEF spusched_wake
<1>2. [i \in 1 .. MAX_NUMNODES |-> SpuList[i - 1]] \in Seq(Seq(Spu))
  <2>1. \A i \in 1 .. MAX_NUMNODES : SpuList[i - 1] \in Seq(Spu)
    BY SpusAssumption DEF Node
  <2>2. MAX_NUMNODES \in Nat
    BY SpusAssumption
  <2> QED
    BY <2>1, <2>2
<1>3. PICK todo \in Seq(Seq(Spu)) :
        todo = [i \in 1 .. MAX_NUMNODES |-> SpuList[i - 1]]
  BY <1>2
<1>4. PICK x : /\ x = Local("walk", NULL, NULL, NULL, todo)
               /\ th' = [th EXCEPT ![spusched] = x]
  BY <1>3 DEF spusched_wake, Steps
<1>5. x \in Locals(spusched) /\ LocalsOf(spusched, x) /\ x.pc = "walk"
  BY <1>4, WalkLocal
<1>6. SliceInv' /\ spus' \in SpusType
  BY <1>1, SliceKept, ShapeNow
<1> QED
  BY <1>1, <1>4, <1>5, <1>6, WalkStep

(* What is left of a list.                                                 *)
LEMMA ListRest ==
  ASSUME NEW X, NEW s \in Seq(X), s # <<>>
  PROVE  /\ Tail(s) \in Seq(X) /\ Head(s) \in X /\ Head(s) = s[1]
         /\ \A v \in X : [s EXCEPT ![1] = v] \in Seq(X)
OBVIOUS

(* The spusched thread looks at the next SPU.                              *)
LEMMA PreserveThread ==
  ASSUME SchedInv, spusched_thread
  PROVE  SchedInv'
<1>1. UNCHANGED <<spus, spu_prio, info, spu_run, owner, woken>>
  BY DEF spusched_thread
<1>2. SliceInv' /\ spus' \in SpusType
  BY <1>1, SliceKept, ShapeNow
<1>3. th[spusched] \in Locals(spusched) /\ th[spusched].pc = "walk"
  BY ShapeNow, Sorts DEF spusched_thread
<1>4. PICK todo \in Seq(Seq(Spu)) : todo = th[spusched].todo
  BY <1>3, Fields
<1>5. CASE todo = <<>>
  <2>1. th' = [th EXCEPT ![spusched] = Idle]
    BY <1>4, <1>5 DEF spusched_thread, Rests
  <2> QED
    BY <1>1, <1>2, <2>1, IdleType, WalkStep, Sorts
<1>6. ASSUME NEW left \in Seq(Seq(Spu)),
             th' = [th EXCEPT ![spusched].todo = left]
      PROVE  SchedInv'
  <2>1. PICK x : /\ x = [th[spusched] EXCEPT !.todo = left]
                 /\ th' = [th EXCEPT ![spusched] = x]
    BY <1>6, ShapeNow, Sorts
  <2>2. x \in Locals(spusched) /\ x.pc = "walk" /\ x.ctx = th[spusched].ctx
    BY <1>3, <2>1 DEF Locals
  <2>3. LocalsOf(spusched, x)
    BY <2>2, Sorts DEF LocalsOf, Holding, Activating
  <2> QED
    BY <1>1, <1>2, <2>1, <2>2, <2>3, WalkStep
<1>7. CASE todo # <<>>
  <2>1. PICK list \in Seq(Spu) : list = Head(todo)
    BY <1>7
  <2>2. CASE list = <<>>
    <3>1. th' = [th EXCEPT ![spusched].todo = Tail(@)]
      BY <1>4, <1>7, <2>1, <2>2 DEF spusched_thread
    <3>2. PICK left \in Seq(Seq(Spu)) : left = Tail(todo)
      BY <1>7, ListRest
    <3>3. th' = [th EXCEPT ![spusched].todo = left]
      BY <1>4, <3>1, <3>2
    <3> QED
      BY <1>6, <3>3
  <2>3. CASE list # <<>>
    <3>1. PICK rest \in Seq(Seq(Spu)) : rest = [todo EXCEPT ![1] = Tail(@)]
      <4>1. Tail(list) \in Seq(Spu) /\ list = todo[1]
        BY <1>7, <2>1, <2>3, ListRest
      <4>2. [todo EXCEPT ![1] = Tail(list)] \in Seq(Seq(Spu))
        BY <1>7, <4>1, ListRest
      <4> QED
        BY <4>1, <4>2
    <3>2. PICK c \in Ctx \cup {NULL} : c = spus.ctxOf[Head(list)]
      BY <2>1, <2>3, ShapeNow
    <3>3. CASE c = NULL
      <4>1. th' = [th EXCEPT ![spusched].todo = rest]
        BY <1>4, <1>7, <2>1, <2>3, <3>1, <3>2, <3>3 DEF spusched_thread
      <4> QED
        BY <1>6, <4>1
    <3>4. CASE c # NULL
      <4>1. PICK x : /\ x = Local("tick", NULL, NULL, c, rest)
                     /\ th' = [th EXCEPT ![spusched] = x]
        BY <1>4, <1>7, <2>1, <2>3, <3>1, <3>2, <3>4 DEF spusched_thread, Steps
      <4>2. x \in Locals(spusched) /\ x.pc = "tick" /\ x.new = c /\ c \in Ctx
        BY <3>2, <3>4, <4>1 DEF Local, Locals
      <4>3. LocalsOf(spusched, x)
        BY <4>2, Sorts DEF LocalsOf, Holding, Activating
      <4> QED
        BY <1>1, <1>2, <4>1, <4>2, <4>3, WalkStep
    <3> QED
      BY <3>3, <3>4
  <2> QED
    BY <2>2, <2>3
<1> QED
  BY <1>5, <1>7

(* The tick counts the time slice down to one at least, or preempts the    *)
(* context for one that waits.                                             *)
LEMMA PreserveTick ==
  ASSUME SchedInv, spusched_tick
  PROVE  SchedInv'
<1>1. /\ th[spusched] \in Locals(spusched) /\ th[spusched].pc = "tick"
      /\ LocalsOf(spusched, th[spusched])
  BY ShapeNow, Sorts DEF spusched_tick
<1>2. PICK c \in Ctx : c = th[spusched].new
  BY <1>1 DEF LocalsOf
<1>3. PICK todo \in Seq(Seq(Spu)) : todo = th[spusched].todo
  BY <1>1, Fields
<1>4. PICK s \in Spu \cup {NULL} : s = spus.spuOf[c]
  BY ShapeNow
<1>5. PICK ticked : ticked = [spus EXCEPT !.time_slice[c] = @ - 1]
  OBVIOUS
<1>6. PICK v \in Int : v = spus.time_slice[c] - 1
  BY ShapeNow
<1>7. /\ ticked \in SpusType /\ ticked.ctxOf = spus.ctxOf
      /\ ticked.spuOf = spus.spuOf /\ ticked.used = spus.used
      /\ ticked.time_slice = [spus.time_slice EXCEPT ![c] = v]
  BY <1>5, <1>6, ShapeNow DEF SpusType
<1>8. PICK new : new = grab_runnable_context(spu_prio, info[c].prio + 1, NodeOf(s))
  OBVIOUS
<1>9. new \in Queued \cup {NULL}
  <2>1. PICK p \in Prio : p = info[c].prio
    BY QueueNow DEF InfoType
  <2>2. p + 1 \in Int /\ p + 1 <= MAX_PRIO
    BY PrioAssumption DEF Prio
  <2>3. grab_runnable_context(spu_prio, p + 1, NodeOf(s))
          \in QueuedIn(spu_prio) \cup {NULL}
    BY <2>2, QueueNow, Grabbed
  <2> QED
    BY <1>8, <2>1, <2>3, QueueNow
<1>10. owner[c] = NULL /\ UNCHANGED <<info, spu_run, owner, woken>>
  BY <1>2 DEF spusched_tick
<1>11. PICK w : w = Local("walk", NULL, NULL, NULL, todo)
  OBVIOUS
<1>12. w \in Locals(spusched) /\ LocalsOf(spusched, w) /\ w.pc = "walk"
  BY <1>11, WalkLocal
<1>13. CASE th' = [th EXCEPT ![spusched] = w] /\ UNCHANGED <<spus, spu_prio>>
  <2>1. SliceInv' /\ spus' \in SpusType
    BY <1>13, SliceKept, ShapeNow
  <2> QED
    BY <1>10, <1>12, <1>13, <2>1, WalkStep
<1>14. CASE /\ s # NULL
            /\ spus' = [ticked EXCEPT !.time_slice[c] = Max({@, 1})]
            /\ th' = [th EXCEPT ![spusched] = w]
            /\ UNCHANGED spu_prio
  <2>1. PICK m \in Int : m = Max({v, 1}) /\ m >= 1
    <3>1. \E a \in {v, 1} : \A b \in {v, 1} : a >= b
      OBVIOUS
    <3>2. Max({v, 1}) \in {v, 1} /\ Max({v, 1}) >= 1
      BY <3>1 DEF Max
    <3> QED
      BY <3>2
  <2>2. ticked.time_slice[c] = v
    BY <1>7, ShapeNow
  <2>3. /\ spus' \in SpusType /\ spus'.ctxOf = spus.ctxOf
        /\ spus'.spuOf = spus.spuOf /\ spus'.used = spus.used
        /\ spus'.time_slice = [ticked.time_slice EXCEPT ![c] = m]
    BY <1>7, <1>14, <2>1, <2>2 DEF SpusType
  <2>4. /\ spus'.time_slice[c] = m
        /\ \A e \in Ctx \ {c} : spus'.time_slice[e] = spus.time_slice[e]
    BY <1>7, <2>3, ShapeNow
  <2>5. SliceInv'
    BY <2>1, <2>3, <2>4 DEF SchedInv, SliceInv
  <2> QED
    BY <1>10, <1>12, <1>14, <2>3, <2>5, WalkStep
<1>15. CASE /\ s # NULL /\ new # NULL
            /\ spus' = spu_unschedule(ticked, s, c, FALSE)
            /\ spu_prio' = Requeue(__spu_del_from_rq(spu_prio, new), c)
            /\ th' = [th EXCEPT ![spusched] =
                        Local("handover", NULL, s, new, todo)]
  <2>1. s \in Spu /\ new \in Ctx /\ new \in Queued
    BY <1>9, <1>15 DEF Queued
  <2>2. PICK x : /\ x = Local("handover", NULL, s, new, todo)
                 /\ th' = [th EXCEPT ![spusched] = x]
    BY <1>15
  <2>3. x \in Locals(spusched) /\ x.pc = "handover" /\ x.spu = s /\ x.new = new
    BY <2>1, <2>2 DEF Local, Locals
  <2>4. /\ LocalsOf(spusched, x) /\ x.pc # "running"
        /\ x.pc \notin Holding /\ x.pc \notin Activating
    BY <2>1, <2>3, Sorts DEF LocalsOf, Holding, Activating
  <2>5. Unscheduled(ticked, spus', s, c, FALSE)
    <3>1. FALSE \in BOOLEAN
      OBVIOUS
    <3>2. Unscheduled(ticked, spu_unschedule(ticked, s, c, FALSE), s, c, FALSE)
      BY <1>7, <2>1, <3>1, UnscheduleEffect
    <3> QED
      BY <1>15, <3>2
  <2>6. /\ spus' \in SpusType
        /\ spus'.ctxOf = [spus.ctxOf EXCEPT ![s] = NULL]
        /\ spus'.spuOf = [spus.spuOf EXCEPT ![c] = NULL]
        /\ spus'.used = spus.used
        /\ spus'.time_slice = [spus.time_slice EXCEPT ![c] = v]
    BY <1>7, <2>5 DEF Unscheduled, Unloaded
  <2>7. HandsExclusive' /\ BindingExact'
    <3>1. spus.spuOf[c] = s /\ spusched \in Thread
      BY <1>4, Sorts
    <3>2. /\ spus'.used \in {spus.used, spus.used \ {s}}
          /\ x.pc \in {"load", "handover"} => x.spu = s /\ spus'.used = spus.used
      BY <2>3, <2>6
    <3> QED
      BY <2>1, <2>2, <2>6, <3>1, <3>2, HandsUnload
  <2>8. /\ \A e \in Ctx : spus'.spuOf[e] = IF e = c THEN NULL ELSE spus.spuOf[e]
        /\ \A e \in Ctx \ {c} : spus'.time_slice[e] = spus.time_slice[e]
    BY <2>6, ShapeNow
  <2>9. SliceInv'
    BY <2>8 DEF SchedInv, SliceInv
  <2>10. PICK p : p = __spu_del_from_rq(spu_prio, new)
    OBVIOUS
  <2>11. p \in QueueType /\ QueueOK(p) /\ QueuedIn(p) = Queued \ {new}
    BY <2>1, <2>10, QueueNow, DelFromRq
  <2>12. PICK q : q = Requeue(p, c)
    OBVIOUS
  <2>13. /\ q \in QueueType /\ QueueOK(q)
         /\ QueuedIn(q) \subseteq QueuedIn(p) \cup ({c} \cap spu_run)
    BY <2>11, <2>12, QueueNow, RequeueEffect
  <2>14. QueueExact' /\ Queued' = QueuedIn(q)
    BY <1>10, <1>15, <2>10, <2>12, <2>13, QueueThen
  <2>15. \A e \in Queued' : e \notin NoSched => e \in spu_run'
    BY <1>10, <2>11, <2>13, <2>14 DEF SchedInv, RunInv, Queued
  <2>16. /\ spu_prio' \in QueueType /\ info' \in [Ctx -> InfoType]
         /\ spu_run' \subseteq Ctx /\ woken' \subseteq Thread
         /\ owner' \in [Ctx -> Thread \cup {NULL}]
    BY <1>10, <1>15, <2>10, <2>12, <2>13, ShapeNow, QueueNow
  <2>17. \A e \in Ctx : spus.spuOf[e] = NULL => spus'.spuOf[e] = NULL
    BY <2>8
  <2>18. spusched \in Thread /\ spusched \notin Ctx
    BY Sorts
  <2>19. spus' \in SpusType
    BY <2>6
  <2>20. /\ x.pc \in Holding => owner'[x.ctx] = spusched
         /\ x.pc \in Activating /\ x.ctx \notin NoSched =>
              /\ spus'.spuOf[x.ctx] = NULL
              /\ spusched \notin Ctx => x.ctx \in spu_run'
         /\ spusched \in Ctx => (spusched \in spu_run' <=> x.pc = "running")
    BY <2>4, <2>18
  <2>21. /\ \A e \in Ctx : owner'[e] # owner[e] => owner[e] \in {NULL, spusched}
         /\ \A e \in Ctx : owner[e] \notin {NULL, spusched} =>
              /\ spus.spuOf[e] = NULL => spus'.spuOf[e] = NULL
              /\ e \in spu_run => e \in spu_run'
         /\ \A e \in Ctx \ {spusched} : e \in spu_run' <=> e \in spu_run
    BY <1>10, <2>17
  <2> QED
    BY <2>2, <2>3, <2>4, <2>7, <2>9, <2>14, <2>15, <2>16, <2>18, <2>19, <2>20,
       <2>21, Step
<1> QED
  BY <1>2, <1>3, <1>4, <1>5, <1>8, <1>11, <1>13, <1>14, <1>15
     DEF spusched_tick, Steps

-----------------------------------------------------------------------------
(* The theorems.                                                           *)

(* Before the first step no context is loaded or queued.                   *)
LEMMA InitHolds ==
  ASSUME Init
  PROVE  SchedInv
<1>1. info \in [Ctx -> InfoType]
  <2>1. DOMAIN info = Ctx /\ info = [c \in Ctx |-> info[c]]
    BY DEF Init
  <2>2. \A c \in Ctx : info[c] \in InfoType
    BY CtxAssumption DEF Init, InfoType
  <2> QED
    BY <2>1, <2>2
<1>2. spus \in SpusType
  <2>1. PICK slice \in [Ctx -> Int] :
          slice = [c \in Ctx |-> Timeslice(info[c].prio)]
    <3>1. \A c \in Ctx : Timeslice(info[c].prio) \in Int
      BY <1>1, TimesliceType DEF InfoType
    <3> QED
      BY <3>1
  <2>2. spus = [ctxOf |-> [s \in Spu |-> NULL], used |-> {},
             spuOf |-> [c \in Ctx |-> NULL],
             nr_active |-> [n \in Node |-> 0], reserved_spus |-> [n \in Node |-> 0],
             busy_spus |-> [n \in Node |-> 0],
             util_user |-> [c \in Ctx |-> FALSE],
             time_slice |-> slice,
             aff_ref_spu |-> [g \in Gang |-> NULL],
             aff_sched_count |-> [g \in Gang |-> 0]]
    BY <2>1 DEF Init
  <2> QED
    BY <2>2 DEF SpusType
<1>3. spu_prio \in QueueType /\ Queued = {}
  <2>1. <<>> \in Seq(Ctx) /\ Range(<<>>) = {}
    BY DEF Range
  <2>2. /\ spu_prio.runq = [p \in Prio |-> <<>>] /\ spu_prio \in QueueType
    BY <2>1 DEF Init, EmptyRunq, QueueType
  <2> QED
    BY <2>1, <2>2 DEF Queued, OnRq
<1>4. \A t \in Thread : /\ th[t] = Idle /\ th[t] \in Locals(t)
                        /\ LocalsOf(t, th[t]) /\ th[t].pc = "idle"
  BY IdleType DEF Init
<1>5. Shape
  BY <1>1, <1>2, <1>3, <1>4 DEF Init, Shape
<1>6. LocalsInv /\ OwnerInv /\ ActivateInv
  BY <1>4 DEF LocalsInv, OwnerInv, ActivateInv, Holding, Activating
<1>7. HandsExclusive /\ BindingExact /\ SliceInv
  <2>1. /\ \A s \in Spu : spus.ctxOf[s] = NULL
        /\ \A c \in Ctx : spus.spuOf[c] = NULL
    BY DEF Init
  <2>2. \A t \in Thread : InHand(t) = {}
    BY <1>4 DEF InHand
  <2> QED
    BY <2>1, <2>2 DEF HandsExclusive, BindingExact, SliceInv
<1>8. QueueExact
  <2>1. Cardinality(Queued) = 0
    BY <1>3, FS_EmptySet
  <2>2. /\ spu_prio.runq = [p \in Prio |-> <<>>] /\ spu_prio.bitmap = {}
        /\ spu_prio.nr_waiting = 0
    BY DEF Init, EmptyRunq
  <2>3. IsInjective(<<>>)
    BY DEF IsInjective
  <2> QED
    BY <2>1, <2>2, <2>3 DEF QueueExact
<1>9. RunInv
  BY <1>3, <1>4, Sorts DEF Init, RunInv
<1> QED
  BY <1>5, <1>6, <1>7, <1>8, <1>9 DEF SchedInv

(* Every step of the scheduler preserves SchedInv.                         *)
LEMMA NextHolds ==
  ASSUME SchedInv, [Next]_vars
  PROVE  SchedInv'
<1>1. CASE UNCHANGED vars
  BY <1>1, OnlyWakes, ShapeNow DEF vars
<1>2. ASSUME NEW t \in Ctx \cup Saver, Activate(t)
      PROVE  SchedInv'
  BY <1>2, PreserveActivateSignalled, PreserveGetIdle, PreserveTakeLocation,
     PreserveScanNode, PreserveVictimNode, PreserveTryVictim,
     PreserveActivateLoad, PreserveActivateQueue, PreservePrioWait,
     PreserveRelock DEF Activate
<1>3. ASSUME NEW t \in Ctx,
             RunLoaded(t) \/ RunSaved(t) \/ RunEnds(t) \/ spu_yield(t)
      PROVE  SchedInv'
  BY <1>3, PreserveRunLoaded, PreserveRunSaved, PreserveRunEnds, PreserveYield
<1>4. ASSUME NEW t \in Saver,
             \/ \E c \in Saved : SaveBegins(t, c)
             \/ SaveRetakes(t) \/ SaveEnds(t)
      PROVE  SchedInv'
  BY <1>4, PreserveSaveBegins, PreserveSaveRetakes, PreserveSaveEnds
<1>5. ASSUME NEW t \in Thread, spu_schedule(t)
      PROVE  SchedInv'
  BY <1>5, PreserveSchedule
<1>6. ASSUME NEW n \in Node, do_notify_spus_active(n)
      PROVE  SchedInv'
  BY <1>6, PreserveNotify
<1>7. CASE spusched_wake \/ spusched_thread \/ spusched_tick
  BY <1>7, PreserveWake, PreserveThread, PreserveTick
<1> QED
  BY <1>1, <1>2, <1>3, <1>4, <1>5, <1>6, <1>7 DEF Next

(* SchedInv is an invariant of sched.c, whatever the interleaving of       *)
(* spu_run(), of the saving threads and of the tick.                       *)
THEOREM SchedInvHolds == Spec => []SchedInv
<1>1. Init => SchedInv
  BY InitHolds
<1>2. SchedInv /\ [Next]_vars => SchedInv'
  BY NextHolds
<1> QED
  BY <1>1, <1>2, PTL DEF Spec

(* find_victim(), __spu_deactivate() and the tick unload an SPU under one  *)
(* lock and load it under another, and no thread gets it in between: the   *)
(* test of spu->ctx in __spu_schedule() never fails.                       *)
THEOREM HandsExclusiveHolds == Spec => []HandsExclusive
<1>1. SchedInv => HandsExclusive
  BY DEF SchedInv
<1> QED
  BY <1>1, SchedInvHolds, PTL

(* spu->ctx and ctx->spu agree for every context the scheduler may         *)
(* preempt, and a loaded SPU is never taken for idle by spu_get_idle().    *)
THEOREM BindingExactHolds == Spec => []BindingExact
<1>1. SchedInv => BindingExact
  BY DEF SchedInv
<1> QED
  BY <1>1, SchedInvHolds, PTL

(* nr_waiting, the bitmap and the lists that __spu_add_to_rq() and         *)
(* __spu_del_from_rq() keep agree, and the timer is armed while a context  *)
(* waits.                                                                  *)
THEOREM QueueExactHolds == Spec => []QueueExact
<1>1. SchedInv => QueueExact
  BY DEF SchedInv
<1> QED
  BY <1>1, SchedInvHolds, PTL

(* The BUG_ON() of __spu_update_sched_info() is never reached by a context *)
(* that the scheduler may preempt.                                         *)
THEOREM UpdateNotQueuedHolds == Spec => []UpdateNotQueued
<1>1. SchedInv => UpdateNotQueued
  BY DEF SchedInv, RunInv, UpdateNotQueued, Queued
<1> QED
  BY <1>1, SchedInvHolds, PTL
-----------------------------------------------------------------------------
(* SPUs that are lost.                                                     *)

\* What SpuLostOnlyByHandover says of one SPU.
KeptOrHandedOver(s) ==
  Accounted(s) /\ ~Accounted(s)' =>
    \/ \E c \in NoSched : c \in Queued /\ c \notin Queued'
    \/ \E t \in Thread : /\ th[t].pc = "handover" /\ th[t].spu = s
                         /\ spus.spuOf[th[t].new] # NULL

(* A thread that gives SPU s to a context, or takes it, or has it in its   *)
(* hands, loses no other.                                                  *)
LEMMA KeptButOne ==
  ASSUME SchedInv, NEW t \in Thread, \A u \in Thread \ {t} : th'[u] = th[u],
         NEW s, InHand(t) \subseteq {s},
         \A r \in Spu \ {s} : /\ spus'.ctxOf[r] = spus.ctxOf[r]
                              /\ r \in spus'.used => r \in spus.used
  PROVE  \A r \in Spu \ {s} : Accounted(r) => Accounted(r)'
<1> SUFFICES ASSUME NEW r \in Spu \ {s}, Accounted(r), r \in spus'.used
             PROVE  spus'.ctxOf[r] # NULL \/ \E u \in Thread : r \in InHand(u)'
  BY DEF Accounted
<1>1. CASE spus.ctxOf[r] # NULL
  BY <1>1
<1>2. ASSUME NEW u \in Thread, r \in InHand(u)
      PROVE  r \in InHand(u)'
  <2>1. u # t
    BY <1>2
  <2>2. th'[u] = th[u]
    BY <2>1
  <2> QED
    BY <1>2, <2>2 DEF InHand
<1> QED
  BY <1>1, <1>2 DEF Accounted

(* The same, when the SPU ends up with a context or in a thread's hands.   *)
LEMMA KeptAll ==
  ASSUME SchedInv, NEW t \in Thread, \A u \in Thread \ {t} : th'[u] = th[u],
         NEW s, InHand(t) \subseteq {s},
         \A r \in Spu \ {s} : /\ spus'.ctxOf[r] = spus.ctxOf[r]
                              /\ r \in spus'.used => r \in spus.used,
         \/ s \notin spus'.used
         \/ spus'.ctxOf[s] # NULL
         \/ th'[t].pc \in {"load", "handover"} /\ th'[t].spu = s
  PROVE  \A r \in Spu : KeptOrHandedOver(r)
<1>1. \A r \in Spu \ {s} : Accounted(r) => Accounted(r)'
  BY KeptButOne
<1>2. Accounted(s)'
  BY DEF Accounted, InHand
<1> QED
  BY <1>1, <1>2 DEF KeptOrHandedOver

(* A thread without an SPU in its hands that leaves the SPUs alone.        *)
LEMMA KeptQuiet ==
  ASSUME SchedInv, NEW t \in Thread, \A u \in Thread \ {t} : th'[u] = th[u],
         th[t].pc \notin {"load", "handover"},
         spus'.ctxOf = spus.ctxOf, spus'.used = spus.used
  PROVE  \A r \in Spu : KeptOrHandedOver(r)
<1>1. InHand(t) \subseteq {NULL}
  BY DEF InHand
<1>2. \A r \in Spu \ {NULL} : Accounted(r) => Accounted(r)'
  BY <1>1, KeptButOne
<1> QED
  BY <1>2, Sorts DEF KeptOrHandedOver

(* The steps of spu_activate() that lose no SPU because they touch none.   *)
LEMMA ActivateKeeps ==
  ASSUME SchedInv, NEW t \in Ctx \cup Saver,
         \/ ActivateSignalled(t) \/ VictimNode(t) \/ ActivateQueue(t)
         \/ PrioWait(t) \/ Relock(t)
  PROVE  \A r \in Spu : KeptOrHandedOver(r)
<1>1. t \in Thread /\ DOMAIN th = Thread
  BY Sorts, ShapeNow
<1>2. \A u \in Thread \ {t} : th'[u] = th[u]
  BY <1>1 DEF ActivateSignalled, VictimNode, ActivateQueue, PrioWait, Relock,
     Interrupted, Activated, At, Rests
<1>3. th[t].pc \notin {"load", "handover"} /\ UNCHANGED spus
  BY DEF ActivateSignalled, VictimNode, ActivateQueue, PrioWait, Relock
<1> QED
  BY <1>1, <1>2, <1>3, KeptQuiet

(* spu_get_idle() asks the gang where to look, and loses no SPU.           *)
LEMMA GetIdleKeeps ==
  ASSUME SchedInv, NEW t \in Ctx \cup Saver, GetIdle(t)
  PROVE  \A r \in Spu : KeptOrHandedOver(r)
<1>1. t \in Thread /\ DOMAIN th = Thread /\ spus \in SpusType
  BY Sorts, ShapeNow
<1>2. \A u \in Thread \ {t} : th'[u] = th[u]
  BY <1>1 DEF GetIdle, Steps
<1>3. th[t].pc \notin {"load", "handover"}
  BY DEF GetIdle
<1>4. spus'.ctxOf = spus.ctxOf /\ spus'.used = spus.used
  BY <1>1 DEF GetIdle, SpusType
<1> QED
  BY <1>1, <1>2, <1>3, <1>4, KeptQuiet

(* An SPU that spu_get_idle() takes is in the hands of the thread.         *)
LEMMA TakesKeeps ==
  ASSUME SchedInv, NEW t \in Thread, NEW s, Takes(t, s),
         th[t].pc \notin {"load", "handover"}
  PROVE  \A r \in Spu : KeptOrHandedOver(r)
<1>1. DOMAIN th = Thread /\ spus \in SpusType
  BY ShapeNow
<1>2. \A u \in Thread \ {t} : th'[u] = th[u]
  BY <1>1 DEF Takes, Steps
<1>3. th'[t].pc = "load" /\ th'[t].spu = s
  BY <1>1 DEF Takes, Steps, Local
<1>4. spus'.ctxOf = spus.ctxOf /\ spus'.used = spus.used \cup {s}
  BY <1>1 DEF Takes, SpusType
<1>5. InHand(t) \subseteq {s}
  BY DEF InHand
<1> QED
  BY <1>2, <1>3, <1>4, <1>5, KeptAll

(* spu_get_idle() takes an SPU, or looks elsewhere.                        *)
LEMMA SearchKeeps ==
  ASSUME SchedInv, NEW t \in Ctx \cup Saver, TakeLocation(t) \/ ScanNode(t)
  PROVE  \A r \in Spu : KeptOrHandedOver(r)
<1>1. t \in Thread /\ DOMAIN th = Thread /\ spus \in SpusType
  BY Sorts, ShapeNow
<1>2. th[t].pc \notin {"load", "handover"}
  BY DEF TakeLocation, ScanNode
<1>3. CASE \E s : Takes(t, s)
  BY <1>1, <1>2, <1>3, TakesKeeps
<1>4. CASE ~ \E s : Takes(t, s)
  <2>1. \A u \in Thread \ {t} : th'[u] = th[u]
    BY <1>1, <1>4 DEF TakeLocation, ScanNode, Steps
  <2>2. spus'.ctxOf = spus.ctxOf /\ spus'.used = spus.used
    BY <1>1, <1>4 DEF TakeLocation, ScanNode, SpusType
  <2> QED
    BY <1>1, <1>2, <2>1, <2>2, KeptQuiet
<1> QED
  BY <1>3, <1>4

(* find_victim() keeps the SPU it unloads in its hands.                    *)
LEMMA VictimKeeps ==
  ASSUME SchedInv, NEW t \in Ctx \cup Saver, TryVictim(t)
  PROVE  \A r \in Spu : KeptOrHandedOver(r)
<1> DEFINE c == th[t].ctx
<1>1. t \in Thread /\ DOMAIN th = Thread /\ spus \in SpusType
  BY Sorts, ShapeNow
<1>2. th[t].pc = "trylock"
  BY DEF TryVictim
<1>3. PICK d \in Ctx : d = th[t].new
  BY <1>1, <1>2, ShapeNow DEF LocalsOf
<1>4. \A u \in Thread \ {t} : th'[u] = th[u]
  BY <1>1 DEF TryVictim, Steps
<1>5. CASE VictimLost(c, d)
  <2>1. UNCHANGED spus
    BY <1>3, <1>5 DEF TryVictim
  <2> QED
    BY <1>1, <1>2, <1>4, <2>1, KeptQuiet
<1>6. CASE ~VictimLost(c, d)
  <2>1. PICK s \in Spu : s = spus.spuOf[d]
    BY <1>6, ShapeNow DEF VictimLost
  <2>2. /\ spus' = Unload(spus, Head(th[t].todo), s, d)
        /\ th' = [th EXCEPT ![t] = Local("load", c, s, NULL, <<>>)]
    BY <1>3, <1>6, <2>1 DEF TryVictim, Steps
  <2>3. Unloaded(spus, spus', s, d) /\ spus'.used = spus.used
    BY <1>1, <2>2, UnloadEffect
  <2>4. \A r \in Spu \ {s} : spus'.ctxOf[r] = spus.ctxOf[r]
    BY <2>3, ShapeNow DEF Unloaded
  <2>5. th'[t].pc = "load" /\ th'[t].spu = s
    BY <1>1, <2>2 DEF Local
  <2>6. InHand(t) \subseteq {s}
    BY <1>2 DEF InHand
  <2> QED
    BY <1>1, <1>4, <2>3, <2>4, <2>5, <2>6, KeptAll
<1> QED
  BY <1>5, <1>6

(* An SPU that is loaded has a context.                                    *)
LEMMA LoadKeeps ==
  ASSUME SchedInv, NEW t \in Thread, th[t].pc \in {"load", "handover"},
         NEW c \in Ctx, NEW s \in Spu, s = th[t].spu,
         spus' = Load(spus, s, c), \A u \in Thread \ {t} : th'[u] = th[u]
  PROVE  \A r \in Spu : KeptOrHandedOver(r)
<1>1. spus.ctxOf[s] = NULL /\ InHand(t) = {s}
  BY DEF SchedInv, HandsExclusive, InHand
<1>2. LoadedOn(spus, spus', s, c)
  BY <1>1, LoadEffect, ShapeNow, QueueNow
<1>3. /\ \A r \in Spu \ {s} : /\ spus'.ctxOf[r] = spus.ctxOf[r]
                              /\ r \in spus'.used => r \in spus.used
      /\ spus'.ctxOf[s] # NULL
  BY <1>2, ShapeNow, Sorts DEF LoadedOn
<1> QED
  BY <1>1, <1>3, KeptAll

(* spu_activate() loads the context.                                       *)
LEMMA ActivateLoadKeeps ==
  ASSUME SchedInv, NEW t \in Ctx \cup Saver, ActivateLoad(t)
  PROVE  \A r \in Spu : KeptOrHandedOver(r)
<1>1. t \in Thread /\ DOMAIN th = Thread /\ th[t].pc = "load"
  BY Sorts, ShapeNow DEF ActivateLoad
<1>2. LocalsOf(t, th[t])
  BY <1>1, ShapeNow
<1>3. PICK s \in Spu : s = th[t].spu
  BY <1>1, <1>2 DEF LocalsOf
<1>4. PICK c \in Ctx : c = th[t].ctx
  BY <1>1, <1>2 DEF LocalsOf, Holding, Activating
<1>5. spus' = Load(spus, s, c)
  BY <1>3, <1>4 DEF ActivateLoad
<1>6. \A u \in Thread \ {t} : th'[u] = th[u]
  BY <1>1 DEF ActivateLoad, Activated, At, Rests
<1> QED
  BY <1>1, <1>3, <1>5, <1>6, LoadKeeps

(* spu_schedule() loads the context it was given, or loses the SPU since   *)
(* the context has another by now.                                         *)
LEMMA ScheduleKeeps ==
  ASSUME SchedInv, NEW t \in Thread, spu_schedule(t)
  PROVE  \A r \in Spu : KeptOrHandedOver(r)
<1>1. DOMAIN th = Thread /\ th[t].pc = "handover" /\ LocalsOf(t, th[t])
  BY ShapeNow DEF spu_schedule
<1>2. PICK s \in Spu : s = th[t].spu
  BY <1>1 DEF LocalsOf
<1>3. PICK d \in Ctx : d = th[t].new
  BY <1>1 DEF LocalsOf
<1>4. \A u \in Thread \ {t} : th'[u] = th[u]
  BY <1>1 DEF spu_schedule, Steps
<1>5. CASE spus.spuOf[d] = NULL
  <2>1. spus' = Load(spus, s, d)
    BY <1>2, <1>3, <1>5 DEF spu_schedule
  <2> QED
    BY <1>1, <1>2, <1>4, <2>1, LoadKeeps
<1>6. CASE spus.spuOf[d] # NULL
  <2>1. UNCHANGED spus
    BY <1>3, <1>6 DEF spu_schedule
  <2>2. InHand(t) \subseteq {s}
    BY <1>2 DEF InHand
  <2>3. \A r \in Spu \ {s} : Accounted(r) => Accounted(r)'
    BY <1>4, <2>1, <2>2, KeptButOne
  <2>4. KeptOrHandedOver(s)
    BY <1>1, <1>2, <1>3, <1>6 DEF KeptOrHandedOver
  <2> QED
    BY <2>3, <2>4 DEF KeptOrHandedOver
<1> QED
  BY <1>5, <1>6

(* __spu_deactivate() makes the SPU free, has it in its hands, or wakes a  *)
(* SPU_CREATE_NOSCHED context and gives it nothing.                        *)
LEMMA DeactivateKeeps ==
  ASSUME SchedInv, NEW t \in Thread, th[t].pc \notin {"load", "handover"},
         NEW c \in Ctx, NEW force, NEW end, NEW own,
         __spu_deactivate(t, c, force, end, own), UNCHANGED info
  PROVE  \A r \in Spu : KeptOrHandedOver(r)
<1>1. DOMAIN th = Thread /\ spus \in SpusType
  BY ShapeNow
<1>2. \A u \in Thread \ {t} : th'[u] = th[u]
  BY <1>1 DEF __spu_deactivate, Steps
<1>3. PICK s \in Spu \cup {NULL} : s = spus.spuOf[c]
  BY ShapeNow
<1>4. PICK new : new = IF s = NULL THEN NULL
                 ELSE grab_runnable_context(spu_prio, MAX_PRIO, NodeOf(s))
  OBVIOUS
<1>5. new \in Queued \cup {NULL} /\ new \in Ctx \cup {NULL}
  <2>1. MAX_PRIO \in Int /\ MAX_PRIO <= MAX_PRIO
    BY PrioAssumption
  <2>2. grab_runnable_context(spu_prio, MAX_PRIO, NodeOf(s))
          \in QueuedIn(spu_prio) \cup {NULL}
    BY <2>1, QueueNow, Grabbed
  <2> QED
    BY <1>4, <2>2, QueueNow DEF Queued
<1>6. CASE UNCHANGED spus
  BY <1>2, <1>6, KeptQuiet
<1>7. CASE /\ s # NULL
           /\ spus' = spu_unschedule(spus, s, c, new = NULL)
           /\ spu_prio' = __spu_del_from_rq(spu_prio, new)
           /\ \/ new \in NoSched \cup {NULL}
              \/ th' = [th EXCEPT ![t] = Local("handover", c, s, new, <<>>)]
  <2>1. s \in Spu
    BY <1>3, <1>7
  <2>2. PICK free \in BOOLEAN : free <=> new = NULL
    OBVIOUS
  <2>3. Unscheduled(spus, spus', s, c, free)
    <3>1. spus' = spu_unschedule(spus, s, c, free)
      BY <1>7, <2>2
    <3>2. Unscheduled(spus, spu_unschedule(spus, s, c, free), s, c, free)
      BY <1>1, <2>1, UnscheduleEffect
    <3> QED
      BY <3>1, <3>2
  <2>4. /\ \A r \in Spu \ {s} : /\ spus'.ctxOf[r] = spus.ctxOf[r]
                                /\ r \in spus'.used => r \in spus.used
        /\ new = NULL => s \notin spus'.used
    BY <2>2, <2>3, ShapeNow DEF Unscheduled, Unloaded
  <2>5. InHand(t) \subseteq {s}
    BY DEF InHand
  <2>6. CASE new = NULL
    BY <1>2, <2>4, <2>5, <2>6, KeptAll
  <2>7. CASE new \in NoSched
    <3>1. new \in Queued /\ new \in Ctx
      BY <1>5, <2>7, Sorts
    <3>2. PICK q : q = __spu_del_from_rq(spu_prio, new)
      OBVIOUS
    <3>3. QueueOK(q) /\ QueuedIn(q) = Queued \ {new}
      BY <3>1, <3>2, QueueNow, DelFromRq
    <3>4. Queued' = QueuedIn(q)
      BY <1>7, <3>2, <3>3, QueueThen
    <3> QED
      BY <2>7, <3>1, <3>3, <3>4 DEF KeptOrHandedOver
  <2>8. CASE th' = [th EXCEPT ![t] = Local("handover", c, s, new, <<>>)]
    <3>1. th'[t].pc = "handover" /\ th'[t].spu = s
      BY <1>1, <2>8 DEF Local
    <3> QED
      BY <1>2, <2>4, <2>5, <3>1, KeptAll
  <2> QED
    BY <1>7, <2>6, <2>7, <2>8
<1> QED
  BY <1>3, <1>4, <1>6, <1>7 DEF __spu_deactivate, Steps

(* spu_yield() and spu_acquire_saved().                                    *)
LEMMA UnloadsKeep ==
  ASSUME SchedInv,
         \/ \E t \in Ctx : spu_yield(t)
         \/ \E t \in Saver, c \in Saved : SaveBegins(t, c)
  PROVE  \A r \in Spu : KeptOrHandedOver(r)
<1>1. ASSUME NEW t \in Ctx, spu_yield(t)
      PROVE  \A r \in Spu : KeptOrHandedOver(r)
  <2>1. /\ t \in Thread /\ th[t].pc \notin {"load", "handover"}
        /\ __spu_deactivate(t, t, FALSE, Idle, NULL) /\ UNCHANGED info
    BY <1>1, Sorts DEF spu_yield
  <2> QED
    BY <2>1, DeactivateKeeps
<1>2. ASSUME NEW t \in Saver, NEW c \in Saved, SaveBegins(t, c)
      PROVE  \A r \in Spu : KeptOrHandedOver(r)
  <2>1. PICK end : end = Local("saved", c, NULL, NULL, <<>>)
    OBVIOUS
  <2>2. /\ t \in Thread /\ c \in Ctx /\ th[t].pc \notin {"load", "handover"}
        /\ __spu_deactivate(t, c, TRUE, end, t) /\ UNCHANGED info
    BY <1>2, <2>1, Sorts DEF SaveBegins
  <2> QED
    BY <2>2, DeactivateKeeps
<1> QED
  BY <1>1, <1>2

(* The callers in run.c and context.c lose no SPU.                         *)
LEMMA CallersKeep ==
  ASSUME SchedInv,
         \/ \E t \in Ctx : RunLoaded(t) \/ RunSaved(t) \/ RunEnds(t)
         \/ \E t \in Saver : SaveRetakes(t) \/ SaveEnds(t)
  PROVE  \A r \in Spu : KeptOrHandedOver(r)
<1>1. PICK t \in Ctx \cup Saver : \/ RunLoaded(t) \/ RunSaved(t) \/ RunEnds(t)
                                  \/ SaveRetakes(t) \/ SaveEnds(t)
  OBVIOUS
<1>2. t \in Thread /\ DOMAIN th = Thread /\ spus \in SpusType
  BY Sorts, ShapeNow
<1>3. \A u \in Thread \ {t} : th'[u] = th[u]
  BY <1>1, <1>2 DEF RunLoaded, RunSaved, RunEnds, SaveRetakes, SaveEnds, Steps,
     At, Rests
<1>4. th[t].pc \notin {"load", "handover"}
  BY <1>1 DEF RunLoaded, RunSaved, RunEnds, SaveRetakes, SaveEnds
<1>5. spus'.ctxOf = spus.ctxOf /\ spus'.used = spus.used
  <2>1. \A user \in BOOLEAN : spus' = spuctx_switch_state(spus, t, user) =>
          spus'.ctxOf = spus.ctxOf /\ spus'.used = spus.used
    BY <1>2 DEF spuctx_switch_state, SpusType
  <2> QED
    BY <1>1, <2>1 DEF RunLoaded, RunSaved, RunEnds, SaveRetakes, SaveEnds
<1> QED
  BY <1>2, <1>3, <1>4, <1>5, KeptQuiet

(* The spusched thread keeps the SPU of a context it preempts.             *)
LEMMA TickKeeps ==
  ASSUME SchedInv, spusched_wake \/ spusched_thread \/ spusched_tick
  PROVE  \A r \in Spu : KeptOrHandedOver(r)
<1>1. spusched \in Thread /\ DOMAIN th = Thread /\ spus \in SpusType
  BY Sorts, ShapeNow
<1>2. \A u \in Thread \ {spusched} : th'[u] = th[u]
  BY <1>1 DEF spusched_wake, spusched_thread, spusched_tick, Steps, Rests
<1>3. th[spusched].pc \notin {"load", "handover"}
  BY DEF spusched_wake, spusched_thread, spusched_tick
<1>4. CASE UNCHANGED spus
  BY <1>1, <1>2, <1>3, <1>4, KeptQuiet
<1>5. CASE spusched_tick
  <2>1. PICK c \in Ctx : c = th[spusched].new
    BY <1>1, <1>5, ShapeNow DEF spusched_tick, LocalsOf
  <2>2. PICK s \in Spu \cup {NULL} : s = spus.spuOf[c]
    BY ShapeNow
  <2>3. PICK ticked : ticked = [spus EXCEPT !.time_slice[c] = @ - 1]
    OBVIOUS
  <2>4. /\ ticked \in SpusType /\ ticked.ctxOf = spus.ctxOf
        /\ ticked.used = spus.used
    <3>1. PICK v \in Int : v = spus.time_slice[c] - 1
      BY ShapeNow
    <3> QED
      BY <2>3, <3>1, ShapeNow DEF SpusType
  <2>5. PICK new : new = grab_runnable_context(spu_prio, info[c].prio + 1, NodeOf(s))
    OBVIOUS
  <2>6. PICK todo : todo = th[spusched].todo
    OBVIOUS
  <2>7. CASE spus' = [ticked EXCEPT !.time_slice[c] = Max({@, 1})]
    <3>1. spus'.ctxOf = spus.ctxOf /\ spus'.used = spus.used
      BY <2>4, <2>7 DEF SpusType
    <3> QED
      BY <1>1, <1>2, <1>3, <3>1, KeptQuiet
  <2>8. CASE /\ s # NULL
             /\ spus' = spu_unschedule(ticked, s, c, FALSE)
             /\ th' = [th EXCEPT ![spusched] =
                         Local("handover", NULL, s, new, todo)]
    <3>1. s \in Spu /\ FALSE \in BOOLEAN
      BY <2>2, <2>8
    <3>2. Unscheduled(ticked, spu_unschedule(ticked, s, c, FALSE), s, c, FALSE)
      BY <2>4, <3>1, UnscheduleEffect
    <3>3. /\ spus'.ctxOf = [spus.ctxOf EXCEPT ![s] = NULL]
          /\ spus'.used = spus.used
      BY <2>4, <2>8, <3>2 DEF Unscheduled, Unloaded
    <3>4. \A r \in Spu \ {s} : spus'.ctxOf[r] = spus.ctxOf[r]
      BY <3>3, ShapeNow
    <3>5. th'[spusched].pc = "handover" /\ th'[spusched].spu = s
      BY <1>1, <2>8 DEF Local
    <3>6. InHand(spusched) \subseteq {s}
      BY <1>3 DEF InHand
    <3> QED
      BY <1>1, <1>2, <3>3, <3>4, <3>5, <3>6, KeptAll
  <2> QED
    BY <1>4, <1>5, <2>1, <2>2, <2>3, <2>5, <2>6, <2>7, <2>8
       DEF spusched_tick, Steps
<1> QED
  BY <1>4, <1>5 DEF spusched_wake, spusched_thread

(* A step that leaves SPUs and threads alone loses no SPU.                 *)
LEMMA IdleKeeps ==
  ASSUME UNCHANGED <<spus, th>>
  PROVE  \A r \in Spu : KeptOrHandedOver(r)
BY DEF KeptOrHandedOver, Accounted, InHand

(* No step of the scheduler loses an SPU but by a handover.                *)
LEMMA NextKeeps ==
  ASSUME SchedInv, [Next]_vars
  PROVE  \A r \in Spu : KeptOrHandedOver(r)
<1>1. CASE UNCHANGED vars
  BY <1>1, IdleKeeps DEF vars
<1>2. ASSUME NEW t \in Ctx \cup Saver, Activate(t)
      PROVE  \A r \in Spu : KeptOrHandedOver(r)
  BY <1>2, ActivateKeeps, GetIdleKeeps, SearchKeeps, VictimKeeps,
     ActivateLoadKeeps DEF Activate
<1>3. ASSUME NEW t \in Ctx,
             RunLoaded(t) \/ RunSaved(t) \/ RunEnds(t) \/ spu_yield(t)
      PROVE  \A r \in Spu : KeptOrHandedOver(r)
  BY <1>3, CallersKeep, UnloadsKeep
<1>4. ASSUME NEW t \in Saver,
             \/ \E c \in Saved : SaveBegins(t, c)
             \/ SaveRetakes(t) \/ SaveEnds(t)
      PROVE  \A r \in Spu : KeptOrHandedOver(r)
  BY <1>4, CallersKeep, UnloadsKeep
<1>5. ASSUME NEW t \in Thread, spu_schedule(t)
      PROVE  \A r \in Spu : KeptOrHandedOver(r)
  BY <1>5, ScheduleKeeps
<1>6. ASSUME NEW n \in Node, do_notify_spus_active(n)
      PROVE  \A r \in Spu : KeptOrHandedOver(r)
  BY <1>6, IdleKeeps DEF do_notify_spus_active
<1>7. CASE spusched_wake \/ spusched_thread \/ spusched_tick
  BY <1>7, TickKeeps
<1> QED
  BY <1>1, <1>2, <1>3, <1>4, <1>5, <1>6, <1>7 DEF Next

(* An SPU that spu_unschedule() does not make free gets a context, unless  *)
(* the one grabbed is SPU_CREATE_NOSCHED or has another SPU when           *)
(* spu_schedule() comes to lock it: there is no third way to lose an SPU.  *)
THEOREM SpuLostOnlyByHandoverHolds == Spec => SpuLostOnlyByHandover
<1>1. SchedInv /\ [Next]_vars =>
        [\A s \in Spu : Accounted(s) /\ ~Accounted(s)' =>
           \/ \E c \in NoSched : c \in Queued /\ c \notin Queued'
           \/ \E t \in Thread : /\ th[t].pc = "handover" /\ th[t].spu = s
                                /\ spus.spuOf[th[t].new] # NULL]_vars
  BY NextKeeps DEF KeptOrHandedOver
<1> QED
  BY <1>1, SchedInvHolds, PTL DEF Spec, SpuLostOnlyByHandover
-----------------------------------------------------------------------------
(* Sums.  SumFunction() adds up the values of a function in an order that  *)
(* nobody knows, by a recursion over the subsets of its domain.  That the  *)
(* sums exist, and what a change at one place does to them, is shown for   *)
(* the subsets with at most m elements, for every m: induction on m, in    *)
(* the form that a set of naturals with 0 and every successor is Nat.      *)

\* The element at which a sum is split, and the sums of f over the subsets
\* of S.
Pick(s) == CHOOSE x \in s : TRUE
Sums(f, S, g) ==
  g = [s \in SUBSET S |-> IF s = {} THEN 0 ELSE f[Pick(s)] + g[s \ {Pick(s)}]]

(* What SumFunction() is: the recursive function of Folds, on the domain   *)
(* of f.                                                                   *)
LEMMA SumIs ==
  ASSUME NEW f
  PROVE  SumFunction(f) = (CHOOSE g : Sums(f, DOMAIN f, g))[DOMAIN f]
BY DEF SumFunction, SumFunctionOnSet, FoldFunctionOnSet, MapThenFoldSet, Sums, Pick

(* A set of naturals that has 0 and each successor is Nat.                 *)
LEMMA AllNaturals ==
  ASSUME NEW A \in SUBSET Nat, 0 \in A, \A m \in A : m + 1 \in A
  PROVE  A = Nat
<1> SUFFICES ASSUME Nat \ A # {} PROVE FALSE
  OBVIOUS
<1>1. IsWellFoundedOn(OpToRel(<, Nat), Nat)
  BY NatLessThanWellFounded
<1>2. PICK x \in Nat \ A : \A y \in Nat \ A : ~(<<y, x>> \in OpToRel(<, Nat))
  BY <1>1, WFMin
<1>3. \A y \in Nat : <<y, x>> \in OpToRel(<, Nat) <=> y < x
  BY DEF OpToRel
<1>4. \A y \in Nat \ A : ~(y < x)
  BY <1>2, <1>3, Zenon
<1> HIDE <1>1, <1>2, <1>3
<1>5. x - 1 \in Nat /\ x - 1 \in A
  BY <1>4
<1> QED
  BY <1>5

(* An element of a set that has one.                                       *)
LEMMA PickIn ==
  ASSUME NEW s, s # {}
  PROVE  Pick(s) \in s
BY Zenon DEF Pick

\* The subsets of S with at most m elements, and the sums over them.
Small(S, m) == {s \in SUBSET S : Cardinality(s) <= m}
Part(f, S, m, g) ==
  g = [s \in Small(S, m) |-> IF s = {} THEN 0 ELSE f[Pick(s)] + g[s \ {Pick(s)}]]

(* A set without one of its elements is smaller.                           *)
LEMMA SmallNext ==
  ASSUME NEW S, IsFiniteSet(S), NEW m \in Nat, NEW s \in Small(S, m + 1), s # {}
  PROVE  s \ {Pick(s)} \in Small(S, m)
<1>1. Pick(s) \in s /\ s \subseteq S
  BY PickIn DEF Small
<1>2. IsFiniteSet(s)
  BY <1>1, FS_Subset
<1>3. Cardinality(s \ {Pick(s)}) = Cardinality(s) - 1
  BY <1>1, <1>2, FS_RemoveElement
<1>4. Cardinality(s) \in Nat /\ Cardinality(s) <= m + 1
  BY <1>2, FS_CardinalityType DEF Small
<1> QED
  BY <1>1, <1>3, <1>4 DEF Small

(* A set with no element is empty.                                         *)
LEMMA SmallNone ==
  ASSUME NEW S, IsFiniteSet(S), NEW s \in Small(S, 0)
  PROVE  s = {}
<1>1. s \subseteq S /\ Cardinality(s) <= 0
  BY DEF Small
<1>2. IsFiniteSet(s)
  BY <1>1, FS_Subset
<1>3. Cardinality(s) \in Nat
  BY <1>2, FS_CardinalityType
<1>4. Cardinality(s) = 0
  BY <1>1, <1>3
<1> QED
  BY <1>2, <1>4, FS_EmptySet

(* A small set is a small set of a greater bound.                          *)
LEMMA SmallMore ==
  ASSUME NEW S, IsFiniteSet(S), NEW m \in Nat, NEW s \in Small(S, m)
  PROVE  s \in Small(S, m + 1)
<1>1. s \subseteq S /\ Cardinality(s) <= m
  BY DEF Small
<1>2. IsFiniteSet(s)
  BY <1>1, FS_Subset
<1>3. Cardinality(s) \in Nat
  BY <1>2, FS_CardinalityType
<1> QED
  BY <1>1, <1>3 DEF Small

(* What a sum of a small set is made of.                                   *)
LEMMA PartAt ==
  ASSUME NEW f, NEW S, NEW m, NEW g, Part(f, S, m, g), NEW s \in Small(S, m)
  PROVE  g[s] = IF s = {} THEN 0 ELSE f[Pick(s)] + g[s \ {Pick(s)}]
BY Zenon DEF Part

(* There are sums over the small sets, whatever the bound.                 *)
LEMMA PartExists ==
  ASSUME NEW f, NEW S, IsFiniteSet(S), NEW m \in Nat
  PROVE  \E g : Part(f, S, m, g)
<1> DEFINE A == {i \in Nat : \E g : Part(f, S, i, g)}
<1>1. 0 \in A
  <2> DEFINE g == [s \in Small(S, 0) |-> 0]
  <2>1. g = [s \in Small(S, 0) |-> IF s = {} THEN 0
                                   ELSE f[Pick(s)] + g[s \ {Pick(s)}]]
    BY SmallNone
  <2>2. Part(f, S, 0, g)
    BY <2>1, Zenon DEF Part
  <2> QED
    BY <2>2
<1>2. ASSUME NEW i \in A PROVE i + 1 \in A
  <2>1. PICK g : Part(f, S, i, g)
    BY <1>2
  <2> DEFINE h == [s \in Small(S, i + 1) |-> IF s = {} THEN 0
                                            ELSE f[Pick(s)] + g[s \ {Pick(s)}]]
  <2>2. ASSUME NEW s \in Small(S, i)
        PROVE  h[s] = g[s]
    BY <2>1, <2>2, PartAt, SmallMore
  <2>3. ASSUME NEW s \in Small(S, i + 1), s # {}
        PROVE  h[s \ {Pick(s)}] = g[s \ {Pick(s)}]
    BY <2>2, <2>3, SmallNext
  <2>4. h = [s \in Small(S, i + 1) |-> IF s = {} THEN 0
                                      ELSE f[Pick(s)] + h[s \ {Pick(s)}]]
    BY <2>3, Zenon
  <2>5. Part(f, S, i + 1, h)
    BY <2>4, Zenon DEF Part
  <2> HIDE DEF h
  <2> QED
    BY <2>5
<1>3. A = Nat
  <2> HIDE DEF A
  <2>1. \A i \in A : i + 1 \in A
    BY <1>2
  <2>2. A \in SUBSET Nat
    BY DEF A
  <2> QED
    BY <1>1, <2>1, <2>2, AllNaturals
<1> QED
  BY <1>3

(* There are sums over all the subsets of a finite set.                    *)
LEMMA SumsExist ==
  ASSUME NEW f, NEW S, IsFiniteSet(S)
  PROVE  \E g : Sums(f, S, g)
<1>1. PICK m \in Nat : m = Cardinality(S)
  BY FS_CardinalityType
<1>2. PICK g : Part(f, S, m, g)
  BY PartExists
<1>3. Small(S, m) = SUBSET S
  <2>1. ASSUME NEW s \in SUBSET S PROVE Cardinality(s) <= m
    BY <1>1, FS_Subset
  <2> QED
    BY <2>1 DEF Small
<1> QED
  BY <1>2, <1>3 DEF Part, Sums

(* What a sum is made of.                                                  *)
LEMMA SumsAt ==
  ASSUME NEW f, NEW S, NEW g, Sums(f, S, g), NEW s \in SUBSET S
  PROVE  g[s] = IF s = {} THEN 0 ELSE f[Pick(s)] + g[s \ {Pick(s)}]
BY Zenon DEF Sums

\* f and h differ at n only, by d.
Differ(f, h, S, n, d) == \A x \in S : h[x] = f[x] + (IF x = n THEN d ELSE 0)

(* The sums of two functions that differ by d at n: those over sets with n *)
(* differ by d, the others are equal.                                      *)
LEMMA SumsDiffer ==
  ASSUME NEW S, IsFiniteSet(S), NEW f \in [S -> Int], NEW h \in [S -> Int],
         NEW n, NEW d \in Int,
         Differ(f, h, S, n, d), NEW g, Sums(f, S, g), NEW k, Sums(h, S, k), NEW m \in Nat
  PROVE  \A s \in Small(S, m) :
           g[s] \in Int /\ k[s] = g[s] + (IF n \in s THEN d ELSE 0)
<1> DEFINE Good(s) == g[s] \in Int /\ k[s] = g[s] + (IF n \in s THEN d ELSE 0)
           A == {i \in Nat : \A s \in Small(S, i) : Good(s)}
<1>1. 0 \in A
  <2>1. ASSUME NEW s \in Small(S, 0) PROVE Good(s)
    <3>1. s = {} /\ s \in SUBSET S
      BY SmallNone DEF Small
    <3>2. g[s] = 0 /\ k[s] = 0
      BY <3>1, SumsAt
    <3> QED
      BY <3>1, <3>2
  <2> QED
    BY <2>1
<1>2. ASSUME NEW i \in A PROVE i + 1 \in A
  <2>1. ASSUME NEW s \in Small(S, i + 1) PROVE Good(s)
    <3>1. s \in SUBSET S
      BY DEF Small
    <3>2. CASE s = {}
      <4>1. g[s] = 0 /\ k[s] = 0
        BY <3>1, <3>2, SumsAt
      <4> QED
        BY <3>2, <4>1
    <3>3. CASE s # {}
      <4>1. PICK x : x = Pick(s)
        OBVIOUS
      <4>2. PICK r : r = s \ {x}
        OBVIOUS
      <4>3. x \in s /\ x \in S /\ r \in Small(S, i)
        BY <3>1, <3>3, <4>1, <4>2, PickIn, SmallNext
      <4>4. g[s] = f[x] + g[r] /\ k[s] = h[x] + k[r]
        <5>1. g[s] = IF s = {} THEN 0 ELSE f[Pick(s)] + g[s \ {Pick(s)}]
          BY <3>1, Zenon DEF Sums
        <5>2. k[s] = IF s = {} THEN 0 ELSE h[Pick(s)] + k[s \ {Pick(s)}]
          BY <3>1, Zenon DEF Sums
        <5> QED
          BY <3>3, <4>1, <4>2, <5>1, <5>2
      <4>5. g[r] \in Int /\ k[r] = g[r] + (IF n \in r THEN d ELSE 0)
        BY <1>2, <4>3
      <4>6. f[x] \in Int /\ h[x] = f[x] + (IF x = n THEN d ELSE 0)
        BY <4>3 DEF Differ
      <4>7. n \in s <=> n \in r \/ n = x
        BY <4>2, <4>3
      <4>8. n = x => n \notin r
        BY <4>2
      <4> QED
        BY <4>4, <4>5, <4>6, <4>7, <4>8
    <3> QED
      BY <3>2, <3>3
  <2> QED
    BY <2>1
<1>3. A = Nat
  <2> HIDE DEF A
  <2>1. \A i \in A : i + 1 \in A
    BY <1>2
  <2>2. A \in SUBSET Nat
    BY DEF A
  <2> QED
    BY <1>1, <2>1, <2>2, AllNaturals
<1> QED
  BY <1>3

(* A function is changed by d at one place: so is its sum.                 *)
LEMMA SumChanges ==
  ASSUME NEW S, IsFiniteSet(S), NEW f \in [S -> Int], NEW h \in [S -> Int],
         NEW n \in S, NEW d \in Int,
         Differ(f, h, S, n, d)
  PROVE  /\ SumFunction(f) \in Int
         /\ SumFunction(h) = SumFunction(f) + d
<1>1. PICK g : g = CHOOSE z : Sums(f, S, z)
  OBVIOUS
<1>2. PICK k : k = CHOOSE z : Sums(h, S, z)
  OBVIOUS
<1>3. Sums(f, S, g) /\ Sums(h, S, k)
  BY <1>1, <1>2, SumsExist, Zenon
<1>4. PICK m \in Nat : m = Cardinality(S)
  BY FS_CardinalityType
<1>5. S \in Small(S, m)
  BY <1>4 DEF Small
<1>6. g[S] \in Int /\ k[S] = g[S] + d
  <2>1. \A s \in Small(S, m) : g[s] \in Int /\ k[s] = g[s] + (IF n \in s THEN d ELSE 0)
    BY <1>3, SumsDiffer
  <2> QED
    BY <1>5, <2>1
<1>7. DOMAIN f = S /\ DOMAIN h = S
  OBVIOUS
<1>8. SumFunction(f) = g[S] /\ SumFunction(h) = k[S]
  BY <1>1, <1>2, <1>7, SumIs, Zenon
<1> QED
  BY <1>6, <1>8

(* The sum of zeros.                                                       *)
LEMMA SumZero ==
  ASSUME NEW S, IsFiniteSet(S), NEW f \in [S -> Int], \A x \in S : f[x] = 0
  PROVE  SumFunction(f) = 0
<1>1. PICK g : g = CHOOSE z : Sums(f, S, z)
  OBVIOUS
<1>2. Sums(f, S, g)
  BY <1>1, SumsExist, Zenon
<1> DEFINE A == {i \in Nat : \A s \in Small(S, i) : g[s] = 0}
<1>3. 0 \in A
  <2>1. ASSUME NEW s \in Small(S, 0) PROVE g[s] = 0
    <3>1. s = {} /\ s \in SUBSET S
      BY SmallNone DEF Small
    <3> QED
      BY <1>2, <3>1, SumsAt
  <2> QED
    BY <2>1
<1>4. ASSUME NEW i \in A PROVE i + 1 \in A
  <2>1. ASSUME NEW s \in Small(S, i + 1) PROVE g[s] = 0
    <3>1. s \in SUBSET S
      BY DEF Small
    <3>2. CASE s = {}
      BY <1>2, <3>1, <3>2, SumsAt
    <3>3. CASE s # {}
      <4>1. PICK x : x = Pick(s)
        OBVIOUS
      <4>2. PICK r : r = s \ {x}
        OBVIOUS
      <4>3. x \in S /\ r \in Small(S, i)
        BY <3>1, <3>3, <4>1, <4>2, PickIn, SmallNext
      <4>4. g[s] = f[x] + g[r]
        <5>1. g[s] = IF s = {} THEN 0 ELSE f[Pick(s)] + g[s \ {Pick(s)}]
          BY <1>2, <3>1, SumsAt
        <5> QED
          BY <3>3, <4>1, <4>2, <5>1
      <4>5. g[r] = 0 /\ f[x] = 0
        BY <1>4, <4>3
      <4> QED
        BY <4>4, <4>5
    <3> QED
      BY <3>2, <3>3
  <2> QED
    BY <2>1
<1>5. A = Nat
  <2> HIDE DEF A
  <2>1. \A i \in A : i + 1 \in A
    BY <1>4
  <2>2. A \in SUBSET Nat
    BY DEF A
  <2> QED
    BY <1>3, <2>1, <2>2, AllNaturals
<1>6. PICK m \in Nat : m = Cardinality(S)
  BY FS_CardinalityType
<1>7. S \in Small(S, m)
  BY <1>6 DEF Small
<1>8. g[S] = 0
  BY <1>5, <1>7
<1>9. DOMAIN f = S
  OBVIOUS
<1> QED
  BY <1>1, <1>8, <1>9, SumIs, Zenon

-----------------------------------------------------------------------------
(* What is counted is finite.                                              *)

(* The SPUs, those of a node, and the threads are finitely many.           *)
LEMMA Finite ==
  /\ IsFiniteSet(Spu) /\ IsFiniteSet(Thread) /\ IsFiniteSet(Node)
  /\ \A n \in Node : IsFiniteSet(Range(SpuList[n]))
<1>1. IsFiniteSet(Node)
  BY SpusAssumption, FS_Interval DEF Node
<1>2. ASSUME NEW n \in Node
      PROVE  IsFiniteSet(Range(SpuList[n]))
  <2>1. SpuList[n] \in Seq(Spu)
    BY SpuNodes
  <2>2. PICK k \in Nat : DOMAIN SpuList[n] = 1 .. k
    BY <2>1
  <2>3. IsFiniteSet(1 .. k)
    BY FS_Interval
  <2>4. Range(SpuList[n]) = {SpuList[n][i] : i \in 1 .. k}
    BY <2>2 DEF Range
  <2>5. IsFiniteSet({SpuList[n][i] : i \in 1 .. k})
    <3> DEFINE f == [i \in 1 .. k |-> SpuList[n][i]]
               R == {SpuList[n][i] : i \in 1 .. k}
    <3>1. f \in Surjection(1 .. k, R)
      BY DEF Surjection
    <3> HIDE DEF f, R
    <3>2. IsFiniteSet(R)
      BY <2>3, <3>1, FS_Surjection
    <3> QED
      BY <3>2 DEF R
  <2> QED
    BY <2>4, <2>5
<1>3. IsFiniteSet(Spu)
  <2> DEFINE K == {Range(SpuList[n]) : n \in Node}
             f == [n \in Node |-> Range(SpuList[n])]
  <2>1. f \in Surjection(Node, K)
    BY DEF Surjection
  <2>2. \A R \in K : IsFiniteSet(R)
    BY <1>2
  <2>3. Spu = UNION K
    BY DEF Spu
  <2> HIDE DEF f, K
  <2>4. IsFiniteSet(K)
    BY <1>1, <2>1, FS_Surjection
  <2>5. IsFiniteSet(UNION K)
    BY <2>2, <2>4, FS_UNION
  <2> QED
    BY <2>3, <2>5
<1>4. IsFiniteSet(Thread)
  BY CtxAssumption, FS_Union, FS_Singleton DEF Thread
<1> QED
  BY <1>1, <1>2, <1>3, <1>4

(* An SPU is on the list of its node and on no other.                      *)
LEMMA NodeUnique ==
  ASSUME NEW s \in Spu, NEW n \in Node
  PROVE  s \in Range(SpuList[n]) <=> n = NodeOf(s)
<1>1. NodeOf(s) \in Node /\ s \in Range(SpuList[NodeOf(s)])
  BY SpuNodes
<1>2. n # NodeOf(s) => Range(SpuList[n]) \cap Range(SpuList[NodeOf(s)]) = {}
  BY <1>1, SpusAssumption
<1> QED
  BY <1>1, <1>2

(* One element more.                                                       *)
LEMMA CountMore ==
  ASSUME NEW S, IsFiniteSet(S), NEW T, NEW x, NEW b \in {0, 1},
         T = IF b = 1 THEN S \cup {x} ELSE S, b = 1 => x \notin S
  PROVE  /\ Cardinality(S) \in Nat
         /\ Cardinality(T) = Cardinality(S) + b
BY FS_AddElement, FS_CardinalityType

\* SPU s has no context in l, and has context c in m; the others have the
\* same context in both.
OneMore(l, m, s, c) ==
  /\ l \in SpusType /\ m \in SpusType
  /\ s \in Spu /\ c \in Ctx
  /\ l.ctxOf[s] = NULL /\ m.ctxOf[s] = c
  /\ \A r \in Spu \ {s} : m.ctxOf[r] = l.ctxOf[r]

(* One SPU with a context more, on its node and in the gang of the         *)
(* context.                                                                *)
LEMMA MoreSpus ==
  ASSUME NEW l, NEW m, NEW s, NEW c, OneMore(l, m, s, c)
  PROVE  /\ Cardinality(Active(l)) \in Nat
         /\ Cardinality(Active(m)) = Cardinality(Active(l)) + 1
         /\ \A n \in Node :
              /\ Cardinality(ReservedOn(l, n)) \in Nat
              /\ Cardinality(ReservedOn(m, n)) = Cardinality(ReservedOn(l, n))
                   + (IF n = NodeOf(s) THEN Reserves(c) ELSE 0)
         /\ \A g \in Gang :
              /\ Cardinality(GangSpus(l, g)) \in Nat
              /\ Cardinality(GangSpus(m, g)) = Cardinality(GangSpus(l, g))
                   + (IF GangOf[c] = g THEN 1 ELSE 0)
<1>1. s \in Spu /\ c \in Ctx /\ c # NULL /\ l.ctxOf[s] = NULL /\ m.ctxOf[s] = c
      /\ \A r \in Spu \ {s} : m.ctxOf[r] = l.ctxOf[r]
  BY Sorts DEF OneMore
<1>2. Cardinality(Active(l)) \in Nat
      /\ Cardinality(Active(m)) = Cardinality(Active(l)) + 1
  <2>1. IsFiniteSet(Active(l))
    BY Finite, FS_Subset, Active(l) \subseteq Spu DEF Active
  <2>2. s \notin Active(l) /\ Active(m) = Active(l) \cup {s}
    BY <1>1 DEF Active
  <2> QED
    BY <2>1, <2>2, CountMore
<1>3. ASSUME NEW n \in Node
      PROVE  /\ Cardinality(ReservedOn(l, n)) \in Nat
             /\ Cardinality(ReservedOn(m, n)) = Cardinality(ReservedOn(l, n))
                  + (IF n = NodeOf(s) THEN Reserves(c) ELSE 0)
  <2>1. PICK b \in {0, 1} : b = IF n = NodeOf(s) THEN Reserves(c) ELSE 0
    BY DEF Reserves
  <2>2. b = 1 <=> n = NodeOf(s) /\ c \in NoSched
    BY <2>1 DEF Reserves
  <2>3. IsFiniteSet(ReservedOn(l, n))
    BY Finite, FS_Subset, ReservedOn(l, n) \subseteq Range(SpuList[n]) DEF ReservedOn
  <2>4. Range(SpuList[n]) \subseteq Spu /\ (s \in Range(SpuList[n]) <=> n = NodeOf(s))
    BY <1>1, SpuNodes, NodeUnique
  <2>5. s \notin ReservedOn(l, n)
    BY <1>1 DEF ReservedOn
  <2>6. ReservedOn(m, n) = IF b = 1 THEN ReservedOn(l, n) \cup {s}
                                    ELSE ReservedOn(l, n)
    BY <1>1, <2>2, <2>4, <2>5 DEF ReservedOn
  <2> QED
    BY <2>1, <2>3, <2>5, <2>6, CountMore
<1>4. ASSUME NEW g \in Gang
      PROVE  /\ Cardinality(GangSpus(l, g)) \in Nat
             /\ Cardinality(GangSpus(m, g)) = Cardinality(GangSpus(l, g))
                  + (IF GangOf[c] = g THEN 1 ELSE 0)
  <2>1. PICK b \in {0, 1} : b = IF GangOf[c] = g THEN 1 ELSE 0
    OBVIOUS
  <2>2. IsFiniteSet(GangSpus(l, g))
    BY Finite, FS_Subset, GangSpus(l, g) \subseteq Spu DEF GangSpus
  <2>3. s \notin GangSpus(l, g)
    BY <1>1 DEF GangSpus
  <2>4. GangSpus(m, g) = IF b = 1 THEN GangSpus(l, g) \cup {s} ELSE GangSpus(l, g)
    BY <1>1, <2>1, <2>3 DEF GangSpus
  <2> QED
    BY <2>1, <2>2, <2>3, <2>4, CountMore
<1> QED
  BY <1>2, <1>3, <1>4

-----------------------------------------------------------------------------
(* The statistics of the nodes.                                            *)

\* l and m count the same, but for the time that contexts spend as users.
SameCounts(l, m) ==
  /\ SameBinding(l, m)
  /\ m.nr_active = l.nr_active
  /\ m.reserved_spus = l.reserved_spus
  /\ m.aff_sched_count = l.aff_sched_count

(* spuctx_switch_state() counts a context as busy where it is loaded.      *)
LEMMA SwitchCounts ==
  ASSUME NEW l \in SpusType, NEW c \in Ctx, NEW user \in BOOLEAN,
         NEW m, m = spuctx_switch_state(l, c, user)
  PROVE  /\ SameCounts(l, m)
         /\ m.util_user = [l.util_user EXCEPT ![c] = user]
         /\ BusyOK(l) => BusyOK(m)
<1> DEFINE at == {NodeOf(s) : s \in {l.spuOf[c]} \ {NULL}}
           u(x) == IF x THEN 1 ELSE 0
           b == [n \in Node |-> IF n \notin at THEN l.busy_spus[n]
                   ELSE l.busy_spus[n] - u(l.util_user[c]) + u(user)]
<1>1. m = [l EXCEPT !.util_user[c] = user, !.busy_spus = b]
  BY DEF spuctx_switch_state
<1>2. SameBinding(l, m)
  BY SwitchState
<1>3. /\ SameCounts(l, m) /\ m.busy_spus = b
      /\ m.util_user = [l.util_user EXCEPT ![c] = user]
  <2> HIDE DEF b
  <2> QED
    BY <1>1, <1>2, Zenon DEF SameCounts, SpusType
<1>4. ASSUME BusyOK(l), NEW n \in Node
      PROVE  m.busy_spus[n] = Cardinality(BusyOn(m, n))
  <2>1. l.busy_spus[n] = Cardinality(BusyOn(l, n))
    BY <1>4 DEF BusyOK
  <2>2. l.spuOf[c] \in Spu \cup {NULL} /\ l.util_user[c] \in BOOLEAN
        /\ l.util_user \in [Ctx -> BOOLEAN] /\ m.spuOf = l.spuOf
    BY <1>2 DEF SpusType, SameBinding
  <2>3. Range(SpuList[n]) \subseteq Spu
    BY SpuNodes
  <2>4. n \in at <=> l.spuOf[c] \in Range(SpuList[n])
    <3>1. CASE l.spuOf[c] = NULL
      BY <2>3, <3>1, Sorts
    <3>2. CASE l.spuOf[c] # NULL
      <4>1. l.spuOf[c] \in Spu
        BY <2>2, <3>2
      <4>2. at = {NodeOf(l.spuOf[c])}
        BY <3>2
      <4> QED
        BY <4>1, <4>2, NodeUnique
    <3> QED
      BY <3>1, <3>2
  <2> DEFINE others == BusyOn(l, n) \ {c}
  <2>5. IsFiniteSet(others)
    BY CtxAssumption, FS_Subset, others \subseteq Ctx DEF BusyOn
  <2>6. c \notin others
    OBVIOUS
  <2>7. BusyOn(l, n) = IF n \in at /\ l.util_user[c] THEN others \cup {c} ELSE others
    BY <2>4 DEF BusyOn
  <2>8. BusyOn(m, n) = IF n \in at /\ user THEN others \cup {c} ELSE others
    BY <1>3, <2>2, <2>4 DEF BusyOn
  <2>9. m.busy_spus[n] = IF n \notin at THEN l.busy_spus[n]
                         ELSE l.busy_spus[n] - u(l.util_user[c]) + u(user)
    BY <1>3
  <2> HIDE DEF at, others
  <2>10. Cardinality(others) \in Nat
         /\ Cardinality(others \cup {c}) = Cardinality(others) + 1
    BY <2>5, <2>6, FS_AddElement, FS_CardinalityType
  <2>11. CASE n \notin at
    BY <2>1, <2>7, <2>8, <2>9, <2>11
  <2>12. CASE n \in at
    <3>1. PICK k \in Nat : k = Cardinality(others)
      BY <2>10
    <3>2. Cardinality(BusyOn(l, n)) = k + u(l.util_user[c])
      BY <2>2, <2>7, <2>10, <2>12, <3>1
    <3>3. Cardinality(BusyOn(m, n)) = k + u(user)
      BY <2>8, <2>10, <2>12, <3>1
    <3>4. PICK i \in Int, j \in Int : i = u(l.util_user[c]) /\ j = u(user)
      BY <2>2
    <3>5. m.busy_spus[n] = l.busy_spus[n] - i + j
      BY <2>9, <2>12, <3>4
    <3> HIDE DEF u
    <3> QED
      BY <2>1, <3>1, <3>2, <3>3, <3>4, <3>5
  <2> QED
    BY <2>11, <2>12
<1>5. BusyOK(l) => BusyOK(m)
  BY <1>4 DEF BusyOK
<1> QED
  BY <1>3, <1>5

\* Context c, which is not busy, may have another SPU in m than in l.
IdleMoves(l, m, c) ==
  /\ m.busy_spus = l.busy_spus /\ m.util_user = l.util_user
  /\ l.util_user[c] = FALSE
  /\ \A d \in Ctx \ {c} : m.spuOf[d] = l.spuOf[d]

(* A context that is not counted as busy may move.                         *)
LEMMA BusyMoves ==
  ASSUME NEW l, NEW m, NEW c, IdleMoves(l, m, c), BusyOK(l)
  PROVE  BusyOK(m)
<1>1. ASSUME NEW n \in Node
      PROVE  BusyOn(m, n) = BusyOn(l, n)
  BY DEF BusyOn, IdleMoves
<1> QED
  BY <1>1 DEF BusyOK, IdleMoves

(* spu_bind_context() counts the SPU as reserved, and changes no counter   *)
(* of __spu_schedule() or of the gang.                                     *)
LEMMA BindCounts ==
  ASSUME NEW l \in SpusType, NEW s \in Spu, NEW c \in Ctx, BusyOK(l),
         NEW m, m = spu_bind_context(l, s, c)
  PROVE  /\ BusyOK(m)
         /\ m.nr_active = l.nr_active
         /\ m.reserved_spus = [l.reserved_spus EXCEPT ![NodeOf(s)] = @ + Reserves(c)]
         /\ m.aff_sched_count = l.aff_sched_count
<1>1. PICK a : a = spuctx_switch_state(l, c, FALSE)
  OBVIOUS
<1>2. PICK b : b = [a EXCEPT !.reserved_spus[NodeOf(s)] = @ + Reserves(c),
                             !.ctxOf[s] = c,
                             !.spuOf[c] = s]
  OBVIOUS
<1>3. m = spuctx_switch_state(b, c, TRUE)
  BY <1>1, <1>2 DEF spu_bind_context
<1>4. /\ SameCounts(l, a) /\ BusyOK(a)
      /\ a.util_user = [l.util_user EXCEPT ![c] = FALSE]
  BY <1>1, SwitchCounts
<1>5. PICK r : r = [a.reserved_spus EXCEPT ![NodeOf(s)] = @ + Reserves(c)]
  OBVIOUS
<1>6. r \in [Node -> Int] /\ a \in SpusType
  <2>1. Reserves(c) \in Int /\ a \in SpusType
    BY <1>4 DEF Reserves, SameCounts, SameBinding
  <2>2. a.reserved_spus \in [Node -> Int]
    BY <2>1 DEF SpusType
  <2> QED
    BY <1>5, <2>1, <2>2, NodeCounter
<1>7. b = [a EXCEPT !.reserved_spus = r, !.ctxOf[s] = c, !.spuOf[c] = s]
  BY <1>2, <1>5
<1>8. b \in SpusType
  BY <1>6, <1>7 DEF SpusType
<1>9. /\ b.busy_spus = a.busy_spus /\ b.util_user = a.util_user
      /\ b.nr_active = a.nr_active /\ b.aff_sched_count = a.aff_sched_count
      /\ b.reserved_spus = r /\ b.spuOf = [a.spuOf EXCEPT ![c] = s]
  BY <1>6, <1>7, Zenon DEF SpusType
<1>10. a.util_user[c] = FALSE
  BY <1>4 DEF SpusType
<1>11. \A d \in Ctx \ {c} : b.spuOf[d] = a.spuOf[d]
  BY <1>6, <1>9 DEF SpusType
<1>12. BusyOK(b)
  <2>1. IdleMoves(a, b, c)
    BY <1>9, <1>10, <1>11 DEF IdleMoves
  <2> QED
    BY <1>4, <2>1, BusyMoves
<1>13. SameCounts(b, m) /\ BusyOK(m)
  BY <1>3, <1>8, <1>12, SwitchCounts
<1> QED
  BY <1>4, <1>5, <1>9, <1>13 DEF SameCounts

(* spu_unbind_context() undoes that, and the gang has one context less     *)
(* placed, if any.                                                         *)
LEMMA UnbindCounts ==
  ASSUME NEW l \in SpusType, NEW s \in Spu, NEW c \in Ctx, BusyOK(l),
         NEW m, m = spu_unbind_context(l, s, c)
  PROVE  /\ BusyOK(m)
         /\ m.nr_active = l.nr_active
         /\ m.reserved_spus =
              [l.reserved_spus EXCEPT ![NodeOf(s)] = @ - Reserves(l.ctxOf[s])]
         /\ \A g \in Gang : m.aff_sched_count[g] =
              IF g = GangOf[c] /\ l.aff_sched_count[g] > 0
              THEN l.aff_sched_count[g] - 1 ELSE l.aff_sched_count[g]
<1>1. PICK a : a = spuctx_switch_state(l, c, FALSE)
  OBVIOUS
<1>2. /\ SameCounts(l, a) /\ BusyOK(a)
      /\ a.util_user = [l.util_user EXCEPT ![c] = FALSE]
  BY <1>1, SwitchCounts
<1> DEFINE counts == [g \in Gang |->
             IF g = GangOf[c] /\ a.aff_sched_count[g] > 0
             THEN a.aff_sched_count[g] - 1 ELSE a.aff_sched_count[g]]
<1>3. PICK r : r = [a.reserved_spus EXCEPT ![NodeOf(s)] = @ - Reserves(l.ctxOf[s])]
  OBVIOUS
<1>4. r \in [Node -> Int] /\ a \in SpusType /\ counts \in [Gang -> Int]
  <2>1. Reserves(l.ctxOf[s]) \in Int /\ a \in SpusType
    BY <1>2 DEF Reserves, SameCounts, SameBinding
  <2>2. a.reserved_spus \in [Node -> Int] /\ a.aff_sched_count \in [Gang -> Int]
    BY <2>1 DEF SpusType
  <2>3. counts \in [Gang -> Int]
    BY <2>2
  <2> QED
    BY <1>3, <2>1, <2>2, <2>3, NodeCounter
<1>5. PICK b : b = [a EXCEPT !.reserved_spus = r, !.aff_sched_count = counts,
                             !.ctxOf[s] = NULL]
  OBVIOUS
<1>6. m = [spuctx_switch_state(b, c, FALSE) EXCEPT !.spuOf[c] = NULL]
  BY <1>1, <1>3, <1>5 DEF spu_unbind_context
<1>7. /\ b \in SpusType /\ b.busy_spus = a.busy_spus
      /\ b.util_user = a.util_user /\ b.nr_active = a.nr_active
      /\ b.aff_sched_count = counts /\ b.reserved_spus = r /\ b.spuOf = a.spuOf
  <2> HIDE DEF counts
  <2>1. b \in SpusType
    BY <1>4, <1>5 DEF SpusType
  <2> QED
    BY <1>4, <1>5, <2>1, Zenon DEF SpusType
<1>8. BusyOK(b)
  BY <1>2, <1>7 DEF BusyOK, BusyOn
<1>9. PICK e : e = spuctx_switch_state(b, c, FALSE)
  OBVIOUS
<1>10. /\ SameCounts(b, e) /\ BusyOK(e)
       /\ e.util_user = [b.util_user EXCEPT ![c] = FALSE]
  <2>1. b \in SpusType /\ c \in Ctx /\ FALSE \in BOOLEAN
    BY <1>7
  <2>2. /\ SameCounts(b, e) /\ (BusyOK(b) => BusyOK(e))
        /\ e.util_user = [b.util_user EXCEPT ![c] = FALSE]
    BY <1>9, <2>1, SwitchCounts, Zenon
  <2> QED
    BY <1>8, <2>2
<1>11. e \in SpusType
  BY <1>10 DEF SameCounts, SameBinding
<1>12. m = [e EXCEPT !.spuOf[c] = NULL]
  BY <1>6, <1>9
<1>13. m \in SpusType
  <2>1. [e EXCEPT !.spuOf[c] = NULL] \in SpusType
    BY <1>11 DEF SpusType
  <2> QED
    BY <1>12, <2>1
<1>14. /\ m.busy_spus = e.busy_spus /\ m.util_user = e.util_user
       /\ m.nr_active = e.nr_active /\ m.aff_sched_count = e.aff_sched_count
       /\ m.reserved_spus = e.reserved_spus /\ m.spuOf = [e.spuOf EXCEPT ![c] = NULL]
  BY <1>11, <1>12, Zenon DEF SpusType
<1>15. e.util_user[c] = FALSE
  BY <1>7, <1>10 DEF SpusType
<1>16. \A d \in Ctx \ {c} : m.spuOf[d] = e.spuOf[d]
  BY <1>11, <1>14 DEF SpusType
<1>17. BusyOK(m)
  <2>1. IdleMoves(e, m, c)
    BY <1>14, <1>15, <1>16 DEF IdleMoves
  <2> QED
    BY <1>10, <2>1, BusyMoves
<1>18. m.aff_sched_count = counts
  BY <1>7, <1>10, <1>14 DEF SameCounts
<1>19. l.aff_sched_count = a.aff_sched_count
  BY <1>2 DEF SameCounts
<1> HIDE DEF counts
<1>20. \A g \in Gang : m.aff_sched_count[g] =
              IF g = GangOf[c] /\ l.aff_sched_count[g] > 0
              THEN l.aff_sched_count[g] - 1 ELSE l.aff_sched_count[g]
  BY <1>18, <1>19 DEF counts
<1> QED
  BY <1>2, <1>3, <1>7, <1>10, <1>14, <1>17, <1>20 DEF SameCounts

-----------------------------------------------------------------------------
(* Loading and unloading keep the counters right.                          *)

\* The counters of SPUs and contexts.
Counted(l) == ActiveOK(l) /\ ReservedOK(l) /\ BusyOK(l) /\ TicksOK(l)

\* l and m are the same but for the SPUs that are in use and the reference
\* SPUs of the gangs.
SameButUsed(l, m) ==
  /\ m \in SpusType
  /\ m.ctxOf = l.ctxOf /\ m.spuOf = l.spuOf
  /\ m.nr_active = l.nr_active /\ m.reserved_spus = l.reserved_spus
  /\ m.busy_spus = l.busy_spus /\ m.util_user = l.util_user
  /\ m.time_slice = l.time_slice /\ m.aff_sched_count = l.aff_sched_count

(* Which SPUs are in use is not counted.                                   *)
LEMMA UsedNotCounted ==
  ASSUME NEW l, NEW m, SameButUsed(l, m)
  PROVE  /\ Counted(l) => Counted(m)
         /\ \A T : PlacedOK(l, T) => PlacedOK(m, T)
BY DEF SameButUsed, Counted, ActiveOK, ReservedOK, BusyOK, TicksOK, PlacedOK,
   Active, ReservedOn, BusyOn, GangSpus

(* A change of nr_active of one node changes the sum.                      *)
LEMMA SumOfNodes ==
  ASSUME NEW f \in [Node -> Int], NEW h \in [Node -> Int], NEW n \in Node,
         NEW d \in Int, h = [f EXCEPT ![n] = @ + d]
  PROVE  SumFunction(f) \in Int /\ SumFunction(h) = SumFunction(f) + d
<1>1. Differ(f, h, Node, n, d)
  BY DEF Differ
<1>2. IsFiniteSet(Node)
  BY Finite
<1>3. PICK S : S = Node
  OBVIOUS
<1>4. /\ IsFiniteSet(S) /\ f \in [S -> Int] /\ h \in [S -> Int] /\ n \in S
      /\ Differ(f, h, S, n, d)
  BY <1>1, <1>2, <1>3
<1> QED
  BY ONLY <1>4, SumChanges, d \in Int

(* The threads about to place a context of a gang are finitely many.       *)
LEMMA PlacingFinite ==
  ASSUME NEW T, NEW g
  PROVE  IsFiniteSet(Placing(T, g)) /\ Cardinality(Placing(T, g)) \in Nat
<1>1. IsFiniteSet(Placing(T, g))
  BY Finite, FS_Subset, Placing(T, g) \subseteq Thread DEF Placing
<1> QED
  BY <1>1, FS_CardinalityType

(* The SPUs with a context of a gang are finitely many.                    *)
LEMMA GangSpusFinite ==
  ASSUME NEW l, NEW g
  PROVE  IsFiniteSet(GangSpus(l, g)) /\ Cardinality(GangSpus(l, g)) \in Nat
<1>1. IsFiniteSet(GangSpus(l, g))
  BY Finite, FS_Subset, GangSpus(l, g) \subseteq Spu DEF GangSpus
<1> QED
  BY <1>1, FS_CardinalityType

(* Unloading a context counts it down everywhere, and the gang too unless  *)
(* it counts none.                                                         *)
LEMMA UnloadCounts ==
  ASSUME NEW l \in SpusType, NEW n \in Node, NEW s \in Spu, NEW c \in Ctx,
         l.ctxOf[s] = c, Counted(l), NEW m, m = Unload(l, n, s, c)
  PROVE  /\ Counted(m)
         /\ \A T : PlacedOK(l, T) => PlacedOK(m, T)
<1>1. PICK r : r = [l.nr_active EXCEPT ![n] = @ + (-1)]
  OBVIOUS
<1>2. l.nr_active \in [Node -> Int] /\ r \in [Node -> Int]
      /\ r = [l.nr_active EXCEPT ![n] = @ - 1]
  BY <1>1 DEF SpusType
<1>3. PICK a : a = [l EXCEPT !.nr_active = r]
  OBVIOUS
<1>4. a \in SpusType
  BY <1>2, <1>3 DEF SpusType
<1>5. /\ a.nr_active = r /\ a.ctxOf = l.ctxOf /\ a.spuOf = l.spuOf
      /\ a.reserved_spus = l.reserved_spus /\ a.busy_spus = l.busy_spus
      /\ a.util_user = l.util_user /\ a.aff_sched_count = l.aff_sched_count
      /\ a.time_slice = l.time_slice
  BY <1>3, Zenon DEF SpusType
<1>6. m = spu_unbind_context(a, s, c)
  BY <1>2, <1>3 DEF Unload
<1>7. BusyOK(a)
  BY <1>5 DEF Counted, BusyOK, BusyOn
<1>8. /\ BusyOK(m)
      /\ m.nr_active = r
      /\ m.reserved_spus =
           [l.reserved_spus EXCEPT ![NodeOf(s)] = @ - Reserves(c)]
      /\ \A g \in Gang : m.aff_sched_count[g] =
           IF g = GangOf[c] /\ l.aff_sched_count[g] > 0
           THEN l.aff_sched_count[g] - 1 ELSE l.aff_sched_count[g]
  BY <1>4, <1>5, <1>6, <1>7, UnbindCounts
<1>9. /\ m \in SpusType /\ m.ctxOf = [l.ctxOf EXCEPT ![s] = NULL]
      /\ m.time_slice = l.time_slice
  <2>1. Unloaded(l, m, s, c)
    BY UnloadEffect
  <2> QED
    BY <2>1 DEF Unloaded
<1>10. OneMore(m, l, s, c)
  BY <1>9 DEF OneMore, SpusType
<1>11. ActiveOK(m)
  <2>1. SumFunction(l.nr_active) \in Int
        /\ SumFunction(r) = SumFunction(l.nr_active) + (-1)
    BY <1>1, <1>2, SumOfNodes
  <2>2. SumFunction(l.nr_active) = Cardinality(Active(l))
    BY DEF Counted, ActiveOK
  <2>3. /\ Cardinality(Active(m)) \in Nat
        /\ Cardinality(Active(l)) = Cardinality(Active(m)) + 1
    BY <1>10, MoreSpus
  <2> QED
    BY <1>8, <2>1, <2>2, <2>3 DEF ActiveOK
<1>12. ReservedOK(m)
  <2> SUFFICES ASSUME NEW k \in Node
               PROVE  m.reserved_spus[k] = Cardinality(ReservedOn(m, k))
    BY DEF ReservedOK
  <2>1. l.reserved_spus[k] = Cardinality(ReservedOn(l, k))
    BY DEF Counted, ReservedOK
  <2>2. /\ Cardinality(ReservedOn(m, k)) \in Nat
        /\ Cardinality(ReservedOn(l, k)) = Cardinality(ReservedOn(m, k))
             + (IF k = NodeOf(s) THEN Reserves(c) ELSE 0)
    BY <1>10, MoreSpus
  <2>3. m.reserved_spus[k] = l.reserved_spus[k]
                             - (IF k = NodeOf(s) THEN Reserves(c) ELSE 0)
    BY <1>8 DEF SpusType
  <2>4. Reserves(c) \in Int
    BY DEF Reserves
  <2> QED
    BY <2>1, <2>2, <2>3, <2>4
<1>13. TicksOK(m)
  BY <1>9 DEF Counted, TicksOK
<1>14. ASSUME NEW T, PlacedOK(l, T), NEW g \in Gang
       PROVE  m.aff_sched_count[g] <=
                Cardinality(GangSpus(m, g)) + Cardinality(Placing(T, g))
  <2>1. l.aff_sched_count[g] <=
          Cardinality(GangSpus(l, g)) + Cardinality(Placing(T, g))
    BY <1>14 DEF PlacedOK
  <2>2. /\ Cardinality(GangSpus(m, g)) \in Nat
        /\ Cardinality(GangSpus(l, g)) = Cardinality(GangSpus(m, g))
             + (IF GangOf[c] = g THEN 1 ELSE 0)
    BY <1>10, MoreSpus
  <2>3. Cardinality(Placing(T, g)) \in Nat
    BY PlacingFinite
  <2>4. l.aff_sched_count[g] \in Int
    BY DEF SpusType
  <2> QED
    BY <1>8, <2>1, <2>2, <2>3, <2>4
<1>15. \A T : PlacedOK(l, T) => PlacedOK(m, T)
  BY <1>14 DEF PlacedOK
<1> QED
  BY <1>8, <1>11, <1>12, <1>13, <1>15 DEF Counted

(* So does spu_unschedule().                                               *)
LEMMA UnscheduleCounts ==
  ASSUME NEW l \in SpusType, NEW s \in Spu, NEW c \in Ctx, NEW free,
         l.ctxOf[s] = c, Counted(l), NEW m, m = spu_unschedule(l, s, c, free)
  PROVE  /\ Counted(m)
         /\ \A T : PlacedOK(l, T) => PlacedOK(m, T)
<1>1. PICK a : a = [l EXCEPT !.used = IF free THEN @ \ {s} ELSE @]
  OBVIOUS
<1>2. m = Unload(a, NodeOf(s), s, c)
  BY <1>1 DEF spu_unschedule
<1>3. a \in SpusType
  BY <1>1 DEF SpusType
<1>4. SameButUsed(l, a)
  BY <1>1, <1>3, Zenon DEF SameButUsed, SpusType
<1>5. Counted(a) /\ a.ctxOf[s] = c /\ \A T : PlacedOK(l, T) => PlacedOK(a, T)
  BY <1>4, UsedNotCounted DEF SameButUsed
<1>6. NodeOf(s) \in Node
  BY SpuNodes
<1> QED
  BY <1>2, <1>3, <1>5, <1>6, UnloadCounts

(* __spu_schedule() counts up what it loads; the gang has counted it.      *)
LEMMA LoadCounts ==
  ASSUME NEW l \in SpusType, NEW s \in Spu, NEW c \in Ctx,
         info \in [Ctx -> InfoType],
         l.ctxOf[s] = NULL, Counted(l), NEW m, m = Load(l, s, c)
  PROVE  /\ Counted(m)
         /\ m.aff_sched_count = l.aff_sched_count
         /\ OneMore(l, m, s, c)
<1>1. LoadedOn(l, m, s, c)
  BY LoadEffect
<1>2. OneMore(l, m, s, c)
  BY <1>1 DEF OneMore, LoadedOn, SpusType
<1>3. PICK v : v = Timeslice(info[c].prio)
  OBVIOUS
<1>4. v \in Int
  <2>1. info[c].prio \in Prio
    BY DEF InfoType
  <2> QED
    BY <1>3, <2>1, TimesliceType
<1>5. PICK a : a = [l EXCEPT !.time_slice[c] = v]
  OBVIOUS
<1>6. a \in SpusType
  BY <1>4, <1>5 DEF SpusType
<1>7. /\ a.nr_active = l.nr_active /\ a.spuOf = l.spuOf /\ a.ctxOf = l.ctxOf
      /\ a.reserved_spus = l.reserved_spus /\ a.busy_spus = l.busy_spus
      /\ a.util_user = l.util_user /\ a.aff_sched_count = l.aff_sched_count
  BY <1>5, Zenon DEF SpusType
<1>8. PICK b : b = spu_bind_context(a, s, c)
  OBVIOUS
<1>9. m = [b EXCEPT !.nr_active[NodeOf(s)] = @ + 1, !.used = @ \cup {s}]
  BY <1>3, <1>5, <1>8 DEF Load, spu_set_timeslice
<1>10. BusyOK(a)
  BY <1>7 DEF Counted, BusyOK, BusyOn
<1>11. /\ BusyOK(b)
       /\ b.nr_active = l.nr_active
       /\ b.reserved_spus = [l.reserved_spus EXCEPT ![NodeOf(s)] = @ + Reserves(c)]
       /\ b.aff_sched_count = l.aff_sched_count
  BY <1>6, <1>7, <1>8, <1>10, BindCounts
<1>12. b \in SpusType
  <2>1. Bound(a, b, s, c)
    BY <1>6, <1>8, BindContext
  <2> QED
    BY <2>1 DEF Bound
<1>13. /\ m.nr_active = [b.nr_active EXCEPT ![NodeOf(s)] = @ + 1]
       /\ m.reserved_spus = b.reserved_spus /\ m.busy_spus = b.busy_spus
       /\ m.util_user = b.util_user /\ m.spuOf = b.spuOf
       /\ m.aff_sched_count = b.aff_sched_count
  BY <1>9, <1>12, Zenon DEF SpusType
<1>14. BusyOK(m)
  BY <1>11, <1>13 DEF BusyOK, BusyOn
<1>15. ActiveOK(m)
  <2>1. NodeOf(s) \in Node /\ l.nr_active \in [Node -> Int]
        /\ m.nr_active \in [Node -> Int]
    BY <1>1, SpuNodes DEF LoadedOn, SpusType
  <2>2. SumFunction(l.nr_active) \in Int
        /\ SumFunction(m.nr_active) = SumFunction(l.nr_active) + 1
    BY <1>11, <1>13, <2>1, SumOfNodes
  <2>3. SumFunction(l.nr_active) = Cardinality(Active(l))
    BY DEF Counted, ActiveOK
  <2>4. Cardinality(Active(m)) = Cardinality(Active(l)) + 1
    BY <1>2, MoreSpus
  <2> QED
    BY <2>2, <2>3, <2>4 DEF ActiveOK
<1>16. ReservedOK(m)
  <2> SUFFICES ASSUME NEW k \in Node
               PROVE  m.reserved_spus[k] = Cardinality(ReservedOn(m, k))
    BY DEF ReservedOK
  <2>1. l.reserved_spus[k] = Cardinality(ReservedOn(l, k))
    BY DEF Counted, ReservedOK
  <2>2. /\ Cardinality(ReservedOn(l, k)) \in Nat
        /\ Cardinality(ReservedOn(m, k)) = Cardinality(ReservedOn(l, k))
             + (IF k = NodeOf(s) THEN Reserves(c) ELSE 0)
    BY <1>2, MoreSpus
  <2>3. m.reserved_spus[k] = l.reserved_spus[k]
                             + (IF k = NodeOf(s) THEN Reserves(c) ELSE 0)
    BY <1>11, <1>13 DEF SpusType
  <2> QED
    BY <2>1, <2>2, <2>3
<1>17. TicksOK(m)
  <2>1. \A d \in Ctx : l.time_slice[d] >= 0
    BY DEF Counted, TicksOK
  <2>2. m.time_slice[c] \in Int /\ m.time_slice[c] >= 1
        /\ \A d \in Ctx \ {c} : m.time_slice[d] = l.time_slice[d]
    BY <1>1 DEF LoadedOn, SpusType
  <2> QED
    BY <2>1, <2>2 DEF TicksOK
<1> QED
  BY <1>2, <1>11, <1>13, <1>14, <1>15, <1>16, <1>17 DEF Counted

-----------------------------------------------------------------------------
(* The threads about to load a context of a gang.                          *)

\* Locals x of a thread that is about to load a context of gang g.
Places(x, g) == x.pc \in {"location", "load"} /\ GangOf[x.ctx] = g

\* Thread t goes on with locals x; the others stay where they are.
MovesTo(T, U, t, x) ==
  t \in Thread /\ U[t] = x /\ \A u \in Thread \ {t} : U[u] = T[u]

(* A thread that moves is counted where it is.                             *)
LEMMA PlacingMoves ==
  ASSUME NEW T, NEW U, NEW t, NEW x, MovesTo(T, U, t, x), NEW g
  PROVE  /\ Cardinality(Placing(T, g)) \in Nat
         /\ Cardinality(Placing(U, g)) = Cardinality(Placing(T, g))
              - (IF Places(T[t], g) THEN 1 ELSE 0)
              + (IF Places(x, g) THEN 1 ELSE 0)
<1> DEFINE others == Placing(T, g) \ {t}
<1>1. t \in Thread /\ U[t] = x /\ \A u \in Thread \ {t} : U[u] = T[u]
  BY DEF MovesTo
<1>2. IsFiniteSet(others) /\ t \notin others
  BY PlacingFinite, FS_Subset, others \subseteq Placing(T, g)
<1>3. Placing(T, g) = IF Places(T[t], g) THEN others \cup {t} ELSE others
  BY <1>1 DEF Placing, Places
<1>4. Placing(U, g) = IF Places(x, g) THEN others \cup {t} ELSE others
  BY <1>1 DEF Placing, Places
<1> HIDE DEF others
<1>5. PICK k \in Nat : k = Cardinality(others)
  BY <1>2, FS_CardinalityType
<1>6. Cardinality(others \cup {t}) = k + 1
  BY <1>2, <1>5, FS_AddElement
<1> QED
  BY <1>3, <1>4, <1>5, <1>6

(* A thread moves, and stays counted.                                      *)
LEMMA PlacedQuiet ==
  ASSUME NEW l \in SpusType, NEW T, NEW U, NEW t, NEW x, MovesTo(T, U, t, x),
         T[t].pc \in {"location", "load"} =>
           x.pc \in {"location", "load"} /\ x.ctx = T[t].ctx,
         PlacedOK(l, T)
  PROVE  PlacedOK(l, U)
<1> SUFFICES ASSUME NEW g \in Gang
             PROVE  l.aff_sched_count[g] <=
                      Cardinality(GangSpus(l, g)) + Cardinality(Placing(U, g))
  BY DEF PlacedOK
<1>1. l.aff_sched_count[g] <=
        Cardinality(GangSpus(l, g)) + Cardinality(Placing(T, g))
  BY DEF PlacedOK
<1>2. Places(T[t], g) => Places(x, g)
  BY DEF Places
<1>3. /\ Cardinality(Placing(T, g)) \in Nat
      /\ Cardinality(Placing(U, g)) = Cardinality(Placing(T, g))
           - (IF Places(T[t], g) THEN 1 ELSE 0)
           + (IF Places(x, g) THEN 1 ELSE 0)
  BY PlacingMoves
<1>4. Cardinality(GangSpus(l, g)) \in Nat /\ l.aff_sched_count[g] \in Int
  BY GangSpusFinite DEF SpusType
<1> QED
  BY <1>1, <1>2, <1>3, <1>4

\* The count of the gang of context c differs by d.
GangCounts(l, m, c, d) ==
  /\ l \in SpusType /\ m \in SpusType
  /\ m.ctxOf = l.ctxOf
  /\ \A g \in Gang : m.aff_sched_count[g] = l.aff_sched_count[g]
                       + (IF g = GangOf[c] THEN d ELSE 0)

(* has_affinity() counts a context of the gang, which has a reference SPU, *)
(* and the thread goes on to take an SPU near that; or it gives up, and    *)
(* counts the context down again.                                          *)
LEMMA PlacedCounts ==
  ASSUME NEW l, NEW m, NEW c \in Ctx, NEW d \in {-1, 1}, GangCounts(l, m, c, d),
         NEW T, NEW U, NEW t, NEW x, MovesTo(T, U, t, x),
         d = 1 => /\ T[t].pc \notin {"location", "load"}
                  /\ x.pc = "location" /\ x.ctx = c,
         d = -1 => T[t].ctx = c,
         PlacedOK(l, T)
  PROVE  PlacedOK(m, U)
<1> SUFFICES ASSUME NEW g \in Gang
             PROVE  m.aff_sched_count[g] <=
                      Cardinality(GangSpus(m, g)) + Cardinality(Placing(U, g))
  BY DEF PlacedOK
<1>1. l.aff_sched_count[g] <=
        Cardinality(GangSpus(l, g)) + Cardinality(Placing(T, g))
  BY DEF PlacedOK
<1>2. GangSpus(m, g) = GangSpus(l, g)
  BY DEF GangSpus, GangCounts
<1>3. /\ d = 1 => ~Places(T[t], g) /\ (GangOf[c] = g => Places(x, g))
      /\ d = -1 => (Places(T[t], g) => GangOf[c] = g)
  BY DEF Places
<1>4. /\ Cardinality(Placing(T, g)) \in Nat
      /\ Cardinality(Placing(U, g)) = Cardinality(Placing(T, g))
           - (IF Places(T[t], g) THEN 1 ELSE 0)
           + (IF Places(x, g) THEN 1 ELSE 0)
  BY PlacingMoves
<1>5. Cardinality(GangSpus(l, g)) \in Nat /\ l.aff_sched_count[g] \in Int
  BY GangSpusFinite DEF GangCounts, SpusType
<1>6. m.aff_sched_count[g] = l.aff_sched_count[g]
                             + (IF g = GangOf[c] THEN d ELSE 0)
  BY DEF GangCounts
<1> QED
  BY <1>1, <1>2, <1>3, <1>4, <1>5, <1>6

(* The context is loaded, and the thread is not about to load it any more. *)
LEMMA PlacedLoads ==
  ASSUME NEW l, NEW m, NEW s, NEW c, OneMore(l, m, s, c),
         m.aff_sched_count = l.aff_sched_count,
         NEW T, NEW U, NEW t, NEW x, MovesTo(T, U, t, x),
         T[t].pc \in {"location", "load"} => T[t].ctx = c,
         PlacedOK(l, T)
  PROVE  PlacedOK(m, U)
<1> SUFFICES ASSUME NEW g \in Gang
             PROVE  m.aff_sched_count[g] <=
                      Cardinality(GangSpus(m, g)) + Cardinality(Placing(U, g))
  BY DEF PlacedOK
<1>1. l.aff_sched_count[g] <=
        Cardinality(GangSpus(l, g)) + Cardinality(Placing(T, g))
  BY DEF PlacedOK
<1>2. Places(T[t], g) => GangOf[c] = g
  BY DEF Places
<1>3. /\ Cardinality(Placing(T, g)) \in Nat
      /\ Cardinality(Placing(U, g)) = Cardinality(Placing(T, g))
           - (IF Places(T[t], g) THEN 1 ELSE 0)
           + (IF Places(x, g) THEN 1 ELSE 0)
  BY PlacingMoves
<1>4. /\ Cardinality(GangSpus(l, g)) \in Nat
      /\ Cardinality(GangSpus(m, g)) = Cardinality(GangSpus(l, g))
           + (IF GangOf[c] = g THEN 1 ELSE 0)
  BY MoreSpus
<1>5. l.aff_sched_count[g] \in Int
  BY DEF OneMore, SpusType
<1> QED
  BY <1>1, <1>2, <1>3, <1>4, <1>5

-----------------------------------------------------------------------------
(* The steps.                                                              *)

(* What a step of one thread has to satisfy.                               *)
LEMMA CountStep ==
  ASSUME CountInv, NEW t, NEW x, MovesTo(th, th', t, x),
         x.pc = "trylock" => x.todo # <<>>,
         Counted(spus'), PlacedOK(spus', th'),
         \A c \in Ctx : info'[c] \in SchedInfo[c]
  PROVE  CountInv'
<1>1. \A u \in Thread : th'[u].pc = "trylock" => th'[u].todo # <<>>
  BY DEF MovesTo, CountInv
<1> QED
  BY <1>1 DEF CountInv, Counted

(* What CountInv says of the state, as the lemmas use it.                  *)
LEMMA CountNow ==
  ASSUME SchedInv, CountInv
  PROVE  /\ spus \in SpusType /\ Counted(spus) /\ PlacedOK(spus, th)
         /\ \A c \in Ctx : info[c] \in SchedInfo[c]
         /\ info \in [Ctx -> InfoType]
BY ShapeNow, QueueNow DEF CountInv, Counted

(* A thread moves that is not about to load a context, and at most the     *)
(* SPUs in use change.                                                     *)
LEMMA CountQuiet ==
  ASSUME SchedInv, CountInv, NEW t \in Thread,
         \A u \in Thread \ {t} : th'[u] = th[u],
         th[t].pc \notin {"location", "load"},
         th'[t].pc = "trylock" => th'[t].todo # <<>>,
         spus' = spus, info' = info
  PROVE  CountInv'
<1>1. PICK x : x = th'[t]
  OBVIOUS
<1>2. MovesTo(th, th', t, x)
  BY <1>1 DEF MovesTo
<1>3. PlacedOK(spus, th')
  BY <1>2, CountNow, PlacedQuiet
<1>4. Counted(spus') /\ PlacedOK(spus', th')
  BY <1>3, CountNow
<1>5. \A c \in Ctx : info'[c] \in SchedInfo[c]
  BY CountNow
<1> QED
  BY <1>1, <1>2, <1>4, <1>5, CountStep

(* The steps of spu_activate() that leave the SPUs alone.                  *)
LEMMA ActivateCounts ==
  ASSUME SchedInv, CountInv, NEW t \in Ctx \cup Saver,
         \/ ActivateSignalled(t) \/ VictimNode(t) \/ ActivateQueue(t)
         \/ PrioWait(t) \/ Relock(t)
  PROVE  CountInv'
<1>1. t \in Thread /\ DOMAIN th = Thread
  BY Sorts, ShapeNow
<1>2. \A u \in Thread \ {t} : th'[u] = th[u]
  BY <1>1 DEF ActivateSignalled, VictimNode, ActivateQueue, PrioWait, Relock,
     Interrupted, Activated, At, Rests
<1>3. th[t].pc \notin {"location", "load"} /\ spus' = spus /\ info' = info
  BY DEF ActivateSignalled, VictimNode, ActivateQueue, PrioWait, Relock
<1>4. th'[t].pc = "trylock" => th'[t].todo # <<>>
  <2>1. CASE VictimNode(t)
    <3>1. th[t].pc = "victims" /\ th[t] \in Locals(t)
      BY <1>1, <2>1, ShapeNow DEF VictimNode
    <3>2. CASE th[t].todo = <<>>
      <4>1. th'[t].pc = "queue"
        BY <1>1, <2>1, <3>2 DEF VictimNode, At, Local
      <4> QED
        BY <4>1
    <3>3. CASE th[t].todo # <<>>
      <4>1. \/ \E d : th' = [th EXCEPT ![t].pc = "trylock", ![t].new = d]
            \/ \E todo : th' = [th EXCEPT ![t].todo = todo]
        BY <2>1, <3>3 DEF VictimNode
      <4>2. ASSUME NEW d, th' = [th EXCEPT ![t].pc = "trylock", ![t].new = d]
            PROVE  th'[t].todo = th[t].todo
        BY <1>1, <3>1, <4>2 DEF Locals
      <4>3. ASSUME NEW todo, th' = [th EXCEPT ![t].todo = todo]
            PROVE  th'[t].pc = "victims"
        BY <1>1, <3>1, <4>3 DEF Locals
      <4> QED
        BY <3>3, <4>1, <4>2, <4>3
    <3> QED
      BY <3>2, <3>3
  <2>2. CASE ~VictimNode(t)
    BY <1>1, <2>2 DEF ActivateSignalled, ActivateQueue, PrioWait, Relock,
       Interrupted, Activated, At, Rests, Idle, Local
  <2> QED
    BY <2>1, <2>2
<1> QED
  BY <1>1, <1>2, <1>3, <1>4, CountQuiet

(* spu_get_idle() begins: the gang counts the context if it has a          *)
(* reference SPU.                                                          *)
LEMMA GetIdleCounts ==
  ASSUME SchedInv, CountInv, NEW t \in Ctx \cup Saver, GetIdle(t)
  PROVE  CountInv'
<1> DEFINE scan == {Local("scan", th[t].ctx, NULL, NULL, NodesFrom(th[t].ctx, n)) :
                      n \in Node}
<1>1. t \in Thread /\ DOMAIN th = Thread /\ th[t].pc = "activate"
      /\ info' = info /\ th[t].pc \in Activating
  BY Sorts, ShapeNow DEF GetIdle, Activating
<1>2. PICK c \in Ctx : c = th[t].ctx
  BY <1>1, InActivate
<1>3. \A u \in Thread \ {t} : th'[u] = th[u]
  BY <1>1 DEF GetIdle, Steps
<1>4. ASSUME Steps(t, scan)
      PROVE  th'[t].pc = "scan"
  BY <1>1, <1>4 DEF Steps, Local
<1>5. CASE ~HasAffList(c)
  <2>1. Steps(t, scan) /\ spus' = spus
    BY <1>2, <1>5 DEF GetIdle
  <2>2. th'[t].pc = "scan"
    BY <1>4, <2>1
  <2> QED
    BY <1>1, <1>3, <2>1, <2>2, CountQuiet
<1>6. CASE HasAffList(c)
  <2>1. PICK g \in Gang : g = GangOf[c]
    BY <1>6, CtxAssumption DEF HasAffList
  <2>2. PICK ref \in has_affinity(g) :
          /\ spus' = [spus EXCEPT
               !.aff_ref_spu[g] = ref,
               !.aff_sched_count[g] = IF ref = NULL THEN @ ELSE @ + 1]
          /\ Steps(t, IF ref = NULL THEN scan
                      ELSE {Local("location", c, ref, NULL, <<>>)})
    BY <1>2, <1>6, <2>1 DEF GetIdle
  <2>3. ref \in Spu \cup {NULL} /\ spus \in SpusType
    BY <2>1, <2>2, AffinityType, ShapeNow
  <2>4. PICK k \in Int : k = spus.aff_sched_count[g] + (IF ref = NULL THEN 0 ELSE 1)
    BY <2>3 DEF SpusType
  <2>5. spus' = [spus EXCEPT !.aff_ref_spu[g] = ref, !.aff_sched_count[g] = k]
    <3>1. spus.aff_sched_count[g] \in Int
      BY <2>3 DEF SpusType
    <3>2. k = IF ref = NULL THEN spus.aff_sched_count[g]
                            ELSE spus.aff_sched_count[g] + 1
      BY <2>4, <3>1
    <3> QED
      BY <2>2, <3>2
  <2>6. spus' \in SpusType
    BY <2>3, <2>5 DEF SpusType
  <2>7. /\ spus'.ctxOf = spus.ctxOf /\ spus'.spuOf = spus.spuOf
        /\ spus'.nr_active = spus.nr_active
        /\ spus'.reserved_spus = spus.reserved_spus
        /\ spus'.busy_spus = spus.busy_spus /\ spus'.util_user = spus.util_user
        /\ spus'.time_slice = spus.time_slice
        /\ spus'.aff_sched_count = [spus.aff_sched_count EXCEPT ![g] = k]
    BY <2>3, <2>5, Zenon DEF SpusType
  <2>8. Counted(spus')
    <3>1. Counted(spus)
      BY CountNow
    <3> QED
      BY <2>7, <3>1 DEF Counted, ActiveOK, ReservedOK, BusyOK, TicksOK, Active,
         ReservedOn, BusyOn
  <2>9. PICK x : x = th'[t]
    OBVIOUS
  <2>10. MovesTo(th, th', t, x)
    BY <1>1, <1>3, <2>9 DEF MovesTo
  <2>11. CASE ref = NULL
    <3>1. x.pc = "scan"
      BY <1>4, <2>2, <2>9, <2>11
    <3>2. spus'.aff_sched_count = spus.aff_sched_count
      BY <2>3, <2>4, <2>7, <2>11 DEF SpusType
    <3>3. SameButUsed(spus, spus')
      BY <2>6, <2>7, <3>2 DEF SameButUsed
    <3>4. PlacedOK(spus', th)
      BY <3>3, UsedNotCounted, CountNow
    <3>5. PlacedOK(spus', th')
      BY <1>1, <2>6, <2>10, <3>4, PlacedQuiet
    <3> QED
      BY <1>1, <2>8, <2>10, <3>1, <3>5, CountNow, CountStep
  <2>12. CASE ref # NULL
    <3>1. x.pc = "location" /\ x.ctx = c
      BY <1>1, <2>2, <2>9, <2>12 DEF Steps, Local
    <3>2. \A h \in Gang : spus'.aff_sched_count[h] = spus.aff_sched_count[h]
                            + (IF h = GangOf[c] THEN 1 ELSE 0)
      BY <2>1, <2>3, <2>4, <2>7, <2>12 DEF SpusType
    <3>3. PICK d \in {-1, 1} : d = 1
      OBVIOUS
    <3>4. GangCounts(spus, spus', c, d)
      BY <2>3, <2>6, <2>7, <3>2, <3>3 DEF GangCounts
    <3>5. PlacedOK(spus', th')
      BY <1>1, <2>10, <3>1, <3>3, <3>4, CountNow, PlacedCounts
    <3> QED
      BY <1>1, <2>8, <2>10, <3>1, <3>5, CountNow, CountStep
  <2> QED
    BY <2>11, <2>12
<1> QED
  BY <1>5, <1>6

(* spu_get_idle() takes SPU s: the thread is about to load the context     *)
(* from now on.                                                            *)
LEMMA TakesCounts ==
  ASSUME SchedInv, CountInv, NEW t \in Thread, NEW s \in Spu, Takes(t, s),
         info' = info
  PROVE  CountInv'
<1>1. PICK x : x = Local("load", th[t].ctx, s, NULL, <<>>)
  OBVIOUS
<1>2. x.pc = "load" /\ x.ctx = th[t].ctx
  BY <1>1 DEF Local
<1>3. th' = [th EXCEPT ![t] = x]
  BY <1>1 DEF Takes, Steps
<1>4. MovesTo(th, th', t, x)
  BY <1>3, ShapeNow DEF MovesTo
<1>5. PlacedOK(spus, th')
  BY <1>2, <1>4, CountNow, PlacedQuiet
<1>6. spus' = [spus EXCEPT !.used = @ \cup {s}] /\ spus \in SpusType
  BY ShapeNow DEF Takes
<1>7. spus' \in SpusType
  BY <1>6 DEF SpusType
<1>8. SameButUsed(spus, spus')
  BY <1>6, <1>7, Zenon DEF SameButUsed, SpusType
<1>9. Counted(spus') /\ PlacedOK(spus', th')
  BY <1>5, <1>8, UsedNotCounted, CountNow
<1>10. \A c \in Ctx : info'[c] \in SchedInfo[c]
  BY CountNow
<1> QED
  BY <1>2, <1>4, <1>9, <1>10, CountStep

(* The search goes on, or the context is queued.                           *)
LEMMA NotFoundGoes ==
  ASSUME NEW c, NEW x \in NotFound(c)
  PROVE  x.pc \in {"victims", "queue"}
BY DEF NotFound, VictimSearch, Local

(* spu_get_idle() takes the SPU that the affinity asks for, or the gang    *)
(* counts the context down.                                                *)
LEMMA TakeLocationCounts ==
  ASSUME SchedInv, CountInv, NEW t \in Ctx \cup Saver, TakeLocation(t)
  PROVE  CountInv'
<1>1. t \in Thread /\ th[t].pc \in Activating /\ th[t].pc = "location"
      /\ info' = info
  BY Sorts DEF TakeLocation, Activating
<1>2. PICK c \in Ctx : c = th[t].ctx
  BY <1>1, InActivate
<1>3. th[t].spu \in Spu
  BY <1>1, ShapeNow DEF LocalsOf
<1>4. PICK s \in Spu : s = ctx_location(th[t].spu, aff_offset(c))
  BY <1>3, CtxLocation
<1>5. CASE Takes(t, s)
  BY <1>1, <1>5, TakesCounts
<1>6. CASE /\ spus' = [spus EXCEPT !.aff_sched_count[GangOf[c]] = @ - 1]
           /\ Steps(t, NotFound(c))
  <2>1. PICK x \in NotFound(c) : th' = [th EXCEPT ![t] = x]
    BY <1>6 DEF Steps
  <2>2. MovesTo(th, th', t, x) /\ x.pc # "trylock"
    BY <1>1, <2>1, NotFoundGoes, ShapeNow DEF MovesTo
  <2>3. PICK f : f = [spus.aff_sched_count EXCEPT ![GangOf[c]] = @ - 1]
    OBVIOUS
  <2>4. spus \in SpusType /\ spus.aff_sched_count \in [Gang -> Int]
    BY ShapeNow DEF SpusType
  <2>5. /\ f \in [Gang -> Int]
        /\ \A g \in Gang : f[g] = spus.aff_sched_count[g]
                                  + (IF g = GangOf[c] THEN -1 ELSE 0)
    <3>1. CASE GangOf[c] \in Gang
      BY <2>3, <2>4, <3>1
    <3>2. CASE GangOf[c] \notin Gang
      <4>1. f = spus.aff_sched_count
        BY <2>3, <2>4, <3>2
      <4>2. \A g \in Gang : spus.aff_sched_count[g] \in Int /\ g # GangOf[c]
        BY <2>4, <3>2
      <4> QED
        BY <2>4, <4>1, <4>2
    <3> QED
      BY <3>1, <3>2
  <2>6. spus' = [spus EXCEPT !.aff_sched_count = f]
    BY <1>6, <2>3
  <2>7. spus' \in SpusType
    BY <2>4, <2>5, <2>6 DEF SpusType
  <2>8. /\ spus'.ctxOf = spus.ctxOf /\ spus'.spuOf = spus.spuOf
        /\ spus'.nr_active = spus.nr_active
        /\ spus'.reserved_spus = spus.reserved_spus
        /\ spus'.busy_spus = spus.busy_spus /\ spus'.util_user = spus.util_user
        /\ spus'.time_slice = spus.time_slice
        /\ spus'.aff_sched_count = f
    BY <2>4, <2>6, Zenon DEF SpusType
  <2>9. Counted(spus')
    <3>1. Counted(spus)
      BY CountNow
    <3> QED
      BY <2>8, <3>1 DEF Counted, ActiveOK, ReservedOK, BusyOK, TicksOK, Active,
         ReservedOn, BusyOn
  <2>10. PICK d \in {-1, 1} : d = -1
    OBVIOUS
  <2>11. d # 1
    BY <2>10
  <2>12. GangCounts(spus, spus', c, d)
    BY <2>4, <2>5, <2>7, <2>8, <2>10 DEF GangCounts
  <2>13. PlacedOK(spus', th')
    BY <1>2, <2>2, <2>11, <2>12, CountNow, PlacedCounts
  <2> QED
    BY <1>1, <2>2, <2>9, <2>13, CountNow, CountStep
<1> QED
  BY <1>2, <1>4, <1>5, <1>6 DEF TakeLocation

(* spu_get_idle() takes a free SPU of a node, or looks elsewhere.          *)
LEMMA ScanNodeCounts ==
  ASSUME SchedInv, CountInv, NEW t \in Ctx \cup Saver, ScanNode(t)
  PROVE  CountInv'
<1> DEFINE todo == th[t].todo
           list == SpuList[Head(todo)]
           free == Range(list) \ spus.used
<1>1. t \in Thread /\ th[t].pc \in Activating /\ th[t].pc = "scan"
      /\ info' = info /\ DOMAIN th = Thread
  BY Sorts, ShapeNow DEF ScanNode, Activating
<1>2. todo \in Seq(Node) /\ th[t] \in Locals(t)
  BY <1>1, InActivate
<1>3. CASE todo # <<>> /\ free # {} /\ Takes(t, First(list, free))
  <2>1. Head(todo) \in Node
    BY <1>2, <1>3
  <2>2. list \in Seq(Spu) /\ Range(list) \cap free # {}
    BY <1>3, <2>1, SpuNodes
  <2>3. PICK s : s = First(list, free)
    OBVIOUS
  <2>4. s \in Spu
    BY <2>2, <2>3, FirstFound
  <2>5. Takes(t, s)
    BY <1>3, <2>3
  <2> HIDE DEF free, list
  <2> QED
    BY <1>1, <2>4, <2>5, TakesCounts
<1>4. CASE /\ th' = [th EXCEPT ![t].todo = NextAllowed(th[t].ctx, Tail(@))]
           /\ UNCHANGED spus
  <2>1. PICK rest : rest = NextAllowed(th[t].ctx, Tail(todo))
    OBVIOUS
  <2>2. th' = [th EXCEPT ![t].todo = rest]
    BY <1>4, <2>1
  <2>3. \A u \in Thread \ {t} : th'[u] = th[u]
    BY <2>2
  <2>4. th'[t].pc = "scan"
    BY <1>1, <1>2, <2>2 DEF Locals
  <2> QED
    BY <1>1, <1>4, <2>3, <2>4, CountQuiet
<1>5. CASE Steps(t, NotFound(th[t].ctx)) /\ UNCHANGED spus
  <2>1. PICK x \in NotFound(th[t].ctx) : th' = [th EXCEPT ![t] = x]
    BY <1>5 DEF Steps
  <2>2. th'[t].pc # "trylock" /\ \A u \in Thread \ {t} : th'[u] = th[u]
    BY <1>1, <2>1, NotFoundGoes
  <2> QED
    BY <1>1, <1>5, <2>2, CountQuiet
<1> QED
  BY <1>3, <1>4, <1>5 DEF ScanNode

(* find_victim() unloads a context from the SPU it points to, and counts   *)
(* down a node of its search; the thread is about to load its own.         *)
LEMMA TryVictimCounts ==
  ASSUME SchedInv, CountInv, NEW t \in Ctx \cup Saver, TryVictim(t)
  PROVE  CountInv'
<1>1. t \in Thread /\ th[t].pc \in Activating /\ th[t].pc = "trylock"
      /\ info' = info /\ DOMAIN th = Thread
  BY Sorts, ShapeNow DEF TryVictim, Activating
<1>2. PICK c : c = th[t].ctx
  OBVIOUS
<1>3. PICK d \in Ctx : d = th[t].new
  BY <1>1, ShapeNow DEF LocalsOf
<1>4. CASE VictimLost(c, d)
  <2>1. spus' = spus /\ Steps(t, NotFound(c))
    BY <1>2, <1>3, <1>4 DEF TryVictim
  <2>2. PICK x \in NotFound(c) : th' = [th EXCEPT ![t] = x]
    BY <2>1 DEF Steps
  <2>3. th'[t].pc # "trylock" /\ \A u \in Thread \ {t} : th'[u] = th[u]
    BY <1>1, <2>2, NotFoundGoes
  <2> QED
    BY <1>1, <2>1, <2>3, CountQuiet
<1>5. CASE ~VictimLost(c, d)
  <2>1. PICK s \in Spu : s = spus.spuOf[d]
    BY <1>5, ShapeNow DEF VictimLost
  <2>2. PICK n : n = Head(th[t].todo)
    OBVIOUS
  <2>3. n \in Node
    <3>1. th[t].todo \in Seq(Node) /\ th[t].todo # <<>>
      BY <1>1, InActivate DEF CountInv
    <3> QED
      BY <2>2, <3>1
  <2>4. PICK x : x = Local("load", c, s, NULL, <<>>)
    OBVIOUS
  <2>5. spus' = Unload(spus, n, s, d) /\ th' = [th EXCEPT ![t] = x]
    BY <1>2, <1>3, <1>5, <2>1, <2>2, <2>4 DEF TryVictim, Steps
  <2>6. x.pc = "load"
    BY <2>4 DEF Local
  <2>7. spus.ctxOf[s] = d
    BY <2>1, Sorts DEF SchedInv, BindingExact
  <2>8. Counted(spus') /\ PlacedOK(spus', th)
    BY <2>3, <2>5, <2>7, CountNow, UnloadCounts
  <2>9. MovesTo(th, th', t, x)
    BY <1>1, <2>5 DEF MovesTo
  <2>10. spus' \in SpusType
    BY <2>5, CountNow, UnloadEffect DEF Unloaded
  <2>11. PlacedOK(spus', th')
    BY <1>1, <2>8, <2>9, <2>10, PlacedQuiet
  <2> QED
    BY <1>1, <2>6, <2>8, <2>9, <2>11, CountNow, CountStep
<1> QED
  BY <1>4, <1>5

(* __spu_schedule() of the SPU that a thread has in its hands.             *)
LEMMA LoadStepCounts ==
  ASSUME SchedInv, CountInv, NEW t \in Thread, th[t].pc \in {"load", "handover"},
         NEW c \in Ctx, NEW s \in Spu, s = th[t].spu, info' = info,
         th[t].pc = "load" => th[t].ctx = c,
         spus' = Load(spus, s, c), \A u \in Thread \ {t} : th'[u] = th[u],
         th'[t].pc # "trylock"
  PROVE  CountInv'
<1>1. spus.ctxOf[s] = NULL
  BY DEF SchedInv, HandsExclusive, InHand
<1>2. /\ Counted(spus') /\ spus'.aff_sched_count = spus.aff_sched_count
      /\ OneMore(spus, spus', s, c)
  BY <1>1, CountNow, LoadCounts
<1>3. PICK x : x = th'[t]
  OBVIOUS
<1>4. MovesTo(th, th', t, x)
  BY <1>3 DEF MovesTo
<1>5. PlacedOK(spus', th')
  BY <1>2, <1>4, CountNow, PlacedLoads
<1> QED
  BY <1>2, <1>3, <1>4, <1>5, CountNow, CountStep

(* spu_activate() loads the context.                                       *)
LEMMA ActivateLoadCounts ==
  ASSUME SchedInv, CountInv, NEW t \in Ctx \cup Saver, ActivateLoad(t)
  PROVE  CountInv'
<1>1. t \in Thread /\ DOMAIN th = Thread /\ th[t].pc = "load" /\ info' = info
  BY Sorts, ShapeNow DEF ActivateLoad
<1>2. LocalsOf(t, th[t])
  BY <1>1, ShapeNow
<1>3. PICK s \in Spu : s = th[t].spu
  BY <1>1, <1>2 DEF LocalsOf
<1>4. PICK c \in Ctx : c = th[t].ctx
  BY <1>1, <1>2 DEF LocalsOf, Holding, Activating
<1>5. spus' = Load(spus, s, c)
  BY <1>3, <1>4 DEF ActivateLoad
<1>6. \A u \in Thread \ {t} : th'[u] = th[u]
  BY <1>1 DEF ActivateLoad, Activated, At, Rests
<1>7. th'[t].pc # "trylock"
  BY <1>1 DEF ActivateLoad, Activated, At, Rests, Idle, Local
<1> QED
  BY <1>1, <1>3, <1>4, <1>5, <1>6, <1>7, LoadStepCounts

(* spu_schedule() loads the context it was given, or loads none.           *)
LEMMA ScheduleCounts ==
  ASSUME SchedInv, CountInv, NEW t \in Thread, spu_schedule(t)
  PROVE  CountInv'
<1>1. DOMAIN th = Thread /\ th[t].pc = "handover" /\ LocalsOf(t, th[t])
      /\ info' = info
  BY ShapeNow DEF spu_schedule
<1>2. PICK s \in Spu : s = th[t].spu
  BY <1>1 DEF LocalsOf
<1>3. PICK d \in Ctx : d = th[t].new
  BY <1>1 DEF LocalsOf
<1>4. \A u \in Thread \ {t} : th'[u] = th[u]
  BY <1>1 DEF spu_schedule, Steps
<1>5. th'[t].pc # "trylock"
  BY <1>1 DEF spu_schedule, Steps, Idle, Local
<1>6. CASE spus.spuOf[d] = NULL
  <2>1. spus' = Load(spus, s, d)
    BY <1>2, <1>3, <1>6 DEF spu_schedule
  <2> QED
    BY <1>1, <1>2, <1>4, <1>5, <2>1, LoadStepCounts
<1>7. CASE spus.spuOf[d] # NULL
  <2>1. spus' = spus
    BY <1>3, <1>7 DEF spu_schedule
  <2> QED
    BY <1>1, <1>4, <1>5, <2>1, CountQuiet
<1> QED
  BY <1>6, <1>7

(* Where a thread is after a step to one place.                            *)
LEMMA StepsTo ==
  ASSUME NEW t \in Thread, DOMAIN th = Thread,
         NEW pc, NEW c, NEW s, NEW d, NEW todo,
         Steps(t, {Local(pc, c, s, d, todo)})
  PROVE  th'[t].pc = pc
BY DEF Steps, Local

(* spu_unschedule() by a thread that is not about to load a context.       *)
LEMMA UnscheduleStep ==
  ASSUME SchedInv, CountInv, NEW t \in Thread, th[t].pc \notin {"location", "load"},
         NEW c \in Ctx, NEW s \in Spu, s = spus.spuOf[c], NEW free,
         NEW l \in SpusType, l.ctxOf = spus.ctxOf, Counted(l),
         \A T : PlacedOK(spus, T) => PlacedOK(l, T),
         spus' = spu_unschedule(l, s, c, free), info' = info,
         \A u \in Thread \ {t} : th'[u] = th[u], th'[t].pc # "trylock"
  PROVE  CountInv'
<1>1. spus.ctxOf[s] = c
  BY Sorts DEF SchedInv, BindingExact
<1>2. Counted(spus') /\ \A T : PlacedOK(l, T) => PlacedOK(spus', T)
  BY <1>1, UnscheduleCounts
<1>3. PICK x : x = th'[t]
  OBVIOUS
<1>4. MovesTo(th, th', t, x)
  BY <1>3 DEF MovesTo
<1>5. PlacedOK(spus, th')
  BY <1>4, CountNow, PlacedQuiet
<1>6. PlacedOK(spus', th')
  BY <1>2, <1>5
<1> QED
  BY <1>2, <1>3, <1>4, <1>6, CountNow, CountStep

(* __spu_deactivate() counts down what it unloads.                         *)
LEMMA DeactivateCounts ==
  ASSUME SchedInv, CountInv, NEW t \in Thread,
         th[t].pc \notin {"location", "load"},
         NEW c \in Ctx, NEW force, NEW end, NEW own, end.pc # "trylock",
         __spu_deactivate(t, c, force, end, own), info' = info
  PROVE  CountInv'
<1>1. DOMAIN th = Thread /\ spus \in SpusType
  BY ShapeNow
<1>2. \A u \in Thread \ {t} : th'[u] = th[u]
  BY <1>1 DEF __spu_deactivate, Steps
<1>3. PICK s \in Spu \cup {NULL} : s = spus.spuOf[c]
  BY ShapeNow
<1>4. PICK new : new = IF s = NULL THEN NULL
                 ELSE grab_runnable_context(spu_prio, MAX_PRIO, NodeOf(s))
  OBVIOUS
<1>5. th'[t].pc # "trylock"
  BY <1>1 DEF __spu_deactivate, Steps, Local
<1>6. CASE spus' = spus
  BY <1>2, <1>5, <1>6, CountQuiet
<1>7. CASE s # NULL /\ spus' = spu_unschedule(spus, s, c, new = NULL)
  <2>1. s \in Spu
    BY <1>7
  <2>2. PICK free : free = (new = NULL)
    OBVIOUS
  <2>3. spus' = spu_unschedule(spus, s, c, free)
    BY <1>7, <2>2
  <2>4. PICK l : l = spus
    OBVIOUS
  <2>5. /\ l \in SpusType /\ l.ctxOf = spus.ctxOf /\ Counted(l)
        /\ \A T : PlacedOK(spus, T) => PlacedOK(l, T)
        /\ spus' = spu_unschedule(l, s, c, free)
    BY <2>3, <2>4, CountNow
  <2> QED
    BY <1>2, <1>3, <1>5, <2>1, <2>5, UnscheduleStep
<1> QED
  BY <1>3, <1>4, <1>6, <1>7 DEF __spu_deactivate

(* spu_yield() and spu_acquire_saved().                                    *)
LEMMA UnloadsCount ==
  ASSUME SchedInv, CountInv,
         \/ \E t \in Ctx : spu_yield(t)
         \/ \E t \in Saver, c \in Saved : SaveBegins(t, c)
  PROVE  CountInv'
<1>1. ASSUME NEW t \in Ctx, spu_yield(t)
      PROVE  CountInv'
  <2>1. /\ t \in Thread /\ th[t].pc \notin {"location", "load"}
        /\ __spu_deactivate(t, t, FALSE, Idle, NULL) /\ info' = info
    BY <1>1, Sorts DEF spu_yield
  <2>2. Idle.pc # "trylock"
    BY DEF Idle, Local
  <2> QED
    BY <2>1, <2>2, DeactivateCounts
<1>2. ASSUME NEW t \in Saver, NEW c \in Saved, SaveBegins(t, c)
      PROVE  CountInv'
  <2>1. PICK end : end = Local("saved", c, NULL, NULL, <<>>)
    OBVIOUS
  <2>2. /\ t \in Thread /\ c \in Ctx /\ th[t].pc \notin {"location", "load"}
        /\ __spu_deactivate(t, c, TRUE, end, t) /\ info' = info
    BY <1>2, <2>1, Sorts DEF SaveBegins
  <2>3. end.pc # "trylock"
    BY <2>1 DEF Local
  <2> QED
    BY <2>2, <2>3, DeactivateCounts
<1> QED
  BY <1>1, <1>2

(* spu_run() switches the statistics of its context, and has the           *)
(* scheduling parameters read; spu_acquire_saved() goes on.                *)
LEMMA CallersCount ==
  ASSUME SchedInv, CountInv,
         \/ \E t \in Ctx : RunLoaded(t) \/ RunSaved(t) \/ RunEnds(t)
         \/ \E t \in Saver : SaveRetakes(t) \/ SaveEnds(t)
  PROVE  CountInv'
<1>1. PICK t \in Ctx \cup Saver :
        \/ t \in Ctx /\ (RunLoaded(t) \/ RunSaved(t) \/ RunEnds(t))
        \/ SaveRetakes(t) \/ SaveEnds(t)
  OBVIOUS
<1>2. t \in Thread /\ DOMAIN th = Thread
  BY Sorts, ShapeNow
<1>3. \A u \in Thread \ {t} : th'[u] = th[u]
  BY <1>1, <1>2 DEF RunLoaded, RunSaved, RunEnds, SaveRetakes, SaveEnds, Steps,
     At, Rests
<1>4. th[t].pc \notin {"location", "load"} /\ th'[t].pc # "trylock"
  <2>1. th[t].pc \notin {"location", "load"}
    BY <1>1 DEF RunLoaded, RunSaved, RunEnds, SaveRetakes, SaveEnds
  <2>2. CASE RunLoaded(t) \/ RunSaved(t)
    BY <1>2, <2>2, StepsTo DEF RunLoaded, RunSaved
  <2>3. CASE RunEnds(t)
    BY <1>2, <2>3 DEF RunEnds, At, Rests, Idle, Local
  <2>4. CASE SaveRetakes(t) \/ SaveEnds(t)
    BY <1>2, <2>4 DEF SaveRetakes, SaveEnds, At, Rests, Idle, Local
  <2> QED
    BY <1>1, <2>1, <2>2, <2>3, <2>4
<1>5. CASE SaveRetakes(t) \/ SaveEnds(t)
  <2>1. spus' = spus /\ info' = info
    BY <1>5 DEF SaveRetakes, SaveEnds
  <2> QED
    BY <1>2, <1>3, <1>4, <2>1, CountQuiet
<1>6. CASE t \in Ctx /\ (RunLoaded(t) \/ RunSaved(t) \/ RunEnds(t))
  <2>1. PICK user \in BOOLEAN : spus' = spuctx_switch_state(spus, t, user)
    BY <1>6 DEF RunLoaded, RunSaved, RunEnds
  <2>2. SameCounts(spus, spus') /\ BusyOK(spus')
    BY <1>6, <2>1, CountNow, SwitchCounts DEF Counted
  <2>3. Counted(spus)
    BY CountNow
  <2>4. Counted(spus')
    BY <2>2, <2>3 DEF SameCounts, SameBinding, Counted, ActiveOK, ReservedOK,
       TicksOK, Active, ReservedOn
  <2>5. PICK x : x = th'[t]
    OBVIOUS
  <2>6. MovesTo(th, th', t, x)
    BY <1>2, <1>3, <2>5 DEF MovesTo
  <2>7. PlacedOK(spus, th')
    BY <1>4, <2>6, CountNow, PlacedQuiet
  <2>8. PlacedOK(spus', th')
    BY <2>2, <2>7 DEF SameCounts, SameBinding, PlacedOK, GangSpus
  <2>9. \A c \in Ctx : info'[c] \in SchedInfo[c]
    <3>1. CASE RunEnds(t)
      BY <3>1, CountNow DEF RunEnds
    <3>2. CASE RunLoaded(t) \/ RunSaved(t)
      <4>1. PICK i \in SchedInfo[t] : info' = [info EXCEPT ![t] = i]
        BY <3>2 DEF RunLoaded, RunSaved, spu_update_sched_info
      <4> QED
        BY <4>1, CountNow
    <3> QED
      BY <1>6, <3>1, <3>2
  <2> QED
    BY <1>4, <2>4, <2>5, <2>6, <2>8, <2>9, CountStep
<1> QED
  BY <1>1, <1>5, <1>6

(* spusched_tick() takes a tick from a context that has one, and counts    *)
(* down what it preempts.                                                  *)
LEMMA TickCounts ==
  ASSUME SchedInv, CountInv, spusched_tick
  PROVE  CountInv'
<1>1. spusched \in Thread /\ DOMAIN th = Thread /\ spus \in SpusType
      /\ th[spusched].pc = "tick" /\ info' = info
  BY Sorts, ShapeNow DEF spusched_tick
<1>2. \A u \in Thread \ {spusched} : th'[u] = th[u]
  BY <1>1 DEF spusched_tick, Steps
<1>3. th'[spusched].pc # "trylock"
  <2>1. \/ Steps(spusched, {Local("walk", NULL, NULL, NULL, th[spusched].todo)})
        \/ \E s, d : Steps(spusched,
             {Local("handover", NULL, s, d, th[spusched].todo)})
    BY DEF spusched_tick
  <2> QED
    BY <1>1, <2>1, StepsTo
<1>4. PICK c \in Ctx : c = th[spusched].new
  BY <1>1, ShapeNow DEF LocalsOf
<1>5. PICK s \in Spu \cup {NULL} : s = spus.spuOf[c]
  BY ShapeNow
<1>6. CASE spus' = spus
  BY <1>1, <1>2, <1>3, <1>6, CountQuiet
<1>7. CASE s # NULL
  <2>1. PICK v \in Int : v = spus.time_slice[c] - 1
    BY ShapeNow
  <2>2. v >= 0
    <3>1. spus.time_slice[c] \in Int /\ spus.time_slice[c] >= 1
      BY <1>5, <1>7, ShapeNow DEF SchedInv, SliceInv
    <3> QED
      BY <2>1, <3>1
  <2>3. ASSUME NEW k \in Int, k >= 0, NEW m, m = [spus EXCEPT !.time_slice[c] = k]
        PROVE  /\ m \in SpusType /\ m.ctxOf = spus.ctxOf /\ m.time_slice[c] = k
               /\ Counted(m)
               /\ \A T : PlacedOK(spus, T) => PlacedOK(m, T)
    <3>1. m \in SpusType
      BY <1>1, <2>3 DEF SpusType
    <3>2. /\ m.ctxOf = spus.ctxOf /\ m.spuOf = spus.spuOf
          /\ m.nr_active = spus.nr_active
          /\ m.reserved_spus = spus.reserved_spus
          /\ m.busy_spus = spus.busy_spus /\ m.util_user = spus.util_user
          /\ m.aff_sched_count = spus.aff_sched_count
      BY <1>1, <2>3, Zenon DEF SpusType
    <3>3. m.time_slice = [spus.time_slice EXCEPT ![c] = k]
          /\ spus.time_slice \in [Ctx -> Int]
      BY <1>1, <2>3 DEF SpusType
    <3>4. Counted(spus)
      BY CountNow
    <3>5. TicksOK(m)
      BY <2>3, <3>3, <3>4 DEF Counted, TicksOK
    <3>6. Counted(m)
      BY <3>2, <3>4, <3>5 DEF Counted, ActiveOK, ReservedOK, BusyOK, Active,
         ReservedOn, BusyOn
    <3>7. \A T : PlacedOK(spus, T) => PlacedOK(m, T)
      BY <3>2 DEF PlacedOK, GangSpus
    <3> QED
      BY <3>1, <3>2, <3>3, <3>6, <3>7
  <2>4. PICK ticked : ticked = [spus EXCEPT !.time_slice[c] = @ - 1]
    OBVIOUS
  <2>5. ticked = [spus EXCEPT !.time_slice[c] = v]
    BY <2>1, <2>4
  <2>6. /\ ticked \in SpusType /\ ticked.ctxOf = spus.ctxOf
        /\ ticked.time_slice[c] = v /\ Counted(ticked)
        /\ \A T : PlacedOK(spus, T) => PlacedOK(ticked, T)
    BY <2>2, <2>3, <2>5
  <2>7. CASE spus' = [ticked EXCEPT !.time_slice[c] = Max({@, 1})]
    <3>1. PICK k \in Int : k = Max({v, 1}) /\ k >= 0
      <4>1. \E i \in {v, 1} : \A j \in {v, 1} : i >= j
        BY <2>2
      <4>2. Max({v, 1}) \in {v, 1}
        BY <4>1 DEF Max
      <4> QED
        BY <2>2, <4>2
    <3>2. spus' = [ticked EXCEPT !.time_slice[c] = k]
      BY <2>6, <2>7, <3>1
    <3>3. spus' = [spus EXCEPT !.time_slice[c] = k]
      BY <1>1, <2>5, <3>2 DEF SpusType
    <3>4. PICK m : m = spus'
      OBVIOUS
    <3>5. Counted(m) /\ (\A T : PlacedOK(spus, T) => PlacedOK(m, T))
      BY <2>3, <3>1, <3>3, <3>4
    <3>6. PICK x : x = th'[spusched]
      OBVIOUS
    <3>7. MovesTo(th, th', spusched, x)
      BY <1>1, <1>2, <3>6 DEF MovesTo
    <3>8. PlacedOK(spus, th')
      BY <1>1, <3>7, CountNow, PlacedQuiet
    <3>9. Counted(spus') /\ PlacedOK(spus', th')
      BY <3>4, <3>5, <3>8
    <3> QED
      BY <1>1, <1>3, <3>6, <3>7, <3>9, CountNow, CountStep
  <2>8. CASE spus' = spu_unschedule(ticked, s, c, FALSE)
    <3>1. s \in Spu /\ th[spusched].pc \notin {"location", "load"}
      BY <1>1, <1>5, <1>7
    <3>2. PICK free : free = FALSE
      OBVIOUS
    <3>3. spus' = spu_unschedule(ticked, s, c, free)
      BY <2>8, <3>2
    <3> QED
      BY <1>1, <1>2, <1>3, <1>5, <2>6, <3>1, <3>3, UnscheduleStep
  <2> QED
    BY <1>4, <1>5, <1>6, <2>4, <2>7, <2>8 DEF spusched_tick
<1> QED
  BY <1>4, <1>5, <1>6, <1>7 DEF spusched_tick

(* The timer and the walk of the spusched thread count nothing.            *)
LEMMA WalkCounts ==
  ASSUME SchedInv, CountInv, spusched_wake \/ spusched_thread
  PROVE  CountInv'
<1>1. spusched \in Thread /\ DOMAIN th = Thread
      /\ th[spusched] \in Locals(spusched)
  BY Sorts, ShapeNow
<1>2. \A u \in Thread \ {spusched} : th'[u] = th[u]
  BY <1>1 DEF spusched_wake, spusched_thread, Steps, Rests
<1>3. th[spusched].pc \in {"idle", "walk"} /\ spus' = spus /\ info' = info
  BY DEF spusched_wake, spusched_thread
<1>4. th'[spusched].pc # "trylock"
  <2>1. CASE spusched_wake
    BY <1>1, <2>1 DEF spusched_wake, Steps, Local
  <2>2. CASE spusched_thread
    <3>1. \/ th'[spusched].pc \in {"idle", "tick"}
          \/ \E todo : th' = [th EXCEPT ![spusched].todo = todo]
      <4>1. \/ Rests(spusched)
            \/ \E todo : th' = [th EXCEPT ![spusched].todo = todo]
            \/ \E c, rest : Steps(spusched, {Local("tick", NULL, NULL, c, rest)})
        BY <2>2, Zenon DEF spusched_thread
      <4>2. Rests(spusched) => th'[spusched].pc = "idle"
        BY <1>1 DEF Rests, Idle, Local
      <4> QED
        BY <1>1, <4>1, <4>2, StepsTo
    <3>2. ASSUME NEW todo, th' = [th EXCEPT ![spusched].todo = todo]
          PROVE  th'[spusched].pc = th[spusched].pc
      BY <1>1, <3>2 DEF Locals
    <3> QED
      BY <1>3, <3>1, <3>2
  <2> QED
    BY <2>1, <2>2
<1> QED
  BY <1>1, <1>2, <1>3, <1>4, CountQuiet

-----------------------------------------------------------------------------
(* The counters of sched.c are right.                                      *)

(* Before the first step nothing is counted.                               *)
LEMMA CountInit ==
  ASSUME Init
  PROVE  CountInv
<1>1. /\ \A s \in Spu : spus.ctxOf[s] = NULL
      /\ \A c \in Ctx : spus.spuOf[c] = NULL
      /\ spus.nr_active = [n \in Node |-> 0]
      /\ \A n \in Node : spus.reserved_spus[n] = 0 /\ spus.busy_spus[n] = 0
      /\ \A g \in Gang : spus.aff_sched_count[g] = 0
      /\ \A c \in Ctx : spus.time_slice[c] = Timeslice(info[c].prio)
  BY DEF Init
<1>2. Cardinality({}) = 0
  BY FS_EmptySet
<1>3. ActiveOK(spus)
  <2>1. Active(spus) = {}
    BY <1>1 DEF Active
  <2>2. PICK f : f = spus.nr_active
    OBVIOUS
  <2>3. f \in [Node -> Int] /\ \A n \in Node : f[n] = 0
    BY <1>1, <2>2
  <2>4. SumFunction(f) = 0
    BY <2>3, Finite, SumZero
  <2> QED
    BY <1>2, <2>1, <2>2, <2>4 DEF ActiveOK
<1>4. ReservedOK(spus) /\ BusyOK(spus)
  <2>1. ASSUME NEW n \in Node
        PROVE  ReservedOn(spus, n) = {} /\ BusyOn(spus, n) = {}
    <3>1. Range(SpuList[n]) \subseteq Spu
      BY SpuNodes
    <3>2. NULL \notin Range(SpuList[n])
      BY <3>1, Sorts
    <3> QED
      BY <1>1, <3>1, <3>2 DEF ReservedOn, BusyOn
  <2> QED
    BY <1>1, <1>2, <2>1 DEF ReservedOK, BusyOK
<1>5. TicksOK(spus)
  <2>1. ASSUME NEW c \in Ctx
        PROVE  spus.time_slice[c] >= 0
    <3>1. info[c].prio \in Prio
      BY InitHolds, ShapeNow, QueueNow DEF InfoType
    <3>2. PICK v \in Int : v = Timeslice(info[c].prio) /\ v >= 1
      BY <3>1, TimesliceType
    <3> QED
      BY <1>1, <3>2
  <2> QED
    BY <2>1 DEF TicksOK
<1>6. PlacedOK(spus, th)
  <2>1. ASSUME NEW g \in Gang
        PROVE  spus.aff_sched_count[g] <=
                 Cardinality(GangSpus(spus, g)) + Cardinality(Placing(th, g))
    BY <1>1, GangSpusFinite, PlacingFinite
  <2> QED
    BY <2>1 DEF PlacedOK
<1>7. \A t \in Thread : th[t].pc = "idle"
  BY DEF Init, Idle, Local
<1>8. \A c \in Ctx : info[c] \in SchedInfo[c]
  BY DEF Init
<1> QED
  BY <1>3, <1>4, <1>5, <1>6, <1>7, <1>8 DEF CountInv

(* Every step of the scheduler keeps the counters right.                   *)
LEMMA CountNext ==
  ASSUME SchedInv, CountInv, [Next]_vars
  PROVE  CountInv'
<1>1. CASE UNCHANGED <<spus, info, th>>
  BY <1>1 DEF CountInv
<1>2. ASSUME NEW t \in Ctx \cup Saver, Activate(t)
      PROVE  CountInv'
  BY <1>2, ActivateCounts, GetIdleCounts, TakeLocationCounts, ScanNodeCounts,
     TryVictimCounts, ActivateLoadCounts DEF Activate
<1>3. ASSUME NEW t \in Ctx,
             RunLoaded(t) \/ RunSaved(t) \/ RunEnds(t) \/ spu_yield(t)
      PROVE  CountInv'
  BY <1>3, CallersCount, UnloadsCount
<1>4. ASSUME NEW t \in Saver,
             \/ \E c \in Saved : SaveBegins(t, c)
             \/ SaveRetakes(t) \/ SaveEnds(t)
      PROVE  CountInv'
  BY <1>4, CallersCount, UnloadsCount
<1>5. ASSUME NEW t \in Thread, spu_schedule(t)
      PROVE  CountInv'
  BY <1>5, ScheduleCounts
<1>6. ASSUME NEW n \in Node, do_notify_spus_active(n)
      PROVE  CountInv'
  BY <1>1, <1>6 DEF do_notify_spus_active
<1>7. CASE spusched_wake \/ spusched_thread \/ spusched_tick
  BY <1>7, WalkCounts, TickCounts
<1>8. CASE UNCHANGED vars
  BY <1>1, <1>8 DEF vars
<1> QED
  BY <1>2, <1>3, <1>4, <1>5, <1>6, <1>7, <1>8 DEF Next

(* The counters that spu_bind_context(), spu_unbind_context(),             *)
(* __spu_schedule(), spu_unschedule(), find_victim() and                   *)
(* spuctx_switch_state() keep are right in every state.                    *)
THEOREM CountInvHolds == Spec => []CountInv
<1>1. Init => CountInv
  BY CountInit
<1>2. SchedInv /\ CountInv /\ [Next]_vars => CountInv'
  BY CountNext
<1> QED
  BY <1>1, <1>2, SchedInvHolds, PTL DEF Spec

(* The state has its type: the counters that are never negative count      *)
(* something, and a time slice is above its last tick when it is counted   *)
(* down.                                                                   *)
LEMMA TypeRight ==
  ASSUME SchedInv, CountInv
  PROVE  TypeOK
<1>1. /\ spus \in SpusType /\ spu_prio \in QueueType /\ spu_run \subseteq Ctx
      /\ owner \in [Ctx -> Thread \cup {NULL}] /\ woken \subseteq Thread
      /\ DOMAIN th = Thread /\ \A t \in Thread : th[t] \in Locals(t)
  BY DEF SchedInv, Shape
<1>2. spus.reserved_spus \in [Node -> Nat]
  <2>1. ASSUME NEW n \in Node
        PROVE  spus.reserved_spus[n] \in Nat
    <3>1. spus.reserved_spus[n] = Cardinality(ReservedOn(spus, n))
      BY DEF CountInv, ReservedOK
    <3>2. IsFiniteSet(ReservedOn(spus, n))
      BY Finite, FS_Subset, ReservedOn(spus, n) \subseteq Range(SpuList[n])
         DEF ReservedOn
    <3> QED
      BY <3>1, <3>2, FS_CardinalityType
  <2>2. spus.reserved_spus \in [Node -> Int]
    BY <1>1 DEF SpusType
  <2> QED
    BY <2>1, <2>2
<1>3. spus.busy_spus \in [Node -> Nat]
  <2>1. ASSUME NEW n \in Node
        PROVE  spus.busy_spus[n] \in Nat
    <3>1. spus.busy_spus[n] = Cardinality(BusyOn(spus, n))
      BY DEF CountInv, BusyOK
    <3>2. IsFiniteSet(BusyOn(spus, n))
      BY CtxAssumption, FS_Subset, BusyOn(spus, n) \subseteq Ctx DEF BusyOn
    <3> QED
      BY <3>1, <3>2, FS_CardinalityType
  <2>2. spus.busy_spus \in [Node -> Int]
    BY <1>1 DEF SpusType
  <2> QED
    BY <2>1, <2>2
<1>4. spus.time_slice \in [Ctx -> Nat]
  <2>1. spus.time_slice \in [Ctx -> Int]
    BY <1>1 DEF SpusType
  <2>2. \A c \in Ctx : spus.time_slice[c] >= 0
    BY DEF CountInv, TicksOK
  <2> QED
    BY <2>1, <2>2
<1>5. spu_prio.nr_waiting \in Nat
  BY QueuedFinite, QueueNow DEF QueueOK
<1>6. \A c \in Ctx : info[c] \in SchedInfo[c]
  BY DEF CountInv
<1>7. /\ spus.ctxOf \in [Spu -> Ctx \cup {NULL}]
      /\ spus.spuOf \in [Ctx -> Spu \cup {NULL}]
      /\ spus.used \subseteq Spu
      /\ spus.nr_active \in [Node -> Int]
      /\ spus.util_user \in [Ctx -> BOOLEAN]
      /\ spus.aff_ref_spu \in [Gang -> Spu \cup {NULL}]
      /\ spus.aff_sched_count \in [Gang -> Int]
  BY <1>1 DEF SpusType
<1>8. /\ spu_prio.runq \in [Prio -> Seq(Ctx)]
      /\ spu_prio.bitmap \subseteq Prio
      /\ spu_prio.armed \in BOOLEAN
  BY <1>1 DEF QueueType
<1> QED
  BY <1>1, <1>2, <1>3, <1>4, <1>5, <1>6, <1>7, <1>8 DEF TypeOK

(* count_active_contexts() is the number of SPUs with a context and of     *)
(* contexts that wait, although find_victim() may count down a node that   *)
(* the SPU is not on; reserved_spus, busy_spus and aff_sched_count agree   *)
(* with the SPUs and the contexts, and --ctx->time_slice never wraps.      *)
THEOREM CountsExactHolds == Spec => []CountsExact
<1>1. ASSUME SchedInv, CountInv
      PROVE  CountsExact
  <2>1. TypeOK
    BY <1>1, TypeRight
  <2>2. SumFunction(spus.nr_active) + spu_prio.nr_waiting =
          Cardinality({s \in Spu : spus.ctxOf[s] # NULL}) + Cardinality(Queued)
    <3>1. SumFunction(spus.nr_active) = Cardinality(Active(spus))
      BY <1>1 DEF CountInv, ActiveOK
    <3>2. spu_prio.nr_waiting = Cardinality(Queued)
      BY <1>1 DEF SchedInv, QueueExact
    <3> QED
      BY <3>1, <3>2 DEF Active
  <2>3. ASSUME NEW n \in Node
        PROVE  /\ spus.reserved_spus[n] =
                    Cardinality({s \in Loaded(n) : spus.ctxOf[s] \in NoSched})
               /\ spus.busy_spus[n] =
                    Cardinality({c \in Ctx : /\ spus.spuOf[c] \in Range(SpuList[n])
                                             /\ spus.util_user[c]})
    <3>1. {s \in Loaded(n) : spus.ctxOf[s] \in NoSched} = ReservedOn(spus, n)
      BY DEF Loaded, ReservedOn
    <3>2. spus.reserved_spus[n] = Cardinality(ReservedOn(spus, n))
          /\ spus.busy_spus[n] = Cardinality(BusyOn(spus, n))
      BY <1>1 DEF CountInv, ReservedOK, BusyOK
    <3> QED
      BY <3>1, <3>2 DEF BusyOn
  <2>4. ASSUME NEW g \in Gang
        PROVE  spus.aff_sched_count[g] <=
                 Cardinality({s \in Spu : /\ spus.ctxOf[s] # NULL
                                          /\ GangOf[spus.ctxOf[s]] = g})
                 + Cardinality({t \in Thread : /\ th[t].pc \in {"location", "load"}
                                               /\ GangOf[th[t].ctx] = g})
    BY <1>1 DEF CountInv, PlacedOK, GangSpus, Placing
  <2>5. \A c \in Ctx : spus.spuOf[c] # NULL => spus.time_slice[c] >= 1
    BY <1>1 DEF SchedInv, SliceInv
  <2> QED
    BY <2>1, <2>2, <2>3, <2>4, <2>5 DEF CountsExact
<1> QED
  BY <1>1, SchedInvHolds, CountInvHolds, PTL
=============================================================================
