--------------------------- MODULE PidAllocLemmas ---------------------------
(***************************************************************************)
(* Lemmas about PidAlloc: what put_pid_ns() does to the reference counts,  *)
(* what each step of alloc_pid(), free_pid() and put_pid() does to the     *)
(* struct pids, the locals and the index, and that the types and the       *)
(* reference counts of namespaces are kept (BaseStep).                     *)
(***************************************************************************)
EXTENDS PidAllocInv, FiniteSetTheorems, TLAPS

-----------------------------------------------------------------------------
(* Numbers, levels and counts.                                             *)

(* A nonempty set of naturals has a least element: the loop in             *)
(* put_pid_ns() that goes up to the parents comes to an end.               *)
LEMMA LeastNatural ==
  ASSUME NEW S \in SUBSET Nat, S # {}
  PROVE  \E x \in S : \A y \in S : x <= y
<1>1. IsWellFoundedOn(OpToRel(<, Nat), Nat)
  BY NatLessThanWellFounded
<1>2. PICK x \in S : \A y \in S : ~(<<y, x>> \in OpToRel(<, Nat))
  BY <1>1, WFMin
<1>3. \A y \in S : <<y, x>> \in OpToRel(<, Nat) <=> y < x
  BY DEF OpToRel
<1>4. \A y \in S : ~(y < x)
  BY <1>2, <1>3, Zenon
<1> HIDE <1>1, <1>2, <1>3
<1>5. QED
  BY <1>4

(* The levels of namespaces and the numbers of struct pids.                *)
LEMMA Ranges ==
  /\ 0 \in Level /\ Level \subseteq Nat
  /\ \A l \in Level : l >= 0 /\ l <= DEPTH /\ \A m \in 0 .. l : m \in Level
  /\ \A l \in Level : l > 0 => l - 1 \in Level
  /\ \A l \in Level : l < DEPTH <=> l + 1 \in Level
  /\ 1 \in Nr /\ Nr \subseteq Nat /\ 0 \notin Nr
  /\ \A n \in 0 .. PID_MAX - 1 : n # 0 <=> n \in Nr
BY SizeAssumption DEF Level, Nr

(* The flag bit of pid_allocated and the count below it.                   *)
LEMMA FlagBit ==
  ASSUME NEW c \in Nat, c < PIDNS_ADDING
  PROVE  c % PIDNS_ADDING = c /\ (c + PIDNS_ADDING) % PIDNS_ADDING = c
BY AddingAssumption

(* The struct pids of a kind can be counted, and are fewer than the flag.  *)
LEMMA PidsCount ==
  ASSUME NEW S \in SUBSET Pid
  PROVE  /\ IsFiniteSet(S) /\ Cardinality(S) \in Nat
         /\ Cardinality(S) + 2 < PIDNS_ADDING
<1>1. IsFiniteSet(S) /\ Cardinality(S) <= Cardinality(Pid)
  BY FS_Subset, PidAssumption
<1>2. Cardinality(S) \in Nat /\ Cardinality(Pid) \in Nat
  BY <1>1, FS_CardinalityType, PidAssumption
<1>3. QED
  BY <1>1, <1>2, AddingAssumption
-----------------------------------------------------------------------------
(* put_pid_ns().                                                           *)

(* The level where put_pid_ns() stops is the first one above whose count   *)
(* is not 1, or init_pid_ns.                                               *)
LEMMA PutStops ==
  ASSUME NEW l \in Level
  PROVE  /\ PutStopsAt(l) \in 0 .. l
         /\ PutStopsAt(l) = 0 \/ kref[PutStopsAt(l)] # 1
         /\ \A j \in PutStopsAt(l) + 1 .. l : kref[j] = 1
<1> DEFINE S == {d \in 0 .. l : l - d = 0 \/ kref[l - d] # 1}
<1>1. S \in SUBSET Nat /\ l \in S
  BY Ranges
<1>2. PICK x \in S : \A y \in S : x <= y
  BY <1>1, LeastNatural
<1>3. l - x \in 0 .. l /\ (l - x = 0 \/ kref[l - x] # 1)
  BY <1>1, <1>2, Ranges
<1>4. ASSUME NEW j \in l - x + 1 .. l PROVE kref[j] = 1
  <2>1. l - j \in 0 .. l /\ l - j < x /\ l - (l - j) = j
    BY <1>1, <1>2, Ranges
  <2>2. l - j \notin S
    BY <1>1, <1>2, <2>1
  <2>3. QED
    BY <2>1, <2>2
<1>5. \E m \in 0 .. l : /\ m = 0 \/ kref[m] # 1
                        /\ \A j \in m + 1 .. l : kref[j] = 1
  BY <1>3, <1>4
<1>6. QED
  BY <1>5 DEF PutStopsAt

(* One dropped reference to a namespace (put_pid_ns()) keeps the counts    *)
(* exact, where holds[j] are the holders of j other than its child: those  *)
(* that are destroyed had no holder left, and the others keep their index. *)
LEMMA PutKeepsCounts ==
  ASSUME kref \in [Level -> Nat], map \in [Level -> [Nr -> Pid \cup {NULL, ABSENT}]],
         ChainInv, NEW l \in Level, put_pid_ns(l),
         NEW holds \in [Level -> Nat], NEW left \in [Level -> Nat],
         \A j \in Level \ {0} : kref[j] = holds[j] + One(j < DEPTH /\ Exists(j + 1)),
         l # 0 => left[l] = holds[l] - 1,
         \A j \in Level \ {0, l} : left[j] = holds[j]
  PROVE  /\ kref' \in [Level -> Nat]
         /\ map' \in [Level -> [Nr -> Pid \cup {NULL, ABSENT}]]
         /\ \A j \in Level \ {0} : kref'[j] = left[j] + One(j < DEPTH /\ Exists(j + 1)')
         /\ ChainInv'
         /\ \A j \in Level : Exists(j)' => Exists(j) /\ map'[j] = map[j]
         /\ \A j \in Level : map'[j] = map[j] \/ map'[j] = NoEntries
<1> DEFINE m == PutStopsAt(l)
<1>1. m \in 0 .. l /\ (m = 0 \/ kref[m] # 1) /\ \A j \in m + 1 .. l : kref[j] = 1
  BY PutStops
<1> HIDE DEF m
<1>2. \A j \in Level : /\ j > m /\ j <= l => kref'[j] = 0 /\ map'[j] = NoEntries
                       /\ j = m /\ m # 0 => kref'[j] = kref[j] - 1 /\ map'[j] = map[j]
                       /\ ~(j > m /\ j <= l) /\ ~(j = m /\ m # 0) =>
                            kref'[j] = kref[j] /\ map'[j] = map[j]
  BY <1>1, Ranges DEF put_pid_ns, m
<1>3. DOMAIN kref' = Level /\ kref' = [j \in Level |-> kref'[j]]
      /\ map' = [j \in Level |-> map'[j]]
  BY DEF put_pid_ns
<1>4. m # 0 => kref[m] >= 2
  <2>1. CASE m = l
    BY <1>1, <2>1, Ranges DEF One
  <2>2. CASE m < l
    BY <1>1, <2>2, Ranges DEF One, Exists
  <2>3. QED
    BY <1>1, <2>1, <2>2, Ranges
<1>5. kref' \in [Level -> Nat]
  <2>1. \A j \in Level : kref'[j] \in Nat
    BY <1>1, <1>2, <1>4, Ranges
  <2>2. QED
    BY <1>3, <2>1
<1>6. map' \in [Level -> [Nr -> Pid \cup {NULL, ABSENT}]]
  <2>1. \A j \in Level : map'[j] \in [Nr -> Pid \cup {NULL, ABSENT}]
    BY <1>2 DEF NoEntries
  <2>2. QED
    BY <1>3, <2>1
<1>7. ASSUME NEW j \in Level \ {0}
      PROVE  kref'[j] = left[j] + One(j < DEPTH /\ Exists(j + 1)')
  <2>1. kref[j] = holds[j] + One(j < DEPTH /\ Exists(j + 1)) /\ j \in Nat /\ l \in Nat
        /\ m \in Nat /\ m <= l /\ (j # l => left[j] = holds[j])
        /\ (j = l => left[j] = holds[j] - 1)
    BY <1>1, Ranges
  <2>2. j < DEPTH => j + 1 \in Level
    BY Ranges
  <2>3. CASE j > l
    <3>1. kref'[j] = kref[j] /\ (j < DEPTH => kref'[j + 1] = kref[j + 1])
      BY <1>2, <2>1, <2>2, <2>3
    <3>2. QED
      BY <2>1, <2>3, <3>1 DEF One, Exists
  <2>4. CASE j < m
    <3>1. kref'[j] = kref[j]
      BY <1>2, <2>1, <2>4
    <3>2. j < DEPTH /\ (Exists(j + 1)' <=> Exists(j + 1))
      BY <1>1, <1>2, <1>4, <2>1, <2>2, <2>4, Ranges DEF Exists
    <3>3. QED
      BY <2>1, <2>4, <3>1, <3>2 DEF One
  <2>5. CASE j = m /\ j = l
    <3>1. kref'[j] = kref[j] - 1 /\ (j < DEPTH => kref'[j + 1] = kref[j + 1])
      BY <1>2, <2>1, <2>2, <2>5
    <3>2. QED
      BY <2>1, <2>5, <3>1 DEF One, Exists
  <2>6. CASE j = m /\ j < l
    <3>1. kref'[j] = kref[j] - 1 /\ j < DEPTH /\ kref'[j + 1] = 0 /\ kref[j + 1] = 1
      BY <1>1, <1>2, <2>1, <2>2, <2>6, Ranges
    <3>2. QED
      BY <2>1, <2>6, <3>1 DEF One, Exists
  <2>7. CASE j > m /\ j < l
    <3>1. kref'[j] = 0 /\ kref[j] = 1 /\ j < DEPTH /\ kref'[j + 1] = 0 /\ kref[j + 1] = 1
      BY <1>1, <1>2, <2>1, <2>2, <2>7, Ranges
    <3>2. QED
      BY <2>1, <2>7, <3>1 DEF One, Exists
  <2>8. CASE j > m /\ j = l
    <3>1. kref'[j] = 0 /\ kref[j] = 1 /\ (j < DEPTH => kref'[j + 1] = kref[j + 1])
      BY <1>1, <1>2, <2>1, <2>2, <2>8, Ranges
    <3>2. QED
      BY <2>1, <2>8, <3>1 DEF One, Exists
  <2>9. QED
    BY <2>1, <2>3, <2>4, <2>5, <2>6, <2>7, <2>8
<1>8. \A j \in Level : Exists(j)' => Exists(j) /\ map'[j] = map[j]
  BY <1>1, <1>2, <1>4, Ranges DEF Exists
<1>9. ChainInv'
  <2>1. SUFFICES ASSUME NEW j \in Level, Exists(j)', NEW i \in 0 .. j, i # 0
                 PROVE  kref'[i] > 0
    BY DEF ChainInv, Exists
  <2>2. Exists(j) /\ kref[i] > 0 /\ i \in Level /\ i \in Nat /\ j \in Nat /\ m \in Nat
        /\ l \in Nat
    BY <1>1, <1>8, <2>1, Ranges DEF ChainInv, Exists
  <2>3. CASE i > m /\ i <= l
    <3>1. j > l
      BY <1>1, <1>2, <2>1, <2>2, <2>3, Ranges DEF Exists
    <3>2. l + 1 \in Level /\ Exists(l + 1) /\ l < DEPTH
      BY <1>1, <2>2, <3>1, Ranges DEF ChainInv
    <3>3. kref[l] = 1 /\ l # 0
      BY <1>1, <2>2, <2>3
    <3>4. left[l] \in Nat /\ holds[l] \in Nat /\ left[l] = holds[l] - 1
      BY <3>3
    <3>5. QED
      BY <3>2, <3>3, <3>4 DEF One
  <2>4. CASE ~(i > m /\ i <= l)
    BY <1>2, <1>4, <2>1, <2>2, <2>4
  <2>5. QED
    BY <2>3, <2>4
<1>10. QED
  BY <1>2, <1>5, <1>6, <1>7, <1>8, <1>9
-----------------------------------------------------------------------------
(* References to namespaces.                                               *)

(* The holders of a namespace other than its child.                        *)
Held(j) == One(nsproxy[j]) + One(proc_mnt[j]) + Cardinality(Referring(j))

(* The holders can be counted.                                             *)
LEMMA HeldNat ==
  /\ \A j \in Level : Held(j) \in Nat /\ Cardinality(Referring(j)) \in Nat
  /\ \A j \in Level : Held(j)' \in Nat /\ Cardinality(Referring(j))' \in Nat
<1>1. \A j \in Level : Referring(j) \in SUBSET Pid /\ Referring(j)' \in SUBSET Pid
  BY DEF Referring
<1>2. \A j \in Level : Cardinality(Referring(j)) \in Nat /\ Cardinality(Referring(j)') \in Nat
  BY <1>1, PidsCount
<1>3. QED
  BY <1>2 DEF Held, One

(* KrefExact in terms of Held.                                             *)
LEMMA KrefForm ==
  /\ KrefExact <=> \A j \in Level \ {0} :
                     kref[j] = Held(j) + One(j < DEPTH /\ Exists(j + 1))
  /\ KrefExact' <=> \A j \in Level \ {0} :
                      kref'[j] = Held(j)' + One(j < DEPTH /\ Exists(j + 1)')
<1> DEFINE K(j) == One(nsproxy[j]) + One(proc_mnt[j]) + One(j < DEPTH /\ Exists(j + 1))
                   + Cardinality(Referring(j))
<1>1. \A j \in Level : Cardinality(Referring(j)) \in Nat /\ Cardinality(Referring(j)') \in Nat
  BY HeldNat
<1>2. \A b : One(b) \in Nat
  BY DEF One
<1>3. \A j \in Level : /\ K(j) = Held(j) + One(j < DEPTH /\ Exists(j + 1))
                       /\ K(j)' = Held(j)' + One(j < DEPTH /\ Exists(j + 1)')
  BY <1>1, <1>2 DEF Held
<1>4. /\ KrefExact <=> \A j \in Level \ {0} : kref[j] = K(j)
      /\ KrefExact' <=> \A j \in Level \ {0} : kref'[j] = K(j)'
  BY DEF KrefExact, Referring
<1> HIDE DEF K
<1>5. QED
  BY <1>3, <1>4

(* A put of one holder's reference keeps the counts of references exact.   *)
LEMMA PutStep ==
  ASSUME TypeOK, KrefExact, ChainInv, NEW l \in Level, put_pid_ns(l),
         l # 0 => Held(l)' = Held(l) - 1,
         \A j \in Level \ {0, l} : Held(j)' = Held(j)
  PROVE  /\ kref' \in [Level -> Nat]
         /\ map' \in [Level -> [Nr -> Pid \cup {NULL, ABSENT}]]
         /\ KrefExact' /\ ChainInv'
         /\ \A j \in Level : Exists(j)' => Exists(j) /\ map'[j] = map[j]
         /\ \A j \in Level : map'[j] = map[j] \/ map'[j] = NoEntries
<1> DEFINE holds == [j \in Level |-> Held(j)]
           left == [j \in Level |-> Held(j)']
<1>1. holds \in [Level -> Nat] /\ left \in [Level -> Nat]
  BY HeldNat
<1>2. \A j \in Level : holds[j] = Held(j) /\ left[j] = Held(j)'
  OBVIOUS
<1>3. kref \in [Level -> Nat] /\ map \in [Level -> [Nr -> Pid \cup {NULL, ABSENT}]]
  BY DEF TypeOK
<1> HIDE DEF holds, left
<1>4. \A j \in Level \ {0} : kref[j] = holds[j] + One(j < DEPTH /\ Exists(j + 1))
  BY <1>2, KrefForm
<1>5. l # 0 => left[l] = holds[l] - 1
  BY <1>2
<1>6. \A j \in Level \ {0, l} : left[j] = holds[j]
  BY <1>2
<1>7. /\ kref' \in [Level -> Nat]
      /\ map' \in [Level -> [Nr -> Pid \cup {NULL, ABSENT}]]
      /\ \A j \in Level \ {0} : kref'[j] = left[j] + One(j < DEPTH /\ Exists(j + 1)')
      /\ ChainInv'
      /\ \A j \in Level : Exists(j)' => Exists(j) /\ map'[j] = map[j]
      /\ \A j \in Level : map'[j] = map[j] \/ map'[j] = NoEntries
  BY <1>1, <1>3, <1>4, <1>5, <1>6, PutKeepsCounts
<1>8. KrefExact'
  BY <1>2, <1>7, KrefForm
<1>9. QED
  BY <1>7, <1>8

(* A step that puts no reference.                                          *)
LEMMA NoPutStep ==
  ASSUME KrefExact, ChainInv, UNCHANGED kref,
         \A j \in Level \ {0} : Held(j)' = Held(j)
  PROVE  KrefExact' /\ ChainInv'
<1>1. \A j : Exists(j)' <=> Exists(j)
  BY DEF Exists
<1>2. QED
  BY <1>1, KrefForm DEF ChainInv

(* What holds a namespace keeps it, and every namespace above it.          *)
LEMMA HeldExists ==
  ASSUME TypeOK, KrefExact, ChainInv, NEW l \in Level, NEW m \in 0 .. l,
         \/ nsproxy[l]
         \/ proc_mnt[l]
         \/ \E p \in Pid : level[p] = l /\ HoldsNs(p)
  PROVE  Exists(m)
<1>1. Referring(l) \in SUBSET Pid
  BY DEF Referring
<1>2. (\E p \in Pid : level[p] = l /\ HoldsNs(p)) => Cardinality(Referring(l)) # 0
  BY <1>1, PidsCount, FS_EmptySet DEF Referring
<1>3. Held(l) >= 1
  BY <1>2, HeldNat DEF Held, One
<1>4. Exists(l)
  BY <1>3, KrefForm, HeldNat DEF Exists, One
<1>5. QED
  BY <1>4 DEF ChainInv

(* The same after a step.                                                  *)
LEMMA HeldExistsNext ==
  ASSUME TypeOK', KrefExact', ChainInv', NEW l \in Level, NEW m \in 0 .. l,
         \/ nsproxy'[l]
         \/ proc_mnt'[l]
         \/ \E p \in Pid : level'[p] = l /\ HoldsNs(p)'
  PROVE  Exists(m)'
<1>1. Referring(l)' \in SUBSET Pid
  BY DEF Referring
<1>2. (\E p \in Pid : level'[p] = l /\ HoldsNs(p)') => Cardinality(Referring(l)') # 0
  BY <1>1, PidsCount, FS_EmptySet DEF Referring
<1>3. Held(l)' >= 1
  BY <1>2, HeldNat DEF Held, One
<1>4. Exists(l)'
  BY <1>3, KrefForm, HeldNat DEF Exists, One
<1>5. QED
  BY <1>4 DEF ChainInv

(* A live struct pid keeps its namespaces.                                 *)
LEMMA LiveExists ==
  ASSUME TypeOK, KrefExact, ChainInv, NEW p \in Live, NEW m \in 0 .. level[p]
  PROVE  Exists(m)
<1>1. p \in Pid /\ HoldsNs(p) /\ level[p] \in Level
  BY DEF Live, HoldsNs, TypeOK
<1>2. QED
  BY <1>1, HeldExists

(* The same after a step.                                                  *)
LEMMA LiveExistsNext ==
  ASSUME TypeOK', KrefExact', ChainInv', NEW p \in Live', NEW m \in 0 .. level'[p]
  PROVE  Exists(m)'
<1>1. p \in Pid /\ HoldsNs(p)' /\ level'[p] \in Level
  BY DEF Live, HoldsNs, TypeOK
<1>2. QED
  BY <1>1, HeldExistsNext
-----------------------------------------------------------------------------
(* What the steps of alloc_pid() and its caller do to their own locals.    *)

(* A step of t that is in alloc_pid() stays in the same call.              *)
SameCall(t) ==
  /\ th' \in [Thread -> ThreadType]
  /\ th'[t].current = th[t].current /\ th'[t].ns = th[t].ns
  /\ th'[t].pc # "idle" /\ th[t].pc # "idle"
  /\ \A u \in Thread \ {t} : th'[u] = th[u]

(* The types of the locals.                                                *)
LEMMA ThreadFields ==
  ASSUME TypeOK, NEW t \in Thread
  PROVE  /\ th[t] \in ThreadType
         /\ th[t].ns \in Level /\ th[t].ns \in Nat /\ th[t].i \in -1 .. DEPTH
         /\ th[t].i \in Int
         /\ th[t].pid \in Pid \cup {NULL} /\ th[t].current \in Pid \cup {NULL}
<1>1. th[t] \in ThreadType
  BY DEF TypeOK
<1>2. /\ th[t].ns \in Level /\ th[t].i \in -1 .. DEPTH
      /\ th[t].pid \in Pid \cup {NULL} /\ th[t].current \in Pid \cup {NULL}
  BY <1>1 DEF ThreadType
<1>3. \A l \in Level : l \in Nat
  BY Ranges
<1>4. \A j \in -1 .. DEPTH : j \in Int
  OBVIOUS
<1>5. QED
  BY <1>1, <1>2, <1>3, <1>4, Zenon

(* Reserve() goes on to the next level up.                                 *)
LEMMA ReserveLocals ==
  ASSUME Inv, NEW t \in Thread, Reserve(t)
  PROVE  /\ SameCall(t) /\ th[t].pc = "reserve" /\ th'[t].pid = th[t].pid
         /\ th'[t].i = th[t].i - 1 /\ th[t].i >= 0 /\ th[t].i \in Level
         /\ th'[t].pc = IF th[t].i > 0 THEN "reserve" ELSE "prepare"
<1>1. th[t] \in ThreadType /\ th \in [Thread -> ThreadType]
  BY ThreadFields DEF Inv, TypeOK
<1>2. th[t].pc = "reserve" /\ th[t].i >= 0 /\ th[t].i \in -1 .. DEPTH
  BY ThreadFields DEF Reserve, Inv, ThreadInv, CallInv
<1>3. th' = [th EXCEPT ![t].i = th[t].i - 1, ![t].retval = 0,
                       ![t].pc = IF th[t].i > 0 THEN "reserve" ELSE "prepare"]
  BY DEF Reserve
<1>4. th[t].i \in Level /\ th[t].i - 1 \in -1 .. DEPTH
  BY <1>2, SizeAssumption DEF Level
<1>5. QED
  BY <1>1, <1>2, <1>3, <1>4 DEF ThreadType, SameCall

(* A step that only moves on to the next part of alloc_pid().              *)
LEMMA MoveLocals ==
  ASSUME TypeOK, NEW t \in Thread, NEW pc \in {"publish", "copy_process", "out_free"},
         th[t].pc # "idle", th' = [th EXCEPT ![t].pc = pc]
  PROVE  /\ SameCall(t) /\ th'[t].pid = th[t].pid /\ th'[t].i = th[t].i
         /\ th'[t].pc = pc
<1>1. th \in [Thread -> ThreadType] /\ th[t] \in ThreadType
  BY DEF TypeOK
<1>2. PICK r : r = [th[t] EXCEPT !.pc = pc]
  OBVIOUS
<1>3. /\ r \in ThreadType /\ r.pc = pc /\ r.pid = th[t].pid /\ r.i = th[t].i
      /\ r.ns = th[t].ns /\ r.current = th[t].current
  BY <1>1, <1>2 DEF ThreadType
<1>4. th' = [th EXCEPT ![t] = r]
  BY <1>2
<1>5. th'[t] = r /\ th' \in [Thread -> ThreadType] /\ \A u \in Thread \ {t} : th'[u] = th[u]
  BY <1>1, <1>3, <1>4
<1>6. QED
  BY <1>3, <1>5 DEF SameCall

(* A number could not be reserved.                                         *)
LEMMA ReserveFailsLocals ==
  ASSUME TypeOK, NEW t \in Thread, ReserveFails(t)
  PROVE  /\ SameCall(t) /\ th'[t].pid = th[t].pid /\ th'[t].i = th[t].i
         /\ th'[t].pc = "out_free" /\ th[t].pc = "reserve"
<1>1. th \in [Thread -> ThreadType] /\ th[t] \in ThreadType
  BY DEF TypeOK
<1>2. PICK r : r = [th[t] EXCEPT !.pc = "out_free", !.retval = -1]
  OBVIOUS
<1>3. /\ r \in ThreadType /\ r.pc = "out_free" /\ r.pid = th[t].pid /\ r.i = th[t].i
      /\ r.ns = th[t].ns /\ r.current = th[t].current
  BY <1>1, <1>2 DEF ThreadType
<1>4. th' = [th EXCEPT ![t] = r] /\ th[t].pc = "reserve"
  BY <1>2 DEF ReserveFails
<1>5. th'[t] = r /\ th' \in [Thread -> ThreadType] /\ \A u \in Thread \ {t} : th'[u] = th[u]
  BY <1>1, <1>3, <1>4
<1>6. QED
  BY <1>3, <1>4, <1>5 DEF SameCall

(* out_free lets go of the struct pid.                                     *)
LEMMA OutFreeLocals ==
  ASSUME TypeOK, NEW t \in Thread, OutFree(t)
  PROVE  /\ SameCall(t) /\ th'[t].pid = NULL
         /\ th'[t].pc = "failed" /\ th[t].pc = "out_free"
<1>1. th[t].pc = "out_free" /\ th' = [th EXCEPT ![t].pc = "failed", ![t].pid = NULL]
  BY DEF OutFree
<1>2. th \in [Thread -> ThreadType] /\ th[t] \in ThreadType
  BY DEF TypeOK
<1> DEFINE r == [th[t] EXCEPT !.pc = "failed", !.pid = NULL]
<1>3. /\ r \in ThreadType /\ r.pc = "failed" /\ r.pid = NULL
      /\ r.ns = th[t].ns /\ r.current = th[t].current
  BY <1>2 DEF ThreadType
<1>4. th' = [th EXCEPT ![t] = r]
  BY <1>1, <1>2
<1> HIDE DEF r
<1>5. QED
  BY <1>1, <1>2, <1>3, <1>4 DEF SameCall

(* The end of fork.                                                        *)
LEMMA IdleLocals ==
  ASSUME TypeOK, NEW t \in Thread, th' = [th EXCEPT ![t] = IdleThread]
  PROVE  /\ th' \in [Thread -> ThreadType] /\ th'[t].pc = "idle"
         /\ th'[t].pid = NULL
         /\ \A u \in Thread \ {t} : th'[u] = th[u]
<1>1. IdleThread \in ThreadType
  BY Ranges, SizeAssumption DEF IdleThread, ThreadType
<1>2. QED
  BY <1>1 DEF TypeOK, IdleThread

(* The call of alloc_pid().                                                *)
LEMMA CallLocals ==
  ASSUME TypeOK, NEW t \in Thread, NEW c \in Pid, NEW l \in Level, NEW p \in Pid,
         th' = [th EXCEPT ![t] = [pc |-> "reserve", current |-> c, ns |-> l,
                                  i |-> l, pid |-> p, retval |-> -12]]
  PROVE  /\ th' \in [Thread -> ThreadType]
         /\ th'[t].pc = "reserve" /\ th'[t].current = c /\ th'[t].ns = l
         /\ th'[t].i = l /\ th'[t].pid = p
         /\ \A u \in Thread \ {t} : th'[u] = th[u]
<1>1. l \in -1 .. DEPTH
  BY Ranges, SizeAssumption
<1>2. [pc |-> "reserve", current |-> c, ns |-> l, i |-> l, pid |-> p,
       retval |-> -12] \in ThreadType
  BY <1>1 DEF ThreadType
<1>3. QED
  BY <1>2 DEF TypeOK
-----------------------------------------------------------------------------
(* Which steps change the holders of a namespace.                          *)

(* A struct pid keeps holding its namespace.                               *)
LEMMA SameHolders ==
  ASSUME UNCHANGED <<nsproxy, proc_mnt>>,
         \A p \in Pid : HoldsNs(p)' <=> HoldsNs(p),
         \A p \in Pid : HoldsNs(p) => level'[p] = level[p]
  PROVE  \A j \in Level : Held(j)' = Held(j)
<1>1. \A j \in Level : Referring(j)' = Referring(j)
  BY DEF Referring
<1>2. QED
  BY <1>1 DEF Held

(* A step of alloc_pid() before get_pid_ns() or after its undoing.         *)
LEMMA SameHoldersThread ==
  ASSUME UNCHANGED <<nsproxy, proc_mnt, state, level>>, NEW t \in Thread,
         \A u \in Thread \ {t} : th'[u] = th[u],
         th[t].pc # "publish", th'[t].pc # "publish"
  PROVE  \A j \in Level : Held(j)' = Held(j)
<1>1. \A p \in Pid : HoldsNs(p)' <=> HoldsNs(p)
  BY DEF HoldsNs
<1>2. QED
  BY <1>1, SameHolders

(* One more struct pid holds its namespace, or one fewer.                  *)
LEMMA OneHolder ==
  ASSUME NEW q \in Pid, NEW l \in Level,
         \A p \in Pid \ {q} : HoldsNs(p)' <=> HoldsNs(p),
         \A p \in Pid \ {q} : HoldsNs(p) => level'[p] = level[p]
  PROVE  /\ level'[q] = l /\ HoldsNs(q)' /\ ~HoldsNs(q) =>
              /\ Cardinality(Referring(l))' = Cardinality(Referring(l)) + 1
              /\ \A j \in Level \ {l} :
                   Cardinality(Referring(j))' = Cardinality(Referring(j))
         /\ level[q] = l /\ HoldsNs(q) /\ ~HoldsNs(q)' =>
              /\ Cardinality(Referring(l))' = Cardinality(Referring(l)) - 1
              /\ \A j \in Level \ {l} :
                   Cardinality(Referring(j))' = Cardinality(Referring(j))
<1>1. \A j \in Level : IsFiniteSet(Referring(j))
  <2>1. \A j \in Level : Referring(j) \in SUBSET Pid
    BY DEF Referring
  <2>2. QED
    BY <2>1, PidsCount
<1>2. ASSUME level'[q] = l, HoldsNs(q)', ~HoldsNs(q)
      PROVE  /\ Cardinality(Referring(l))' = Cardinality(Referring(l)) + 1
             /\ \A j \in Level \ {l} :
                  Cardinality(Referring(j))' = Cardinality(Referring(j))
  <2>1. Referring(l)' = Referring(l) \cup {q} /\ q \notin Referring(l)
    BY <1>2 DEF Referring
  <2>2. \A j \in Level \ {l} : Referring(j)' = Referring(j)
    BY <1>2 DEF Referring
  <2>3. QED
    BY <1>1, <2>1, <2>2, FS_AddElement
<1>3. ASSUME level[q] = l, HoldsNs(q), ~HoldsNs(q)'
      PROVE  /\ Cardinality(Referring(l))' = Cardinality(Referring(l)) - 1
             /\ \A j \in Level \ {l} :
                  Cardinality(Referring(j))' = Cardinality(Referring(j))
  <2>1. Referring(l)' = Referring(l) \ {q} /\ q \in Referring(l)
    BY <1>3 DEF Referring
  <2>2. \A j \in Level \ {l} : Referring(j)' = Referring(j)
    BY <1>3 DEF Referring
  <2>3. QED
    BY <1>1, <2>1, <2>2, FS_RemoveElement
<1>4. QED
  BY <1>2, <1>3
-----------------------------------------------------------------------------
(* Types.                                                                  *)

(* The steps of zap_pid_ns_processes().                                    *)
LEMMA ZapTypes ==
  ASSUME Inv, NEW l \in Level, ZapStart(l) \/ ZapStep(l)
  PROVE  TypeOK'
<1>0. TypeOK /\ PIDNS_ADDING \in Nat \ {0}
  BY AddingAssumption, PidsCount, PidAssumption DEF Inv
<1>1. CASE ZapStart(l)
  <2>1. pid_allocated' \in [Level -> Nat]
    BY <1>0, <1>1 DEF TypeOK, ZapStart, disable_pid_allocation
  <2>2. init_tasks' \in [Level -> SUBSET Pid] /\ child_reaper' \in [Level -> Pid \cup {NULL}]
    BY <1>0, <1>1 DEF TypeOK, ZapStart
  <2>3. zap' \in [Level -> {"none", "signal", "wait", "check", "sleep", "done"}]
    BY <1>0, <1>1 DEF TypeOK, ZapStart
  <2>4. QED
    BY <1>0, <1>1, <2>1, <2>2, <2>3 DEF TypeOK, ZapStart, nsVars, refVars
<1>2. CASE ZapSignal(l)
  BY <1>0, <1>2 DEF TypeOK, ZapSignal, Reached, nsVars, refVars
<1>3. CASE ZapPrepareToSleep(l)
  BY <1>0, <1>3 DEF TypeOK, ZapPrepareToSleep, ZapMoves, nsVars, refVars
<1>4. CASE ZapDone(l)
  BY <1>0, <1>4 DEF TypeOK, ZapDone, ZapMoves, nsVars, refVars
<1>5. CASE ZapSleep(l)
  BY <1>0, <1>5 DEF TypeOK, ZapSleep, ZapMoves, nsVars, refVars
<1>6. CASE ZapWake(l)
  BY <1>0, <1>6 DEF TypeOK, ZapWake, ZapMoves, nsVars, refVars
<1>7. QED
  BY <1>1, <1>2, <1>3, <1>4, <1>5, <1>6 DEF ZapStep

(* The steps of readers that put no reference.                             *)
LEMMA ReaderTypes ==
  ASSUME Inv, NEW t \in Reader,
         (\E l \in Level, n \in Nr : find_vpid(t, l, n)) \/ get_pid(t)
  PROVE  TypeOK'
<1>0. TypeOK /\ (rd[t].pc # "idle" => rd[t].pid \in Pid)
  BY DEF Inv, RefInv
<1>1. ASSUME NEW l \in Level, NEW n \in Nr, find_vpid(t, l, n) PROVE TypeOK'
  <2>1. rd' \in [Reader -> ReaderType]
    BY <1>0, <1>1 DEF find_vpid, TypeOK, ReaderType
  <2>2. QED
    BY <1>0, <1>1, <2>1 DEF find_vpid, TypeOK, nsVars, zapVars
<1>2. CASE get_pid(t)
  <2>1. rd' \in [Reader -> ReaderType]
    <3>1. rd' = [rd EXCEPT ![t].pc = "holds"] /\ rd[t] \in ReaderType
      BY <1>0, <1>2 DEF get_pid, TypeOK
    <3>2. [rd[t] EXCEPT !.pc = "holds"] \in ReaderType
      BY <3>1 DEF ReaderType
    <3>3. QED
      BY <1>0, <3>1, <3>2 DEF TypeOK
  <2>2. count' \in [Pid -> Nat] /\ gp' \in [Pid -> SUBSET Reader]
    BY <1>0, <1>2 DEF get_pid, TypeOK
  <2>3. QED
    BY <1>0, <1>2, <2>1, <2>2 DEF get_pid, TypeOK, nsVars, zapVars
<1>3. QED
  BY <1>1, <1>2

(* The steps of alloc_pid() and its caller that free nothing.              *)
LEMMA AllocTypes ==
  ASSUME Inv, NEW t \in Thread,
         \/ \E c \in Pid, l \in Level : alloc_pid(t, c, l)
         \/ Reserve(t) \/ ReserveFails(t) \/ Prepare(t) \/ PrepareFails(t)
         \/ ReturnError(t) \/ AttachTask(t)
  PROVE  TypeOK'
<1>0. TypeOK /\ th[t] \in ThreadType /\ th[t].ns \in Level
  BY ThreadFields DEF Inv
<1>1. ASSUME NEW c \in Pid, NEW l \in Level, alloc_pid(t, c, l) PROVE TypeOK'
  <2>1. PICK p \in Pid :
          /\ state' = [state EXCEPT ![p] = "new"]
          /\ level' = [level EXCEPT ![p] = l]
          /\ th' = [th EXCEPT ![t] = [pc |-> "reserve", current |-> c, ns |-> l,
                                      i |-> l, pid |-> p, retval |-> -12]]
    BY <1>1 DEF alloc_pid
  <2>2. th' \in [Thread -> ThreadType]
    BY <1>0, <2>1, CallLocals
  <2>3. QED
    BY <1>0, <1>1, <2>1, <2>2 DEF TypeOK, alloc_pid, nsVars, zapVars, refVars
<1>2. CASE Reserve(t)
  <2>1. th' \in [Thread -> ThreadType] /\ th[t].i \in Level
    BY <1>2, ReserveLocals DEF SameCall
  <2>2. th[t].pid \in Pid
    BY <1>2 DEF Reserve, Inv, ThreadInv, CallInv, Reserving
  <2>3. PICK n \in Nr :
         /\ map' = [map EXCEPT ![th[t].i][n] = NULL]
         /\ last_pid' = [last_pid EXCEPT ![th[t].i] = n]
         /\ numbers' = [numbers EXCEPT ![th[t].pid][th[t].i] = n]
         /\ shared' = IF Holders(th[t].i, n) = {} THEN shared
                      ELSE shared \cup Holders(th[t].i, n) \cup {th[t].pid}
    BY <1>2 DEF Reserve
  <2>4. map' \in [Level -> [Nr -> Pid \cup {NULL, ABSENT}]]
    BY <1>0, <2>1, <2>3 DEF TypeOK
  <2>5. n \in 0 .. PID_MAX - 1 /\ n \in 0 .. PID_MAX
    BY SizeAssumption DEF Nr
  <2>6. last_pid' \in [Level -> 0 .. PID_MAX]
        /\ numbers' \in [Pid -> [Level -> 0 .. PID_MAX - 1]]
    BY <1>0, <2>1, <2>2, <2>3, <2>5 DEF TypeOK
  <2>7. shared' \subseteq Pid
    BY <1>0, <2>2, <2>3 DEF TypeOK, Holders
  <2>8. QED
    BY <1>0, <1>2, <2>1, <2>4, <2>6, <2>7 DEF TypeOK, Reserve, zapVars, refVars
<1>3. CASE ReserveFails(t)
  <2>1. th' \in [Thread -> ThreadType]
    BY <1>0, <1>3, ReserveFailsLocals DEF SameCall
  <2>2. QED
    BY <1>0, <1>3, <2>1 DEF TypeOK, ReserveFails, nsVars, zapVars, refVars
<1>4. CASE Prepare(t)
  <2>1. th' \in [Thread -> ThreadType]
    BY <1>0, <1>4, MoveLocals DEF SameCall, Prepare
  <2>2. kref' \in [Level -> Nat]
    BY <1>0, <1>4 DEF TypeOK, Prepare, get_pid_ns
  <2>3. proc_mnt' \in [Level -> BOOLEAN]
    BY <1>0, <1>4, Zenon DEF TypeOK, Prepare
  <2>4. count' \in [Pid -> Nat]
    BY <1>0, <1>4 DEF TypeOK, Prepare
  <2>5. QED
    BY <1>0, <1>4, <2>1, <2>2, <2>3, <2>4 DEF TypeOK, Prepare, zapVars
<1>5. CASE PrepareFails(t)
  <2>1. th' \in [Thread -> ThreadType]
    BY <1>0, <1>5, MoveLocals DEF SameCall, PrepareFails
  <2>2. QED
    BY <1>0, <1>5, <2>1 DEF TypeOK, PrepareFails, nsVars, zapVars, refVars
<1>6. CASE ReturnError(t)
  <2>1. th' \in [Thread -> ThreadType]
    BY <1>0, <1>6, IdleLocals DEF ReturnError
  <2>2. QED
    BY <1>0, <1>6, <2>1 DEF TypeOK, ReturnError, nsVars, zapVars, refVars
<1>7. CASE AttachTask(t)
  <2>1. th' \in [Thread -> ThreadType]
    BY <1>0, <1>7, IdleLocals DEF AttachTask
  <2>2. th[t].pid \in Pid
    BY <1>7 DEF AttachTask, Inv, ThreadInv, CallInv
  <2>3. state' \in [Pid -> {"free", "new", "published", "attached", "dead", "stale"}]
        /\ child_reaper' \in [Level -> Pid \cup {NULL}]
    BY <1>0, <1>7, <2>2 DEF TypeOK, AttachTask
  <2>4. QED
    BY <1>0, <1>7, <2>1, <2>3 DEF TypeOK, AttachTask, nsVars, zapVars, refVars
<1>8. QED
  BY <1>1, <1>2, <1>3, <1>4, <1>5, <1>6, <1>7

(* The struct pids counted on a level.                                     *)
LEMMA LiveAtCount ==
  ASSUME NEW l \in Level
  PROVE  /\ LiveAt(l) \in SUBSET Pid /\ IsFiniteSet(LiveAt(l))
         /\ Cardinality(LiveAt(l)) \in Nat
         /\ Cardinality(LiveAt(l)) + 2 < PIDNS_ADDING
<1>1. LiveAt(l) \in SUBSET Pid
  BY DEF LiveAt, Live
<1>2. QED
  BY <1>1, PidsCount

(* The namespaces of a live struct pid have counted it.                    *)
LEMMA Counted ==
  ASSUME Inv, NEW p \in Live, NEW l \in 0 .. level[p]
  PROVE  /\ l \in Level /\ Exists(l) /\ p \in LiveAt(l)
         /\ Cardinality(LiveAt(l)) >= 1 /\ pid_allocated[l] \in Nat
         /\ pid_allocated[l] = Cardinality(LiveAt(l))
            \/ pid_allocated[l] = Cardinality(LiveAt(l)) + PIDNS_ADDING
<1>1. p \in Pid /\ level[p] \in Level /\ level[p] \in Nat
  BY Ranges DEF Live, Inv, TypeOK
<1>2. l \in Level /\ l <= level[p]
  <2>1. \A j \in 0 .. level[p] : j \in Level
    BY <1>1, Ranges
  <2>2. QED
    BY <1>1, <2>1
<1>3. Exists(l)
  BY LiveExists DEF Inv
<1>4. p \in LiveAt(l)
  BY <1>2 DEF LiveAt
<1>5. Cardinality(LiveAt(l)) # 0 /\ Cardinality(LiveAt(l)) \in Nat
  BY <1>2, <1>4, LiveAtCount, FS_EmptySet
<1>6. QED
  BY <1>2, <1>3, <1>4, <1>5 DEF Inv, CountInv, TypeOK

(* What free_pid() does to the counts of the namespaces.                   *)
LEMMA FreeEffect ==
  ASSUME Inv, NEW p \in Live, free_pid(p)
  PROVE  /\ pid_allocated' \in [Level -> Nat]
         /\ \A l \in Level : l <= level[p] =>
              /\ pid_allocated[l] >= 1
              /\ pid_allocated'[l] = IF pid_allocated[l] = PIDNS_ADDING + 1 THEN 0
                                     ELSE pid_allocated[l] - 1
              /\ awake'[l] <=> (awake[l] \/ pid_allocated[l] - 1 \in {1, 2})
              /\ proc_work'[l] <=> (proc_work[l] \/ pid_allocated[l] - 1 \in {0, PIDNS_ADDING})
         /\ \A l \in Level : ~(l <= level[p]) =>
              /\ pid_allocated'[l] = pid_allocated[l]
              /\ (awake'[l] <=> awake[l]) /\ (proc_work'[l] <=> proc_work[l])
<1>0. p \in Pid /\ level[p] \in Level /\ level[p] \in Nat /\ TypeOK
      /\ \A l \in Level : l \in Nat
  BY Ranges DEF Live, Inv, TypeOK
<1>1. \A l \in Level : l \in 0 .. level[p] <=> l <= level[p]
  BY <1>0, Ranges
<1>2. \A l \in 0 .. level[p] : pid_allocated[l] >= 1 /\ pid_allocated[l] \in Nat
  <2>1. TAKE l \in 0 .. level[p]
  <2>2. QED
    BY Counted, LiveAtCount, AddingAssumption
<1>3. /\ \A l \in Level : l \notin 0 .. level[p] => pid_allocated'[l] = pid_allocated[l]
      /\ \A l \in Level : l \in 0 .. level[p] /\ pid_allocated[l] - 1 = PIDNS_ADDING =>
           pid_allocated'[l] = 0
      /\ \A l \in Level : l \in 0 .. level[p] /\ pid_allocated[l] - 1 # PIDNS_ADDING =>
           pid_allocated'[l] = pid_allocated[l] - 1
      /\ pid_allocated' = [l \in Level |-> pid_allocated'[l]]
  BY DEF free_pid
<1>4. \A l \in Level :
        /\ awake'[l] <=> (awake[l] \/ (l \in 0 .. level[p] /\ pid_allocated[l] - 1 \in {1, 2}))
        /\ proc_work'[l] <=> (proc_work[l] \/ (l \in 0 .. level[p]
                              /\ pid_allocated[l] - 1 \in {0, PIDNS_ADDING}))
  BY Zenon DEF free_pid, WakeCounts, CleanupCounts
<1>5. \A l \in Level : awake[l] \in BOOLEAN /\ proc_work[l] \in BOOLEAN
                       /\ pid_allocated[l] \in Nat
  BY <1>0 DEF TypeOK
<1>6. PIDNS_ADDING \in Nat
  BY AddingAssumption
<1>7. \A l \in Level : l <= level[p] =>
              /\ pid_allocated[l] >= 1
              /\ pid_allocated'[l] = IF pid_allocated[l] = PIDNS_ADDING + 1 THEN 0
                                     ELSE pid_allocated[l] - 1
  BY <1>1, <1>2, <1>3, <1>5, <1>6
<1>8. \A l \in Level : ~(l <= level[p]) => pid_allocated'[l] = pid_allocated[l]
  BY <1>1, <1>3
<1>9. pid_allocated' \in [Level -> Nat]
  <2>1. \A l \in Level : pid_allocated'[l] \in Nat
    BY <1>5, <1>7, <1>8
  <2>2. QED
    BY <1>3, <2>1
<1>10. /\ \A l \in Level : l <= level[p] =>
            /\ awake'[l] <=> (awake[l] \/ pid_allocated[l] - 1 \in {1, 2})
            /\ proc_work'[l] <=> (proc_work[l] \/ pid_allocated[l] - 1 \in {0, PIDNS_ADDING})
       /\ \A l \in Level : ~(l <= level[p]) => (awake'[l] <=> awake[l]) /\ (proc_work'[l] <=> proc_work[l])
  BY <1>1, <1>4, <1>5, Zenon
<1>11. QED
  BY <1>7, <1>8, <1>9, <1>10, Zenon

(* The numbers a struct pid leaves in the index.                           *)
LEMMA UnmapEffect ==
  ASSUME TypeOK, NEW p \in Pid, NEW L, map' = Unmap(p, L)
  PROVE  /\ map' \in [Level -> [Nr -> Pid \cup {NULL, ABSENT}]]
         /\ \A l \in Level, n \in Nr :
              map'[l][n] = IF l \in L /\ n = numbers[p][l] THEN ABSENT ELSE map[l][n]
<1>1. map \in [Level -> [Nr -> Pid \cup {NULL, ABSENT}]]
  BY DEF TypeOK
<1>2. map' = [l \in Level |-> IF l \in L THEN [map[l] EXCEPT ![numbers[p][l]] = ABSENT]
                                         ELSE map[l]]
  BY DEF Unmap
<1>3. QED
  BY <1>1, <1>2

(* free_pid() by a failing fork or an exiting task.                        *)
LEMMA FreeTypes ==
  ASSUME Inv, (\E t \in Thread : ForkFails(t)) \/ (\E p \in Pid : Exit(p))
  PROVE  TypeOK'
<1>0. TypeOK
  BY DEF Inv
<1>1. ASSUME NEW p \in Live, free_pid(p)
      PROVE  /\ pid_allocated' \in [Level -> Nat] /\ awake' \in [Level -> BOOLEAN]
             /\ proc_work' \in [Level -> BOOLEAN]
             /\ map' \in [Level -> [Nr -> Pid \cup {NULL, ABSENT}]]
             /\ state' \in [Pid -> {"free", "new", "published", "attached", "dead", "stale"}]
             /\ gp' \in [Pid -> SUBSET Reader]
  <2>0. p \in Pid
    BY DEF Live
  <2>1. pid_allocated' \in [Level -> Nat]
    BY <1>1, FreeEffect
  <2>2. map' \in [Level -> [Nr -> Pid \cup {NULL, ABSENT}]]
    BY <1>0, <1>1, <2>0, UnmapEffect DEF free_pid
  <2>3. awake' \in [Level -> BOOLEAN] /\ proc_work' \in [Level -> BOOLEAN]
    BY <1>0, <1>1, Zenon DEF free_pid
  <2>4. state' \in [Pid -> {"free", "new", "published", "attached", "dead", "stale"}]
        /\ gp' \in [Pid -> SUBSET Reader]
    BY <1>0, <1>1, <2>0 DEF free_pid, TypeOK, InSection
  <2>5. QED
    BY <2>1, <2>2, <2>3, <2>4
<1>2. ASSUME NEW t \in Thread, ForkFails(t) PROVE TypeOK'
  <2>1. th[t].pid \in Live /\ free_pid(th[t].pid)
    BY <1>2 DEF ForkFails, Inv, ThreadInv, CallInv, Live
  <2>2. th' \in [Thread -> ThreadType]
    BY <1>0, <1>2, IdleLocals DEF ForkFails
  <2>3. QED
    BY <1>0, <1>1, <1>2, <2>1, <2>2 DEF TypeOK, ForkFails, nsVars, zapVars
<1>3. ASSUME NEW p \in Pid, Exit(p) PROVE TypeOK'
  <2>1. p \in Live /\ free_pid(p)
    BY <1>3 DEF Exit, Live
  <2>2. init_tasks' \in [Level -> SUBSET Pid] /\ killed' \subseteq Pid
    BY <1>0, <1>3 DEF TypeOK, Exit
  <2>3. QED
    BY <1>0, <1>1, <1>3, <2>1, <2>2 DEF TypeOK, Exit, nsVars, zapVars
<1>4. QED
  BY <1>2, <1>3

(* What publishing does to the index and the counts.                       *)
LEMMA PublishEffect ==
  ASSUME Inv, NEW t \in Thread, Publish(t)
  PROVE  LET p == th[t].pid IN
         /\ p \in Pid /\ state[p] = "new" /\ level[p] = th[t].ns /\ th[t].i = -1
         /\ th[t].pc = "publish" /\ Adding(th[t].ns)
         /\ SameCall(t) /\ th'[t].pid = p /\ th'[t].i = th[t].i /\ th'[t].pc = "copy_process"
         /\ state' = [state EXCEPT ![p] = "published"]
         /\ \A l \in Level : l <= level[p] =>
              /\ pid_allocated'[l] = pid_allocated[l] + 1
              /\ numbers[p][l] \in Nr
         /\ \A l \in Level : ~(l <= level[p]) =>
              pid_allocated'[l] = pid_allocated[l] /\ map'[l] = map[l]
         /\ \A l \in Level, n \in Nr : l <= level[p] =>
              /\ n # numbers[p][l] => map'[l][n] = map[l][n]
              /\ n = numbers[p][l] =>
                   map'[l][n] = p \/ (map'[l][n] = ABSENT /\ map[l][n] = ABSENT)
         /\ map' \in [Level -> [Nr -> Pid \cup {NULL, ABSENT}]]
         /\ pid_allocated' \in [Level -> Nat]
<1> DEFINE p == th[t].pid
<1>1. /\ TypeOK /\ p \in Pid /\ state[p] = "new" /\ level[p] = th[t].ns /\ th[t].i = -1
      /\ th[t].pc = "publish" /\ Adding(th[t].ns)
      /\ \A l \in Level : numbers[p][l] # 0 <=> l \in th[t].i + 1 .. th[t].ns
  BY DEF Publish, Inv, ThreadInv, CallInv, Reserving
<1>2. /\ state' = [state EXCEPT ![p] = "published"]
      /\ th' = [th EXCEPT ![t].pc = "copy_process"]
      /\ pid_allocated' = [l \in Level |-> IF l \in 0 .. level[p] THEN pid_allocated[l] + 1
                                           ELSE pid_allocated[l]]
  BY DEF Publish, PublishedLevels
<1>3. PICK lost \in SUBSET {l \in 0 .. level[p] : InsertFails(l, numbers[p][l])} :
        map' = [l \in Level |-> IF l \in (0 .. level[p]) \ lost
                                THEN [map[l] EXCEPT ![numbers[p][l]] = p] ELSE map[l]]
  BY DEF Publish, PublishedLevels
<1>4. SameCall(t) /\ th'[t].pid = p /\ th'[t].i = th[t].i /\ th'[t].pc = "copy_process"
  BY <1>1, <1>2, MoveLocals
<1>5. level[p] \in Level /\ level[p] \in Nat /\ \A l \in Level : l \in Nat
  BY <1>1, Ranges DEF TypeOK
<1>6. \A l \in Level : l \in 0 .. level[p] <=> l <= level[p]
  BY <1>5
<1>7. \A l \in Level : l <= level[p] => numbers[p][l] \in Nr
  <2>1. \A l \in Level : numbers[p][l] \in 0 .. PID_MAX - 1
    BY <1>1 DEF TypeOK
  <2>2. th[t].i + 1 = 0
    BY <1>1
  <2>3. QED
    BY <1>1, <1>5, <1>6, <2>1, <2>2, Ranges
<1>8. \A l \in Level : pid_allocated[l] \in Nat /\ map[l] \in [Nr -> Pid \cup {NULL, ABSENT}]
  BY <1>1 DEF TypeOK
<1> HIDE DEF p
<1>9. /\ pid_allocated' \in [Level -> Nat]
      /\ \A l \in Level : l <= level[p] => pid_allocated'[l] = pid_allocated[l] + 1
      /\ \A l \in Level : ~(l <= level[p]) => pid_allocated'[l] = pid_allocated[l]
  BY <1>2, <1>6, <1>8
<1>10. \A l \in Level : ~(l <= level[p]) => map'[l] = map[l]
  BY <1>3, <1>6
<1>11. \A l \in lost : map[l][numbers[p][l]] = ABSENT
  BY <1>3 DEF InsertFails
<1>12. ASSUME NEW l \in Level, NEW n \in Nr, l <= level[p]
       PROVE  /\ n # numbers[p][l] => map'[l][n] = map[l][n]
              /\ n = numbers[p][l] =>
                   map'[l][n] = p \/ (map'[l][n] = ABSENT /\ map[l][n] = ABSENT)
  <2>1. CASE l \in lost
    BY <1>3, <1>11, <1>12, <2>1
  <2>2. CASE l \notin lost
    <3>1. map'[l] = [map[l] EXCEPT ![numbers[p][l]] = p]
      BY <1>3, <1>6, <1>12, <2>2
    <3>2. QED
      BY <1>8, <3>1
  <2>3. QED
    BY <2>1, <2>2
<1>13. map' \in [Level -> [Nr -> Pid \cup {NULL, ABSENT}]]
  <2>1. ASSUME NEW l \in Level PROVE map'[l] \in [Nr -> Pid \cup {NULL, ABSENT}]
    <3>1. map'[l] = map[l] \/ map'[l] = [map[l] EXCEPT ![numbers[p][l]] = p]
      BY <1>3
    <3>2. QED
      BY <1>1, <1>8, <3>1 DEF p
  <2>2. map' = [l \in Level |-> map'[l]]
    BY <1>3
  <2>3. QED
    BY <2>1, <2>2
<1>14. QED
  BY <1>1, <1>2, <1>4, <1>7, <1>9, <1>10, <1>12, <1>13 DEF p

(* Publishing, giving up, and the writes to ns_last_pid.                   *)
LEMMA PublishTypes ==
  ASSUME Inv,
         \/ \E t \in Thread : Publish(t) \/ OutFree(t)
         \/ \E l \in Level, n \in LastPidWrites : pid_ns_ctl_handler(l, n)
  PROVE  TypeOK'
<1>0. TypeOK
  BY DEF Inv
<1>1. ASSUME NEW t \in Thread, Publish(t) PROVE TypeOK'
  <2>1. /\ map' \in [Level -> [Nr -> Pid \cup {NULL, ABSENT}]]
        /\ pid_allocated' \in [Level -> Nat] /\ th' \in [Thread -> ThreadType]
        /\ th[t].pid \in Pid /\ state' = [state EXCEPT ![th[t].pid] = "published"]
    BY <1>1, PublishEffect DEF SameCall
  <2>2. state' \in [Pid -> {"free", "new", "published", "attached", "dead", "stale"}]
    BY <1>0, <2>1 DEF TypeOK
  <2>3. UNCHANGED <<last_pid, kref, nsproxy, child_reaper, proc_mnt, proc_work, zap, init_tasks,
                    missed, awake, level, numbers, count, gp, rd, killed, shared>>
    BY <1>1 DEF Publish, nsVars, zapVars, refVars
  <2>4. QED
    BY <1>0, <2>1, <2>2, <2>3 DEF TypeOK
<1>2. ASSUME NEW t \in Thread, OutFree(t) PROVE TypeOK'
  <2>1. th[t].pid \in Pid
    BY <1>2 DEF OutFree, Inv, ThreadInv, CallInv, Reserving
  <2>2. map' \in [Level -> [Nr -> Pid \cup {NULL, ABSENT}]]
    BY <1>0, <1>2, <2>1, UnmapEffect DEF OutFree
  <2>3. th' \in [Thread -> ThreadType]
    BY <1>0, <1>2, OutFreeLocals DEF SameCall
  <2>4. last_pid' \in [Level -> 0 .. PID_MAX]
    <3>1. last_pid' = last_pid \/ last_pid' = [last_pid EXCEPT ![th[t].ns] = 0]
      BY <1>2 DEF OutFree
    <3>2. 0 \in 0 .. PID_MAX
      BY SizeAssumption
    <3>3. last_pid \in [Level -> 0 .. PID_MAX]
      BY <1>0 DEF TypeOK
    <3>4. PICK S : S = 0 .. PID_MAX
      OBVIOUS
    <3>5. last_pid \in [Level -> S] /\ 0 \in S
      BY <3>2, <3>3, <3>4
    <3>6. last_pid' \in [Level -> S]
      BY <3>1, <3>5
    <3>7. QED
      BY <3>4, <3>6
  <2>5. numbers' \in [Pid -> [Level -> 0 .. PID_MAX - 1]]
    <3>1. NoNumbers \in [Level -> 0 .. PID_MAX - 1]
      BY SizeAssumption DEF NoNumbers
    <3>2. QED
      BY <1>0, <1>2, <2>1, <3>1 DEF TypeOK, OutFree, FreeObject
  <2>6. /\ level' \in [Pid -> Level] /\ shared' \subseteq Pid /\ count' \in [Pid -> Nat]
        /\ state' \in [Pid -> {"free", "new", "published", "attached", "dead", "stale"}]
    BY <1>0, <1>2, <2>1, Ranges DEF TypeOK, OutFree, FreeObject
  <2>7. QED
    BY <1>0, <1>2, <2>2, <2>3, <2>4, <2>5, <2>6 DEF TypeOK, OutFree, zapVars
<1>3. ASSUME NEW l \in Level, NEW n \in LastPidWrites, pid_ns_ctl_handler(l, n)
      PROVE  TypeOK'
  <2>1. last_pid' \in [Level -> 0 .. PID_MAX]
    BY <1>0, <1>3, SizeAssumption DEF TypeOK, pid_ns_ctl_handler
  <2>2. QED
    BY <1>0, <1>3, <2>1 DEF TypeOK, pid_ns_ctl_handler, zapVars, refVars
<1>4. QED
  BY <1>1, <1>2, <1>3
-----------------------------------------------------------------------------
(* The reference counts of namespaces: KrefExact and ChainInv.             *)

(* Only the call itself has the struct pid it allocates.                   *)
LEMMA OwnPid ==
  ASSUME Inv, NEW t \in Thread, th[t].pid # NULL, NEW u \in Thread, th[u].pid = th[t].pid
  PROVE  u = t
BY DEF Inv, ThreadInv, CallInv

(* A call of alloc_pid() that is about to publish has a new struct pid.    *)
LEMMA PublishingIsNew ==
  ASSUME Inv, NEW t \in Thread, th[t].pc = "publish"
  PROVE  th[t].pid \in Pid /\ state[th[t].pid] = "new" /\ level[th[t].pid] = th[t].ns
BY DEF Inv, ThreadInv, CallInv, Reserving

(* The namespace that is made holds its parent, and has one holder.        *)
LEMMA CreateBase ==
  ASSUME Inv, NEW l \in Level, create_pid_namespace(l)
  PROVE  TypeOK' /\ KrefExact' /\ ChainInv'
<1>0. TypeOK /\ KrefExact /\ ChainInv
  BY DEF Inv
<1>1. /\ l > 0 /\ ~Exists(l) /\ nsproxy[l - 1] /\ l - 1 \in Level /\ l \in Nat
      /\ DOMAIN kref = Level /\ kref \in [Level -> Nat]
  BY <1>0, Ranges DEF create_pid_namespace, TypeOK
<1>2. /\ kref' = get_pid_ns([kref EXCEPT ![l] = 1], l - 1)
      /\ nsproxy' = [nsproxy EXCEPT ![l] = TRUE]
      /\ UNCHANGED <<proc_mnt, state, level, th>>
  BY DEF create_pid_namespace
<1>3. /\ kref' \in [Level -> Nat] /\ kref'[l] = 1
      /\ l - 1 # 0 => kref'[l - 1] = kref[l - 1] + 1
      /\ \A j \in Level \ {l, l - 1} : kref'[j] = kref[j]
  BY <1>1, <1>2 DEF get_pid_ns
<1>4. TypeOK'
  <2>1. map' \in [Level -> [Nr -> Pid \cup {NULL, ABSENT}]]
    BY <1>0 DEF TypeOK, create_pid_namespace, NoEntries
  <2>2. last_pid' \in [Level -> 0 .. PID_MAX] /\ pid_allocated' \in [Level -> Nat]
    BY <1>0, SizeAssumption, AddingAssumption DEF TypeOK, create_pid_namespace
  <2>3. /\ child_reaper' \in [Level -> Pid \cup {NULL}]
        /\ nsproxy' \in [Level -> BOOLEAN] /\ awake' \in [Level -> BOOLEAN]
        /\ zap' \in [Level -> {"none", "signal", "wait", "check", "sleep", "done"}]
        /\ missed' \subseteq Level
    BY <1>0 DEF TypeOK, create_pid_namespace
  <2>4. QED
    BY <1>0, <1>3, <2>1, <2>2, <2>3 DEF TypeOK, create_pid_namespace, refVars
<1>5. ~nsproxy[l] /\ ~proc_mnt[l] /\ Referring(l) = {}
  <2>1. l \in 0 .. l
    BY <1>1
  <2>2. QED
    BY <1>0, <1>1, <2>1, HeldExists DEF Referring
<1>6. \A j \in Level : Referring(j)' = Referring(j)
  BY <1>2 DEF Referring, HoldsNs
<1>7. Held(l)' = 1 /\ \A j \in Level \ {l} : Held(j)' = Held(j)
  <2>1. \A j \in Level \ {l} : nsproxy'[j] = nsproxy[j]
    BY <1>0, <1>2 DEF TypeOK
  <2>2. \A j \in Level \ {l} : Held(j)' = Held(j)
    BY <1>2, <1>6, <2>1 DEF Held
  <2>3. nsproxy'[l] /\ ~proc_mnt'[l] /\ Referring(l)' = {}
    BY <1>0, <1>2, <1>5, <1>6 DEF TypeOK
  <2>4. Held(l)' = 1
    BY <2>3, FS_EmptySet DEF Held, One
  <2>5. QED
    BY <2>2, <2>4
<1>8. Exists(l - 1) /\ (l < DEPTH => ~Exists(l + 1))
  <2>1. l - 1 \in 0 .. l - 1
    BY <1>1
  <2>2. l < DEPTH => l + 1 \in Level /\ l \in 0 .. l + 1
    BY <1>1, Ranges
  <2>3. QED
    BY <1>0, <1>1, <2>1, <2>2, HeldExists DEF ChainInv
<1>9. KrefExact'
  <2>1. SUFFICES ASSUME NEW j \in Level \ {0}
                 PROVE  kref'[j] = Held(j)' + One(j < DEPTH /\ Exists(j + 1)')
    BY KrefForm
  <2>2. /\ kref[j] = Held(j) + One(j < DEPTH /\ Exists(j + 1)) /\ j \in Nat /\ Held(j) \in Nat
        /\ j < DEPTH => j + 1 \in Level
    BY <1>0, KrefForm, HeldNat, Ranges
  <2>3. CASE j = l
    BY <1>1, <1>3, <1>7, <1>8, <2>2, <2>3 DEF One, Exists
  <2>4. CASE j = l - 1
    <3>1. kref'[j] = kref[j] + 1 /\ Held(j)' = Held(j) /\ Exists(j + 1)' /\ ~Exists(j + 1)
          /\ j < DEPTH
      BY <1>1, <1>3, <1>7, <2>2, <2>4, Ranges DEF Exists
    <3>2. QED
      BY <2>2, <3>1 DEF One
  <2>5. CASE j # l /\ j # l - 1
    <3>1. kref'[j] = kref[j] /\ Held(j)' = Held(j)
      BY <1>3, <1>7, <2>5
    <3>2. j < DEPTH => (Exists(j + 1)' <=> Exists(j + 1))
      <4>1. j + 1 # l
        BY <1>1, <2>2, <2>5
      <4>2. CASE j + 1 = l - 1 /\ j < DEPTH
        BY <1>1, <1>3, <1>8, <2>2, <4>2 DEF Exists
      <4>3. CASE j + 1 # l - 1
        BY <1>3, <2>2, <4>1, <4>3 DEF Exists
      <4>4. QED
        BY <4>2, <4>3
    <3>3. QED
      BY <2>2, <3>1, <3>2 DEF One
  <2>6. QED
    BY <2>3, <2>4, <2>5
<1>10. ChainInv'
  <2>1. \A j \in Level : Exists(j) => Exists(j)'
    BY <1>1, <1>3 DEF Exists
  <2>2. \A j \in Level : Exists(j)' => Exists(j) \/ j = l
    <3>1. TAKE j \in Level
    <3>2. CASE j = l - 1
      BY <1>8, <3>2
    <3>3. CASE j # l - 1
      BY <1>3, <3>3 DEF Exists
    <3>4. QED
      BY <3>2, <3>3
  <2>3. \A i \in 0 .. l : Exists(i) \/ i = l
    BY <1>0, <1>1, <1>8 DEF ChainInv
  <2>4. Exists(l)'
    BY <1>3 DEF Exists
  <2>5. \A j \in Level : \A i \in 0 .. j : i \in Level
    BY Ranges
  <2>6. SUFFICES ASSUME NEW j \in Level, Exists(j)', NEW i \in 0 .. j
                 PROVE  Exists(i)'
    BY DEF ChainInv
  <2>7. i \in Level
    BY <2>5
  <2>8. CASE j = l
    BY <2>1, <2>3, <2>4, <2>7, <2>8
  <2>9. CASE Exists(j)
    BY <1>0, <2>1, <2>7, <2>9 DEF ChainInv
  <2>10. QED
    BY <2>2, <2>6, <2>8, <2>9
<1>11. QED
  BY <1>4, <1>9, <1>10

(* The nsproxy and the superblock of /proc put their references.           *)
LEMMA PutNsBase ==
  ASSUME Inv, NEW l \in Level, PutNsproxy(l) \/ proc_cleanup_work(l)
  PROVE  /\ TypeOK' /\ KrefExact' /\ ChainInv'
         /\ \A j \in Level : Exists(j)' => Exists(j) /\ map'[j] = map[j]
         /\ \A j \in Level : map'[j] = map[j] \/ map'[j] = NoEntries
<1>0. TypeOK /\ KrefExact /\ ChainInv
  BY DEF Inv
<1>1. UNCHANGED <<state, level, th>> => \A j \in Level : Referring(j)' = Referring(j)
  BY DEF Referring, HoldsNs
<1>2. CASE PutNsproxy(l)
  <2>1. /\ nsproxy[l] /\ put_pid_ns(l) /\ nsproxy' = [nsproxy EXCEPT ![l] = FALSE]
        /\ UNCHANGED <<state, level, th, proc_mnt>>
    BY <1>2 DEF PutNsproxy
  <2>2. ~nsproxy'[l] /\ \A j \in Level \ {l} : nsproxy'[j] = nsproxy[j]
    BY <1>0, <2>1 DEF TypeOK
  <2>3. \A j \in Level \ {l} : Held(j)' = Held(j)
    BY <1>1, <2>1, <2>2 DEF Held
  <2>4. Held(l)' = Held(l) - 1
    <3>1. Cardinality(Referring(l)) \in Nat /\ Referring(l)' = Referring(l)
      BY <1>1, <2>1, HeldNat
    <3>2. QED
      BY <2>1, <2>2, <3>1 DEF Held, One
  <2>5. /\ kref' \in [Level -> Nat]
        /\ map' \in [Level -> [Nr -> Pid \cup {NULL, ABSENT}]]
        /\ KrefExact' /\ ChainInv'
        /\ \A j \in Level : Exists(j)' => Exists(j) /\ map'[j] = map[j]
        /\ \A j \in Level : map'[j] = map[j] \/ map'[j] = NoEntries
    BY <1>0, <2>1, <2>3, <2>4, PutStep
  <2>6. nsproxy' \in [Level -> BOOLEAN]
    BY <1>0, <2>1 DEF TypeOK
  <2>7. TypeOK'
    BY <1>0, <1>2, <2>5, <2>6 DEF TypeOK, PutNsproxy, zapVars, refVars
  <2>8. QED
    BY <2>5, <2>7
<1>3. CASE proc_cleanup_work(l)
  <2>1. /\ proc_mnt' = [proc_mnt EXCEPT ![l] = FALSE]
        /\ proc_work' = [proc_work EXCEPT ![l] = FALSE]
        /\ IF proc_mnt[l] THEN put_pid_ns(l) ELSE UNCHANGED <<kref, map>>
        /\ UNCHANGED <<state, level, th, nsproxy>>
    BY <1>3 DEF proc_cleanup_work
  <2>2. ~proc_mnt'[l] /\ \A j \in Level \ {l} : proc_mnt'[j] = proc_mnt[j]
    BY <1>0, <2>1 DEF TypeOK
  <2>3. \A j \in Level \ {l} : Held(j)' = Held(j)
    BY <1>1, <2>1, <2>2 DEF Held
  <2>4. proc_mnt' \in [Level -> BOOLEAN] /\ proc_work' \in [Level -> BOOLEAN]
    BY <1>0, <2>1 DEF TypeOK
  <2>5. CASE proc_mnt[l]
    <3>1. Held(l)' = Held(l) - 1
      <4>1. Cardinality(Referring(l)) \in Nat /\ Referring(l)' = Referring(l)
        BY <1>1, <2>1, HeldNat
      <4>2. QED
        BY <2>1, <2>2, <2>5, <4>1 DEF Held, One
    <3>2. /\ kref' \in [Level -> Nat]
          /\ map' \in [Level -> [Nr -> Pid \cup {NULL, ABSENT}]]
          /\ KrefExact' /\ ChainInv'
          /\ \A j \in Level : Exists(j)' => Exists(j) /\ map'[j] = map[j]
          /\ \A j \in Level : map'[j] = map[j] \/ map'[j] = NoEntries
      BY <1>0, <2>1, <2>3, <2>5, <3>1, PutStep
    <3>3. TypeOK'
      BY <1>0, <1>3, <2>4, <3>2 DEF TypeOK, proc_cleanup_work, zapVars, refVars
    <3>4. QED
      BY <3>2, <3>3
  <2>6. CASE ~proc_mnt[l]
    <3>1. Held(l)' = Held(l)
      BY <1>1, <2>1, <2>2, <2>6 DEF Held, One
    <3>2. UNCHANGED <<kref, map>>
      BY <2>1, <2>6
    <3>3. KrefExact' /\ ChainInv'
      BY <1>0, <2>3, <3>1, <3>2, NoPutStep
    <3>4. TypeOK'
      BY <1>0, <1>3, <2>4, <3>2 DEF TypeOK, proc_cleanup_work, zapVars, refVars
    <3>5. QED
      BY <3>2, <3>3, <3>4 DEF Exists
  <2>7. QED
    BY <2>5, <2>6
<1>4. QED
  BY <1>2, <1>3

(* out_unlock puts the reference alloc_pid() took.                         *)
LEMMA RefusedBase ==
  ASSUME Inv, NEW t \in Thread, PublishRefused(t)
  PROVE  /\ TypeOK' /\ KrefExact' /\ ChainInv'
         /\ \A j \in Level : Exists(j)' => Exists(j) /\ map'[j] = map[j]
         /\ \A j \in Level : map'[j] = map[j] \/ map'[j] = NoEntries
<1>0. TypeOK /\ KrefExact /\ ChainInv
  BY DEF Inv
<1>1. /\ th[t].pc = "publish" /\ put_pid_ns(th[t].ns) /\ th' = [th EXCEPT ![t].pc = "out_free"]
      /\ UNCHANGED <<state, level, nsproxy, proc_mnt>>
  BY DEF PublishRefused
<1>2. PICK p \in Pid, l \in Level : p = th[t].pid /\ l = th[t].ns
  BY <1>0, <1>1, PublishingIsNew, ThreadFields
<1>3. state[p] = "new" /\ level[p] = l
  BY <1>1, <1>2, PublishingIsNew
<1>4. /\ SameCall(t) /\ th'[t].pid = p /\ th'[t].pc = "out_free"
  BY <1>0, <1>1, <1>2, MoveLocals
<1>5. HoldsNs(p) /\ ~HoldsNs(p)'
  <2>1. \A u \in Thread : th[u].pid = p => u = t
    BY <1>2, OwnPid, PidAssumption
  <2>2. \A u \in Thread : th'[u].pid = p => u = t
    BY <1>4, <2>1 DEF SameCall
  <2>3. QED
    BY <1>1, <1>2, <1>3, <1>4, <2>2 DEF HoldsNs
<1>6. \A q \in Pid \ {p} : HoldsNs(q)' <=> HoldsNs(q)
  BY <1>1, <1>2, <1>4 DEF HoldsNs, SameCall
<1>7. /\ Cardinality(Referring(l))' = Cardinality(Referring(l)) - 1
      /\ \A j \in Level \ {l} : Cardinality(Referring(j))' = Cardinality(Referring(j))
  BY <1>1, <1>3, <1>5, <1>6, OneHolder
<1>8. Held(l)' = Held(l) - 1 /\ \A j \in Level \ {l} : Held(j)' = Held(j)
  <2>1. Cardinality(Referring(l)) \in Nat
    BY HeldNat
  <2>2. QED
    BY <1>1, <1>7, <2>1 DEF Held, One
<1>9. /\ kref' \in [Level -> Nat]
      /\ map' \in [Level -> [Nr -> Pid \cup {NULL, ABSENT}]]
      /\ KrefExact' /\ ChainInv'
      /\ \A j \in Level : Exists(j)' => Exists(j) /\ map'[j] = map[j]
      /\ \A j \in Level : map'[j] = map[j] \/ map'[j] = NoEntries
  BY <1>0, <1>1, <1>2, <1>8, PutStep
<1>10. TypeOK'
  BY <1>0, <1>4, <1>9 DEF TypeOK, PublishRefused, zapVars, refVars, SameCall
<1>11. QED
  BY <1>9, <1>10

(* The last put_pid() drops the struct pid's reference to its namespace.   *)
LEMMA PutPidBase ==
  ASSUME Inv, NEW p \in Pid, state[p] \notin {"free", "new"}, count[p] >= 1,
         NEW left \in {"published", "attached", "dead", "stale"}, put_pid(p, left),
         UNCHANGED <<nsproxy, proc_mnt, th>>
  PROVE  /\ kref' \in [Level -> Nat]
         /\ map' \in [Level -> [Nr -> Pid \cup {NULL, ABSENT}]]
         /\ state' \in [Pid -> {"free", "new", "published", "attached", "dead", "stale"}]
         /\ level' \in [Pid -> Level]
         /\ numbers' \in [Pid -> [Level -> 0 .. PID_MAX - 1]]
         /\ count' \in [Pid -> Nat] /\ shared' \subseteq Pid
         /\ KrefExact' /\ ChainInv'
         /\ \A j \in Level : Exists(j)' => Exists(j) /\ map'[j] = map[j]
         /\ \A j \in Level : map'[j] = map[j] \/ map'[j] = NoEntries
<1>0. TypeOK /\ KrefExact /\ ChainInv /\ level[p] \in Level
  BY DEF Inv, TypeOK
<1>1. count' = [count EXCEPT ![p] = count[p] - 1]
  BY <1>0 DEF put_pid, TypeOK
<1>2. count' \in [Pid -> Nat]
  BY <1>0, <1>1 DEF TypeOK
<1>3. \A u \in Thread : th[u].pc = "publish" => th[u].pid # p
  BY PublishingIsNew
<1>4. CASE count[p] = 1
  <2>1. FreeObject(p) /\ put_pid_ns(level[p])
    BY <1>4 DEF put_pid
  <2>2. NoNumbers \in [Level -> 0 .. PID_MAX - 1]
    BY SizeAssumption DEF NoNumbers
  <2>3. /\ state' \in [Pid -> {"free", "new", "published", "attached", "dead", "stale"}]
        /\ level' \in [Pid -> Level]
        /\ numbers' \in [Pid -> [Level -> 0 .. PID_MAX - 1]] /\ shared' \subseteq Pid
        /\ state'[p] = "free"
        /\ \A q \in Pid \ {p} : state'[q] = state[q] /\ level'[q] = level[q]
    BY <1>0, <2>1, <2>2, Ranges DEF TypeOK, FreeObject
  <2>4. HoldsNs(p) /\ ~HoldsNs(p)'
    BY <1>3, <2>3 DEF HoldsNs
  <2>5. \A q \in Pid \ {p} : HoldsNs(q)' <=> HoldsNs(q)
    BY <2>3 DEF HoldsNs
  <2>6. PICK l \in Level : l = level[p]
    BY <1>0
  <2>7. /\ Cardinality(Referring(l))' = Cardinality(Referring(l)) - 1
        /\ \A j \in Level \ {l} : Cardinality(Referring(j))' = Cardinality(Referring(j))
    BY <2>3, <2>4, <2>5, <2>6, OneHolder
  <2>8. Held(l)' = Held(l) - 1 /\ \A j \in Level \ {l} : Held(j)' = Held(j)
    <3>1. Cardinality(Referring(l)) \in Nat
      BY HeldNat
    <3>2. QED
      BY <2>7, <3>1 DEF Held, One
  <2>9. /\ kref' \in [Level -> Nat]
        /\ map' \in [Level -> [Nr -> Pid \cup {NULL, ABSENT}]]
        /\ KrefExact' /\ ChainInv'
        /\ \A j \in Level : Exists(j)' => Exists(j) /\ map'[j] = map[j]
        /\ \A j \in Level : map'[j] = map[j] \/ map'[j] = NoEntries
    BY <1>0, <2>1, <2>6, <2>8, PutStep
  <2>10. QED
    BY <1>2, <2>3, <2>9
<1>5. CASE count[p] # 1
  <2>1. state' = [state EXCEPT ![p] = left] /\ UNCHANGED <<level, numbers, shared, kref, map>>
    BY <1>5 DEF put_pid
  <2>2. \A q \in Pid : HoldsNs(q)' <=> HoldsNs(q)
    BY <1>0, <2>1 DEF HoldsNs, TypeOK
  <2>3. \A j \in Level : Held(j)' = Held(j)
    BY <2>1, <2>2, SameHolders
  <2>4. KrefExact' /\ ChainInv'
    BY <1>0, <2>1, <2>3, NoPutStep
  <2>5. QED
    BY <1>0, <1>2, <2>1, <2>4 DEF TypeOK, Exists
<1>6. QED
  BY <1>4, <1>5

(* The readers that hold a struct pid can be counted.                      *)
LEMMA HoldingCount ==
  ASSUME NEW p
  PROVE  /\ IsFiniteSet(Holding(p)) /\ Cardinality(Holding(p)) \in Nat
         /\ \A t \in Reader : rd[t].pc = "holds" /\ rd[t].pid = p =>
              t \in Holding(p) /\ Cardinality(Holding(p)) >= 1
<1>1. Holding(p) \subseteq Reader
  BY DEF Holding
<1>2. IsFiniteSet(Holding(p))
  BY <1>1, FS_Subset, PidAssumption
<1>3. Cardinality(Holding(p)) \in Nat /\ (Cardinality(Holding(p)) = 0 <=> Holding(p) = {})
  BY <1>2, FS_CardinalityType, FS_EmptySet
<1>4. QED
  BY <1>2, <1>3 DEF Holding

(* The put of a reader, or the delayed one.                                *)
LEMMA PutPidCall ==
  ASSUME Inv,
         \/ \E p \in Pid : delayed_put_pid(p)
         \/ \E t \in Reader : ReaderPut(t)
  PROVE  \E p \in Pid, left \in {"published", "attached", "dead", "stale"} :
           /\ state[p] \notin {"free", "new"} /\ count[p] >= 1 /\ put_pid(p, left)
           /\ p \in Live => left = state[p]
           /\ left = state[p] \/ (state[p] = "dead" /\ left = "stale")
<1>1. ASSUME NEW p \in Pid, delayed_put_pid(p)
      PROVE  state[p] = "dead" /\ count[p] >= 1 /\ put_pid(p, "stale")
  BY <1>1, HoldingCount DEF delayed_put_pid, Inv, RefInv
<1>2. ASSUME NEW t \in Reader, ReaderPut(t)
      PROVE  /\ rd[t].pid \in Pid /\ state[rd[t].pid] \in {"published", "attached", "dead", "stale"}
             /\ count[rd[t].pid] >= 1 /\ put_pid(rd[t].pid, state[rd[t].pid])
  <2>1. /\ rd[t].pc = "holds" /\ rd[t].pid \in Pid
        /\ state[rd[t].pid] \in {"published", "attached", "dead", "stale"}
        /\ put_pid(rd[t].pid, state[rd[t].pid])
    BY <1>2 DEF ReaderPut, Inv, RefInv, TypeOK
  <2>2. Cardinality(Holding(rd[t].pid)) >= 1 /\ Cardinality(Holding(rd[t].pid)) \in Nat
    BY <2>1, HoldingCount
  <2>3. count[rd[t].pid] >= 1
    BY <2>1, <2>2 DEF Inv, RefInv, Live
  <2>4. QED
    BY <2>1, <2>3
<1>3. QED
  BY <1>1, <1>2 DEF Live

(* put_pid() by its two callers.                                           *)
LEMMA PutBase ==
  ASSUME Inv,
         \/ \E p \in Pid : delayed_put_pid(p)
         \/ \E t \in Reader : ReaderPut(t)
  PROVE  /\ TypeOK' /\ KrefExact' /\ ChainInv'
         /\ \A j \in Level : Exists(j)' => Exists(j) /\ map'[j] = map[j]
         /\ \A j \in Level : map'[j] = map[j] \/ map'[j] = NoEntries
<1>0. TypeOK
  BY DEF Inv
<1>1. PICK p \in Pid, left \in {"published", "attached", "dead", "stale"} :
        state[p] \notin {"free", "new"} /\ count[p] >= 1 /\ put_pid(p, left)
  BY PutPidCall
<1>2. UNCHANGED <<nsproxy, proc_mnt, th>>
  BY DEF delayed_put_pid, ReaderPut
<1>3. /\ kref' \in [Level -> Nat]
      /\ map' \in [Level -> [Nr -> Pid \cup {NULL, ABSENT}]]
      /\ state' \in [Pid -> {"free", "new", "published", "attached", "dead", "stale"}]
      /\ level' \in [Pid -> Level]
      /\ numbers' \in [Pid -> [Level -> 0 .. PID_MAX - 1]]
      /\ count' \in [Pid -> Nat] /\ shared' \subseteq Pid
      /\ KrefExact' /\ ChainInv'
      /\ \A j \in Level : Exists(j)' => Exists(j) /\ map'[j] = map[j]
      /\ \A j \in Level : map'[j] = map[j] \/ map'[j] = NoEntries
  BY <1>1, <1>2, PutPidBase
<1>4. rd' \in [Reader -> ReaderType]
  <2>1. IdleReader \in ReaderType
    BY DEF IdleReader, ReaderType
  <2>2. QED
    BY <1>0, <2>1 DEF TypeOK, delayed_put_pid, ReaderPut
<1>5. TypeOK'
  <2>1. CASE \E q \in Pid : delayed_put_pid(q)
    BY <1>0, <1>3, <1>4, <2>1 DEF TypeOK, delayed_put_pid, zapVars
  <2>2. CASE \E t \in Reader : ReaderPut(t)
    BY <1>0, <1>3, <1>4, <2>2 DEF TypeOK, ReaderPut, zapVars
  <2>3. QED
    BY <2>1, <2>2
<1>6. QED
  BY <1>3, <1>5

(* get_pid_ns() in alloc_pid(), for the struct pid and for /proc.          *)
LEMMA PrepareBase ==
  ASSUME Inv, NEW t \in Thread, Prepare(t)
  PROVE  KrefExact' /\ ChainInv'
<1>0. TypeOK /\ KrefExact /\ ChainInv /\ th[t].pc = "prepare"
  BY DEF Inv, Prepare
<1>1. PICK p \in Pid, l \in Level : p = th[t].pid /\ l = th[t].ns
  BY <1>0, ThreadFields DEF Inv, ThreadInv, CallInv, Reserving
<1>2. state[p] = "new" /\ level[p] = l
  BY <1>0, <1>1 DEF Inv, ThreadInv, CallInv, Reserving
<1>3. PICK mounts \in BOOLEAN : mounts = (is_child_reaper(p) /\ ~proc_mnt[l])
  OBVIOUS
<1>4. /\ proc_mnt' = [proc_mnt EXCEPT ![l] = proc_mnt[l] \/ mounts]
      /\ kref' = get_pid_ns(IF mounts THEN get_pid_ns(kref, l) ELSE kref, l)
      /\ th' = [th EXCEPT ![t].pc = "publish"]
      /\ UNCHANGED <<state, level, nsproxy>>
  BY <1>0, <1>1, <1>3, Zenon DEF Prepare
<1>5. SameCall(t) /\ th'[t].pid = p /\ th'[t].pc = "publish"
  BY <1>0, <1>1, <1>4, MoveLocals
<1>6. HoldsNs(p)' /\ ~HoldsNs(p)
  <2>1. \A u \in Thread : th[u].pid = p => u = t
    BY <1>1, OwnPid, PidAssumption
  <2>2. QED
    BY <1>0, <1>2, <1>5, <2>1 DEF HoldsNs
<1>7. \A q \in Pid \ {p} : HoldsNs(q)' <=> HoldsNs(q)
  BY <1>1, <1>4, <1>5 DEF HoldsNs, SameCall
<1>8. /\ Cardinality(Referring(l))' = Cardinality(Referring(l)) + 1
      /\ \A j \in Level \ {l} : Cardinality(Referring(j))' = Cardinality(Referring(j))
  BY <1>2, <1>4, <1>6, <1>7, OneHolder
<1>9. /\ \A j \in Level \ {l} : kref'[j] = kref[j]
      /\ l # 0 => kref'[l] = kref[l] + 1 + One(mounts)
  BY <1>0, <1>4 DEF TypeOK, get_pid_ns, One
<1>10. \A j \in Level \ {l} : Held(j)' = Held(j)
  <2>1. \A j \in Level \ {l} : proc_mnt'[j] = proc_mnt[j]
    BY <1>0, <1>4 DEF TypeOK
  <2>2. QED
    BY <1>4, <1>8, <2>1 DEF Held
<1>11. Held(l)' = Held(l) + 1 + One(mounts)
  <2>1. Cardinality(Referring(l)) \in Nat
    BY HeldNat
  <2>2. One(proc_mnt'[l]) = One(proc_mnt[l]) + One(mounts)
    <3>1. proc_mnt'[l] = (proc_mnt[l] \/ mounts)
      BY <1>0, <1>4 DEF TypeOK
    <3>2. ~(mounts /\ proc_mnt[l])
      BY <1>3
    <3>3. proc_mnt'[l] <=> proc_mnt[l] \/ mounts
      BY <3>1, Zenon
    <3> HIDE <3>1
    <3>4. QED
      BY <3>2, <3>3 DEF One
  <2>3. \A b : One(b) \in Nat
    BY DEF One
  <2>4. QED
    BY <1>4, <1>8, <2>1, <2>2, <2>3 DEF Held
<1>12. Exists(l)
  <2>1. l \in 0 .. l /\ nsproxy[l]
    BY <1>0, <1>1, Ranges DEF Inv, ForkInv
  <2>2. QED
    BY <1>0, <2>1, HeldExists
<1>13. \A j \in Level : Exists(j)' <=> Exists(j)
  <2>1. kref[l] \in Nat /\ One(mounts) \in Nat
    BY <1>0 DEF TypeOK, One
  <2>2. QED
    BY <1>9, <1>12, <2>1 DEF Exists
<1>14. KrefExact'
  <2>1. SUFFICES ASSUME NEW j \in Level \ {0}
                 PROVE  kref'[j] = Held(j)' + One(j < DEPTH /\ Exists(j + 1)')
    BY KrefForm
  <2>2. /\ kref[j] = Held(j) + One(j < DEPTH /\ Exists(j + 1)) /\ Held(j) \in Nat
        /\ j < DEPTH => j + 1 \in Level
    BY <1>0, KrefForm, HeldNat, Ranges
  <2>3. One(j < DEPTH /\ Exists(j + 1)') = One(j < DEPTH /\ Exists(j + 1))
    BY <1>13, <2>2
  <2>4. \A b : One(b) \in Nat
    BY DEF One
  <2>5. QED
    BY <1>9, <1>10, <1>11, <2>2, <2>3, <2>4
<1>15. ChainInv'
  <2>1. \A j \in Level : \A i \in 0 .. j : i \in Level
    BY Ranges
  <2>2. QED
    BY <1>0, <1>13, <2>1 DEF ChainInv
<1>16. QED
  BY <1>14, <1>15

(* The other steps of alloc_pid() and fork leave the holders alone.        *)
LEMMA ThreadHolders ==
  ASSUME Inv, NEW t \in Thread,
         \/ \E c \in Pid, l \in Level : alloc_pid(t, c, l)
         \/ Reserve(t) \/ ReserveFails(t) \/ PrepareFails(t) \/ Publish(t)
         \/ OutFree(t) \/ ReturnError(t) \/ AttachTask(t) \/ ForkFails(t)
  PROVE  KrefExact' /\ ChainInv'
<1>0. TypeOK /\ KrefExact /\ ChainInv
  BY DEF Inv
<1>1. UNCHANGED kref
  BY DEF alloc_pid, Reserve, ReserveFails, PrepareFails, Publish, OutFree, ReturnError,
         AttachTask, ForkFails, nsVars
<1>2. SUFFICES \A j \in Level : Held(j)' = Held(j)
  BY <1>0, <1>1, NoPutStep
<1>3. UNCHANGED <<nsproxy, proc_mnt>>
  BY DEF alloc_pid, Reserve, ReserveFails, PrepareFails, Publish, OutFree, ReturnError,
         AttachTask, ForkFails, nsVars
<1>4. ASSUME NEW c \in Pid, NEW l \in Level, alloc_pid(t, c, l)
      PROVE  \A j \in Level : Held(j)' = Held(j)
  <2>1. PICK p \in Pid :
          /\ state[p] = "free"
          /\ state' = [state EXCEPT ![p] = "new"]
          /\ level' = [level EXCEPT ![p] = l]
          /\ th' = [th EXCEPT ![t] = [pc |-> "reserve", current |-> c, ns |-> l,
                                      i |-> l, pid |-> p, retval |-> -12]]
    BY <1>4 DEF alloc_pid
  <2>2. /\ th'[t].pc = "reserve" /\ th'[t].pid = p
        /\ \A u \in Thread \ {t} : th'[u] = th[u]
    BY <1>0, <2>1, CallLocals
  <2>3. \A u \in Thread : th[u].pc = "publish" => th[u].pid # p
    BY <2>1, PublishingIsNew
  <2>4. th[t].pc = "idle"
    BY <1>4 DEF alloc_pid
  <2>5. \A q \in Pid \ {p} : state'[q] = state[q] /\ level'[q] = level[q]
    BY <1>0, <2>1 DEF TypeOK
  <2>6. state'[p] = "new"
    BY <1>0, <2>1 DEF TypeOK
  <2>7. ~HoldsNs(p) /\ ~HoldsNs(p)'
    BY <2>1, <2>2, <2>3, <2>6 DEF HoldsNs
  <2>8. \A q \in Pid \ {p} : HoldsNs(q)' <=> HoldsNs(q)
    BY <2>2, <2>4, <2>5 DEF HoldsNs
  <2>9. QED
    BY <1>3, <2>5, <2>7, <2>8, SameHolders
<1>5. CASE Reserve(t) \/ ReserveFails(t) \/ PrepareFails(t)
  <2>1. UNCHANGED <<state, level>>
    BY <1>5 DEF Reserve, ReserveFails, PrepareFails
  <2>2. /\ th[t].pc # "publish" /\ th'[t].pc # "publish"
        /\ \A u \in Thread \ {t} : th'[u] = th[u]
    <3>1. CASE Reserve(t)
      <4>1. th[t].pc = "reserve" /\ th'[t].pc \in {"reserve", "prepare"} /\ SameCall(t)
        BY <3>1, ReserveLocals
      <4>2. QED
        BY <4>1 DEF SameCall
    <3>2. CASE ReserveFails(t)
      BY <1>0, <3>2, ReserveFailsLocals DEF SameCall
    <3>3. CASE PrepareFails(t)
      BY <1>0, <3>3, MoveLocals DEF PrepareFails, SameCall
    <3>4. QED
      BY <1>5, <3>1, <3>2, <3>3
  <2>3. QED
    BY <1>3, <2>1, <2>2, SameHoldersThread
<1>6. CASE Publish(t)
  <2>1. PICK p \in Pid : p = th[t].pid
    BY <1>6, PublishEffect
  <2>2. /\ state[p] = "new" /\ state' = [state EXCEPT ![p] = "published"]
        /\ SameCall(t) /\ th'[t].pid = p /\ th'[t].pc = "copy_process" /\ th[t].pc = "publish"
    BY <1>6, <2>1, PublishEffect
  <2>3. state'[p] = "published" /\ \A q \in Pid \ {p} : state'[q] = state[q]
    BY <1>0, <2>2 DEF TypeOK
  <2>4. HoldsNs(p)' /\ HoldsNs(p)
    BY <2>1, <2>2, <2>3 DEF HoldsNs
  <2>5. \A q \in Pid \ {p} : HoldsNs(q)' <=> HoldsNs(q)
    BY <2>1, <2>2, <2>3 DEF HoldsNs, SameCall
  <2>6. UNCHANGED level
    BY <1>6 DEF Publish
  <2>7. QED
    BY <1>3, <2>4, <2>5, <2>6, SameHolders
<1>7. CASE OutFree(t)
  <2>0. th[t].pc = "out_free"
    BY <1>7 DEF OutFree
  <2>1. PICK p \in Pid : p = th[t].pid
    BY <2>0 DEF Inv, ThreadInv, CallInv, Reserving
  <2>2. /\ state[p] = "new" /\ SameCall(t) /\ th'[t].pc = "failed" /\ th'[t].pid = NULL
    BY <1>0, <1>7, <2>0, <2>1, OutFreeLocals DEF Inv, ThreadInv, CallInv, Reserving
  <2>3. /\ state'[p] = "free"
        /\ \A q \in Pid \ {p} : state'[q] = state[q] /\ level'[q] = level[q]
    BY <1>0, <1>7, <2>1 DEF OutFree, FreeObject, TypeOK
  <2>4. \A u \in Thread : th[u].pid = p => u = t
    BY <2>1, OwnPid, PidAssumption
  <2>5. ~HoldsNs(p) /\ ~HoldsNs(p)'
    BY <2>0, <2>2, <2>3, <2>4 DEF HoldsNs, SameCall
  <2>6. \A q \in Pid \ {p} : HoldsNs(q)' <=> HoldsNs(q)
    BY <2>0, <2>2, <2>3 DEF HoldsNs, SameCall
  <2>7. QED
    BY <1>3, <2>3, <2>5, <2>6, SameHolders
<1>8. CASE ReturnError(t)
  BY <1>0, <1>3, <1>8, IdleLocals, SameHoldersThread DEF ReturnError
<1>9. CASE AttachTask(t) \/ ForkFails(t)
  <2>0. th[t].pc = "copy_process"
    BY <1>9 DEF AttachTask, ForkFails
  <2>1. PICK p \in Pid : p = th[t].pid
    BY <2>0 DEF Inv, ThreadInv, CallInv
  <2>2. state[p] = "published" /\ (state' = [state EXCEPT ![p] = "attached"]
                                   \/ state' = [state EXCEPT ![p] = "dead"])
    BY <1>9, <2>0, <2>1 DEF Inv, ThreadInv, CallInv, AttachTask, ForkFails, free_pid
  <2>3. th'[t].pc = "idle" /\ \A u \in Thread \ {t} : th'[u] = th[u]
    BY <1>0, <1>9, IdleLocals DEF AttachTask, ForkFails
  <2>4. UNCHANGED level
    BY <1>9 DEF AttachTask, ForkFails
  <2>5. state'[p] \in {"attached", "dead"} /\ \A q \in Pid \ {p} : state'[q] = state[q]
    BY <1>0, <2>2 DEF TypeOK
  <2>6. HoldsNs(p)' /\ HoldsNs(p)
    BY <2>2, <2>5 DEF HoldsNs
  <2>7. \A q \in Pid \ {p} : HoldsNs(q)' <=> HoldsNs(q)
    BY <2>0, <2>3, <2>5 DEF HoldsNs
  <2>8. QED
    BY <1>3, <2>4, <2>6, <2>7, SameHolders
<1>10. QED
  BY <1>4, <1>5, <1>6, <1>7, <1>8, <1>9

(* Every step keeps the types and the reference counts of namespaces.      *)
LEMMA BaseStep ==
  ASSUME Inv, [Next]_vars
  PROVE  TypeOK' /\ KrefExact' /\ ChainInv'
<1>0. TypeOK /\ KrefExact /\ ChainInv
  BY DEF Inv
<1>1. ASSUME UNCHANGED <<kref, nsproxy, proc_mnt, th>>, \A p \in Pid : level'[p] = level[p],
             \A p \in Pid : state[p] \in {"free", "new"} <=> state'[p] \in {"free", "new"}
      PROVE  KrefExact' /\ ChainInv'
  <2>1. \A p \in Pid : HoldsNs(p)' <=> HoldsNs(p)
    BY <1>1 DEF HoldsNs
  <2>2. \A j \in Level : Held(j)' = Held(j)
    BY <1>1, <2>1, SameHolders
  <2>3. QED
    BY <1>0, <1>1, <2>2, NoPutStep
<1>2. ASSUME NEW l \in Level, ZapStart(l) \/ ZapStep(l) PROVE TypeOK' /\ KrefExact' /\ ChainInv'
  <2>1. UNCHANGED <<kref, nsproxy, proc_mnt, th, state, level>>
    BY <1>2 DEF ZapStart, ZapStep, ZapSignal, ZapPrepareToSleep, ZapDone, ZapSleep, ZapWake,
                ZapMoves, nsVars
  <2>2. QED
    BY <1>1, <1>2, <2>1, ZapTypes
<1>3. ASSUME NEW l \in Level, NEW n \in LastPidWrites, pid_ns_ctl_handler(l, n)
      PROVE  TypeOK' /\ KrefExact' /\ ChainInv'
  <2>1. UNCHANGED <<kref, nsproxy, proc_mnt, th, state, level>>
    BY <1>3 DEF pid_ns_ctl_handler
  <2>2. QED
    BY <1>1, <1>3, <2>1, PublishTypes
<1>4. ASSUME NEW t \in Reader,
             (\E l \in Level, n \in Nr : find_vpid(t, l, n)) \/ get_pid(t)
      PROVE  TypeOK' /\ KrefExact' /\ ChainInv'
  <2>1. UNCHANGED <<kref, nsproxy, proc_mnt, th, state, level>>
    BY <1>4 DEF find_vpid, get_pid, nsVars
  <2>2. QED
    BY <1>1, <1>4, <2>1, ReaderTypes
<1>5. ASSUME NEW p \in Pid, Exit(p) PROVE TypeOK' /\ KrefExact' /\ ChainInv'
  <2>1. /\ UNCHANGED <<kref, nsproxy, proc_mnt, th, level>> /\ state[p] = "attached"
        /\ state' = [state EXCEPT ![p] = "dead"]
    BY <1>5 DEF Exit, nsVars, free_pid
  <2>2. \A q \in Pid : state[q] \in {"free", "new"} <=> state'[q] \in {"free", "new"}
    BY <1>0, <2>1 DEF TypeOK
  <2>3. QED
    BY <1>1, <1>5, <2>1, <2>2, FreeTypes
<1>6. ASSUME NEW t \in Thread, ThreadStep(t) \/ \E c \in Pid, l \in Level : alloc_pid(t, c, l)
      PROVE  TypeOK' /\ KrefExact' /\ ChainInv'
  <2>1. CASE PublishRefused(t)
    BY <2>1, RefusedBase
  <2>2. CASE Prepare(t)
    BY <2>2, PrepareBase, AllocTypes
  <2>3. CASE ~PublishRefused(t) /\ ~Prepare(t)
    BY <1>6, <2>3, ThreadHolders, AllocTypes, PublishTypes, FreeTypes DEF ThreadStep
  <2>4. QED
    BY <2>1, <2>2, <2>3
<1>7. ASSUME UNCHANGED vars PROVE TypeOK' /\ KrefExact' /\ ChainInv'
  <2>1. TypeOK'
    BY <1>0, <1>7 DEF TypeOK, vars
  <2>2. QED
    BY <1>1, <1>7, <2>1 DEF vars
<1>8. QED
  BY <1>2, <1>3, <1>4, <1>5, <1>6, <1>7, CreateBase, PutNsBase, PutBase DEF Next
-----------------------------------------------------------------------------
(* What each kind of step does to the struct pids, point by point.         *)

(* The steps that leave every struct pid and every call alone.             *)
SamePids == UNCHANGED <<state, level, numbers, shared, th>>

(* The call of alloc_pid() takes a free struct pid.                        *)
LEMMA AllocEffect ==
  ASSUME Inv, NEW t \in Thread, NEW c \in Pid, NEW l \in Level, alloc_pid(t, c, l)
  PROVE  \E p \in Pid :
           /\ state[p] = "free" /\ state'[p] = "new" /\ level'[p] = l
           /\ \A q \in Pid \ {p} : state'[q] = state[q] /\ level'[q] = level[q]
           /\ th[t].pc = "idle" /\ th'[t].pc = "reserve" /\ th'[t].current = c
           /\ th'[t].ns = l /\ th'[t].i = l /\ th'[t].pid = p
           /\ \A u \in Thread \ {t} : th'[u] = th[u]
<1>0. TypeOK /\ th[t].pc = "idle"
  BY DEF Inv, alloc_pid
<1>1. PICK p \in Pid :
        /\ state[p] = "free"
        /\ state' = [state EXCEPT ![p] = "new"]
        /\ level' = [level EXCEPT ![p] = l]
        /\ th' = [th EXCEPT ![t] = [pc |-> "reserve", current |-> c, ns |-> l,
                                    i |-> l, pid |-> p, retval |-> -12]]
  BY DEF alloc_pid
<1>2. /\ th'[t].pc = "reserve" /\ th'[t].current = c
      /\ th'[t].ns = l /\ th'[t].i = l /\ th'[t].pid = p
      /\ \A u \in Thread \ {t} : th'[u] = th[u]
  <2>1. th' = [th EXCEPT ![t] = [pc |-> "reserve", current |-> c, ns |-> l,
                                 i |-> l, pid |-> p, retval |-> -12]]
    BY <1>1
  <2>2. QED
    BY <1>0, <2>1, CallLocals
<1>3. /\ state'[p] = "new" /\ level'[p] = l
      /\ \A q \in Pid \ {p} : state'[q] = state[q] /\ level'[q] = level[q]
  BY <1>0, <1>1 DEF TypeOK
<1>4. QED
  BY <1>0, <1>1, <1>2, <1>3

(* Reserve() puts a placeholder where it saw none, or a placeholder.       *)
LEMMA ReserveEffect ==
  ASSUME Inv, NEW t \in Thread, Reserve(t)
  PROVE  \E p \in Pid, l \in Level, n \in Nr :
           /\ p = th[t].pid /\ l = th[t].i /\ l <= th[t].ns /\ state[p] = "new"
           /\ level[p] = th[t].ns /\ ScanStopsAt(l, n) /\ numbers[p][l] = 0
           /\ map[l][n] \in {ABSENT, NULL} /\ map'[l][n] = NULL
           /\ \A j \in Level, m \in Nr : j # l \/ m # n => map'[j][m] = map[j][m]
           /\ numbers'[p][l] = n
           /\ \A j \in Level \ {l} : numbers'[p][j] = numbers[p][j]
           /\ \A q \in Pid \ {p} : numbers'[q] = numbers[q]
           /\ last_pid' = [last_pid EXCEPT ![l] = n]
           /\ shared' = IF Holders(l, n) = {} THEN shared
                        ELSE shared \cup Holders(l, n) \cup {p}
<1>1. /\ th[t].pc = "reserve" /\ th[t].i \in Level /\ th[t].i \in Nat /\ TypeOK
      /\ th[t].pid \in Pid /\ state[th[t].pid] = "new" /\ level[th[t].pid] = th[t].ns
      /\ th[t].i <= th[t].ns
      /\ \A l \in Level : numbers[th[t].pid][l] # 0 <=> l \in th[t].i + 1 .. th[t].ns
  BY ReserveLocals, Ranges DEF Inv, ThreadInv, CallInv, Reserving
<1>2. PICK p \in Pid, l \in Level : p = th[t].pid /\ l = th[t].i
  BY <1>1
<1>3. PICK n \in Nr :
         /\ ScanStopsAt(l, n)
         /\ map' = [map EXCEPT ![l][n] = NULL]
         /\ last_pid' = [last_pid EXCEPT ![l] = n]
         /\ numbers' = [numbers EXCEPT ![p][l] = n]
         /\ shared' = IF Holders(l, n) = {} THEN shared
                      ELSE shared \cup Holders(l, n) \cup {p}
  BY <1>2, Zenon DEF Reserve
<1>4. numbers[p][l] = 0 /\ map[l][n] \in {ABSENT, NULL}
  BY <1>1, <1>2, <1>3 DEF ScanStopsAt, LooksFree
<1>5. map'[l][n] = NULL /\ \A j \in Level, m \in Nr : j # l \/ m # n => map'[j][m] = map[j][m]
  BY <1>1, <1>3 DEF TypeOK
<1>6. /\ numbers'[p][l] = n
      /\ \A j \in Level \ {l} : numbers'[p][j] = numbers[p][j]
      /\ \A q \in Pid \ {p} : numbers'[q] = numbers[q]
  BY <1>1, <1>3 DEF TypeOK
<1>7. l <= th[t].ns /\ state[p] = "new" /\ level[p] = th[t].ns
  BY <1>1, <1>2
<1>8. QED
  BY <1>2, <1>3, <1>4, <1>5, <1>6, <1>7, Zenon

(* out_free gives back the numbers and the struct pid.                     *)
LEMMA OutFreeEffect ==
  ASSUME Inv, NEW t \in Thread, OutFree(t)
  PROVE  \E p \in Pid :
           /\ p = th[t].pid /\ th[t].pc = "out_free" /\ state[p] = "new"
           /\ level[p] = th[t].ns /\ SameCall(t) /\ th'[t].pid = NULL /\ th'[t].pc = "failed"
           /\ state'[p] = "free" /\ numbers'[p] = NoNumbers /\ shared' = shared \ {p}
           /\ \A q \in Pid \ {p} : /\ state'[q] = state[q] /\ level'[q] = level[q]
                                   /\ numbers'[q] = numbers[q] /\ count'[q] = count[q]
           /\ \A l \in Level, n \in Nr :
                map'[l][n] = IF n = numbers[p][l] THEN ABSENT ELSE map[l][n]
<1>0. th[t].pc = "out_free" /\ TypeOK
  BY DEF Inv, OutFree
<1>1. PICK p \in Pid : p = th[t].pid
  BY <1>0 DEF Inv, ThreadInv, CallInv, Reserving
<1>2. /\ state[p] = "new" /\ level[p] = th[t].ns
      /\ \A l \in Level : numbers[p][l] # 0 <=> l \in th[t].i + 1 .. th[t].ns
  BY <1>0, <1>1 DEF Inv, ThreadInv, CallInv, Reserving
<1>3. SameCall(t) /\ th'[t].pc = "failed" /\ th'[t].pid = NULL
  BY <1>0, OutFreeLocals
<1>4. /\ state'[p] = "free" /\ numbers'[p] = NoNumbers /\ shared' = shared \ {p}
      /\ \A q \in Pid \ {p} : /\ state'[q] = state[q] /\ level'[q] = level[q]
                              /\ numbers'[q] = numbers[q] /\ count'[q] = count[q]
  BY <1>0, <1>1 DEF OutFree, FreeObject, TypeOK
<1>5. \A l \in Level, n \in Nr :
        map'[l][n] = IF l \in GivenBack(t) /\ n = numbers[p][l] THEN ABSENT ELSE map[l][n]
  BY <1>0, <1>1, UnmapEffect DEF OutFree
<1>6. ASSUME NEW l \in Level, NEW n \in Nr
      PROVE  map'[l][n] = IF n = numbers[p][l] THEN ABSENT ELSE map[l][n]
  <2>1. n # 0
    BY Ranges
  <2>2. n = numbers[p][l] => l \in GivenBack(t)
    BY <1>2, <2>1 DEF GivenBack
  <2>3. QED
    BY <1>5, <2>2
<1>7. QED
  BY <1>0, <1>1, <1>2, <1>3, <1>4, <1>6

(* free_pid() takes a live struct pid out of every index.                  *)
LEMMA FreePidEffect ==
  ASSUME Inv, (\E t \in Thread : ForkFails(t)) \/ (\E p \in Pid : Exit(p))
  PROVE  \E p \in Live :
           /\ free_pid(p) /\ p \in Pid /\ p # InitPid
           /\ state'[p] = "dead" /\ gp'[p] = InSection
           /\ \A q \in Pid \ {p} : state'[q] = state[q] /\ gp'[q] = gp[q]
           /\ UNCHANGED <<level, numbers, shared, count, rd, child_reaper, last_pid, nsproxy,
                          kref, zap>>
           /\ \A l \in Level, n \in Nr :
                map'[l][n] = IF n = numbers[p][l] THEN ABSENT ELSE map[l][n]
           /\ \/ UNCHANGED th /\ Exit(p)
              \/ /\ UNCHANGED init_tasks
                 /\ \E t \in Thread : /\ th[t].pc = "copy_process" /\ p = th[t].pid
                                      /\ state[p] = "published" /\ level[p] = th[t].ns
                                      /\ th'[t].pc = "idle" /\ th'[t].pid = NULL
                                      /\ \A u \in Thread \ {t} : th'[u] = th[u]
<1>0. TypeOK
  BY DEF Inv
<1>1. ASSUME NEW p \in Live, free_pid(p)
      PROVE  /\ p \in Pid /\ state'[p] = "dead" /\ gp'[p] = InSection
             /\ \A q \in Pid \ {p} : state'[q] = state[q] /\ gp'[q] = gp[q]
             /\ \A l \in Level, n \in Nr :
                  map'[l][n] = IF n = numbers[p][l] THEN ABSENT ELSE map[l][n]
  <2>1. p \in Pid
    BY DEF Live
  <2>2. /\ state'[p] = "dead" /\ gp'[p] = InSection
        /\ \A q \in Pid \ {p} : state'[q] = state[q] /\ gp'[q] = gp[q]
    BY <1>0, <1>1, <2>1 DEF free_pid, TypeOK
  <2>3. \A l \in Level, n \in Nr :
          map'[l][n] = IF l \in 0 .. level[p] /\ n = numbers[p][l] THEN ABSENT ELSE map[l][n]
    <3>1. PICK L \in SUBSET Int : L = 0 .. level[p]
      OBVIOUS
    <3>2. map' = Unmap(p, L)
      BY <1>1, <3>1 DEF free_pid
    <3>3. \A l \in Level, n \in Nr :
            map'[l][n] = IF l \in L /\ n = numbers[p][l] THEN ABSENT ELSE map[l][n]
      BY <1>0, <2>1, <3>2, UnmapEffect
    <3>4. QED
      BY <3>1, <3>3
  <2>4. ASSUME NEW l \in Level, NEW n \in Nr
        PROVE  map'[l][n] = IF n = numbers[p][l] THEN ABSENT ELSE map[l][n]
    <3>1. n # 0 /\ l \in Nat /\ level[p] \in Nat
      BY <1>0, <2>1, Ranges DEF TypeOK
    <3>2. n = numbers[p][l] => l <= level[p]
      BY <2>1, <3>1 DEF Inv, PidInv
    <3>3. QED
      BY <2>3, <3>1, <3>2
  <2>5. QED
    BY <2>1, <2>2, <2>4
<1>2. ASSUME NEW t \in Thread, ForkFails(t)
      PROVE  \E p \in Live :
               /\ free_pid(p) /\ p # InitPid
               /\ UNCHANGED <<level, numbers, shared, count, rd, child_reaper, last_pid,
                              nsproxy, kref, zap>>
               /\ UNCHANGED init_tasks
               /\ /\ th[t].pc = "copy_process" /\ p = th[t].pid
                  /\ state[p] = "published" /\ level[p] = th[t].ns
                  /\ th'[t].pc = "idle" /\ th'[t].pid = NULL
                  /\ \A u \in Thread \ {t} : th'[u] = th[u]
  <2>1. /\ th[t].pc = "copy_process" /\ free_pid(th[t].pid)
        /\ UNCHANGED <<level, numbers, shared, count, rd, child_reaper, last_pid,
                       nsproxy, kref, zap, init_tasks>>
    BY <1>2 DEF ForkFails, nsVars, zapVars
  <2>2. /\ th'[t].pc = "idle" /\ th'[t].pid = NULL
        /\ \A u \in Thread \ {t} : th'[u] = th[u]
    BY <1>0, <1>2, IdleLocals DEF ForkFails
  <2>3. /\ th[t].pid \in Pid /\ state[th[t].pid] = "published"
        /\ level[th[t].pid] = th[t].ns
    BY <2>1 DEF Inv, ThreadInv, CallInv
  <2>4. th[t].pid \in Live /\ th[t].pid # InitPid
    BY <2>3 DEF Live, Inv, BootInv
  <2>5. QED
    BY <2>1, <2>2, <2>3, <2>4
<1>3. ASSUME NEW p \in Pid, Exit(p)
      PROVE  /\ p \in Live /\ free_pid(p) /\ p # InitPid
             /\ UNCHANGED <<level, numbers, shared, count, rd, child_reaper, last_pid,
                            nsproxy, kref, zap, th>>
  <2>1. /\ state[p] = "attached" /\ free_pid(p) /\ MayExit(p)
        /\ UNCHANGED <<level, numbers, shared, count, rd, child_reaper, last_pid,
                       nsproxy, kref, zap, th>>
    BY <1>3 DEF Exit, nsVars
  <2>2. p # InitPid
    <3>1. level[InitPid] = 0 /\ child_reaper[0] = InitPid /\ init_tasks[0] = {}
      BY Ranges DEF Inv, BootInv, ReaperInv, ZapGroup
    <3>2. QED
      BY <2>1, <3>1 DEF MayExit
  <2>3. QED
    BY <2>1, <2>2 DEF Live
<1>4. CASE \E t \in Thread : ForkFails(t)
  <2>1. PICK t \in Thread : ForkFails(t)
    BY <1>4
  <2>2. PICK p \in Live :
               /\ free_pid(p) /\ p # InitPid
               /\ UNCHANGED <<level, numbers, shared, count, rd, child_reaper, last_pid,
                              nsproxy, kref, zap>>
               /\ UNCHANGED init_tasks
               /\ /\ th[t].pc = "copy_process" /\ p = th[t].pid
                  /\ state[p] = "published" /\ level[p] = th[t].ns
                  /\ th'[t].pc = "idle" /\ th'[t].pid = NULL
                  /\ \A u \in Thread \ {t} : th'[u] = th[u]
    BY <1>2, <2>1
  <2>3. QED
    BY <1>1, <2>2
<1>5. CASE \E p \in Pid : Exit(p)
  BY <1>1, <1>3, <1>5
<1>6. QED
  BY <1>4, <1>5

(* put_pid() frees only a struct pid that is out of every index.           *)
LEMMA PutPidEffect ==
  ASSUME Inv,
         \/ \E p \in Pid : delayed_put_pid(p)
         \/ \E t \in Reader : ReaderPut(t)
  PROVE  /\ \A q \in Pid : state[q] \notin {"dead", "stale"} =>
              /\ state'[q] = state[q] /\ level'[q] = level[q] /\ numbers'[q] = numbers[q]
              /\ q \in shared => q \in shared'
         /\ \A q \in Pid : state[q] \in {"dead", "stale"} =>
              /\ state'[q] \in {"dead", "stale", "free"}
              /\ state'[q] = "free" => numbers'[q] = NoNumbers
              /\ state'[q] # "free" => level'[q] = level[q] /\ numbers'[q] = numbers[q]
         /\ Live' = Live /\ UNCHANGED th /\ shared' \subseteq shared
<1>0. TypeOK
  BY DEF Inv
<1>1. PICK p \in Pid, left \in {"published", "attached", "dead", "stale"} :
        /\ state[p] \notin {"free", "new"} /\ count[p] >= 1 /\ put_pid(p, left)
        /\ p \in Live => left = state[p]
        /\ left = state[p] \/ (state[p] = "dead" /\ left = "stale")
  BY PutPidCall
<1>2. p \in Live => count[p] # 1
  <2>1. ASSUME NEW q \in Pid, delayed_put_pid(q) PROVE p \notin Live
    <3>1. state[q] = "dead" /\ count'[q] # count[q]
      BY <1>0, <2>1 DEF delayed_put_pid, put_pid, TypeOK
    <3>2. p # q => count'[q] = count[q]
      BY <1>0, <1>1 DEF put_pid, TypeOK
    <3>3. QED
      BY <3>1, <3>2 DEF Live
  <2>2. ASSUME NEW t \in Reader, ReaderPut(t), p \in Live PROVE count[p] # 1
    <3>1. rd[t].pc = "holds" /\ rd[t].pid \in Pid /\ count'[rd[t].pid] # count[rd[t].pid]
      BY <1>0, <2>2 DEF ReaderPut, put_pid, TypeOK, Inv, RefInv
    <3>2. p # rd[t].pid => count'[rd[t].pid] = count[rd[t].pid]
      BY <1>0, <1>1, <3>1 DEF put_pid, TypeOK
    <3>3. p = rd[t].pid
      BY <3>1, <3>2
    <3>4. Cardinality(Holding(p)) >= 1 /\ Cardinality(Holding(p)) \in Nat
      BY <3>1, <3>3, HoldingCount
    <3>5. QED
      BY <2>2, <3>4 DEF Inv, RefInv
  <2>3. QED
    BY <2>1, <2>2
<1>3. UNCHANGED th
  BY DEF delayed_put_pid, ReaderPut
<1>4. CASE count[p] = 1
  <2>1. state[p] \in {"dead", "stale"}
    BY <1>0, <1>1, <1>2, <1>4 DEF Live, TypeOK
  <2>2. FreeObject(p)
    BY <1>1, <1>4 DEF put_pid
  <2>3. /\ state'[p] = "free" /\ numbers'[p] = NoNumbers /\ shared' = shared \ {p}
        /\ \A q \in Pid \ {p} : /\ state'[q] = state[q] /\ level'[q] = level[q]
                                /\ numbers'[q] = numbers[q]
    BY <1>0, <2>2 DEF FreeObject, TypeOK
  <2>4. QED
    BY <1>3, <2>1, <2>3 DEF Live
<1>5. CASE count[p] # 1
  <2>1. state' = [state EXCEPT ![p] = left] /\ UNCHANGED <<level, numbers, shared>>
    BY <1>1, <1>5 DEF put_pid
  <2>2. state'[p] = left /\ \A q \in Pid \ {p} : state'[q] = state[q]
    BY <1>0, <2>1 DEF TypeOK
  <2>3. QED
    BY <1>1, <1>3, <2>1, <2>2 DEF Live
<1>6. QED
  BY <1>4, <1>5

(* The steps on namespaces and the lookups leave the struct pids alone.    *)
LEMMA SamePidsSteps ==
  ASSUME \/ \E l \in Level : \/ create_pid_namespace(l) \/ PutNsproxy(l)
                             \/ proc_cleanup_work(l) \/ ZapStart(l) \/ ZapStep(l)
         \/ \E l \in Level, n \in LastPidWrites : pid_ns_ctl_handler(l, n)
         \/ \E t \in Reader, l \in Level, n \in Nr : find_vpid(t, l, n)
         \/ \E t \in Reader : get_pid(t)
         \/ UNCHANGED vars
  PROVE  SamePids
BY DEF SamePids, create_pid_namespace, PutNsproxy, proc_cleanup_work, ZapStart, ZapStep,
       ZapSignal, ZapPrepareToSleep, ZapDone, ZapSleep, ZapWake, ZapMoves,
       pid_ns_ctl_handler, find_vpid, get_pid, vars

(* Every step is of one of these kinds.                                    *)
LEMMA Kinds ==
  ASSUME [Next]_vars
  PROVE  \/ \E l \in Level : \/ create_pid_namespace(l) \/ PutNsproxy(l)
                             \/ proc_cleanup_work(l) \/ ZapStart(l) \/ ZapStep(l)
         \/ \E l \in Level, n \in LastPidWrites : pid_ns_ctl_handler(l, n)
         \/ \E t \in Reader, l \in Level, n \in Nr : find_vpid(t, l, n)
         \/ \E t \in Reader : get_pid(t)
         \/ UNCHANGED vars
         \/ \E t \in Thread, c \in Pid, l \in Level : alloc_pid(t, c, l)
         \/ \E t \in Thread : \/ Reserve(t) \/ ReserveFails(t) \/ Prepare(t)
                              \/ PrepareFails(t) \/ Publish(t) \/ PublishRefused(t)
                              \/ OutFree(t) \/ ReturnError(t) \/ AttachTask(t)
         \/ (\E t \in Thread : ForkFails(t)) \/ (\E p \in Pid : Exit(p))
         \/ (\E p \in Pid : delayed_put_pid(p)) \/ (\E t \in Reader : ReaderPut(t))
BY DEF Next, ThreadStep
=============================================================================
