-------------------------- MODULE PidTasksSpaces ---------------------------
(***************************************************************************)
(* Proofs about the namespaces of PidTasks.  Tree says that namespaces and *)
(* their reference counts fit together, with b[n] references to n that are *)
(* not those of its children; Holding is that b in a state of PidTasks,    *)
(* and Spaces adds who is in which namespace.  The first lemmas are about  *)
(* get_pid_ns(), put_pid_ns() and create_pid_namespace() on a Tree; then   *)
(* there is one lemma for each action, which rests on what PidTasksProofs  *)
(* says of its struct pids and tasks.                                      *)
(***************************************************************************)
EXTENDS PidTasksProofs, WellFoundedInduction

-----------------------------------------------------------------------------
(* The tree of namespaces.                                                 *)

(* The children of n, and what they are to its references.                 *)
KidSet(N, n) ==
  {m \in Ns : N[m].st = "live" /\ m # InitNs /\ N[m].path[N[m].level - 1] = n}

Kids(N, n) == Cardinality(KidSet(N, n))

(* Every reference of a namespace is that of a child, or one of b[n]       *)
(* others, and it is in use while there is one.                            *)
KrefIn(N, b) ==
  \A n \in Ns \ {InitNs} :
    /\ N[n].kref = b[n] + Kids(N, n)
    /\ N[n].st = "live" <=> N[n].kref > 0

Tree(N, b) ==
  N \in [Ns -> NsType] /\ b \in [Ns -> Nat] /\ PathInv(N) /\ KrefIn(N, b)

(* c is b with one more for n.                                             *)
Adds(b, c, n) ==
  b \in [Ns -> Nat] /\ c \in [Ns -> Nat]
  /\ \A m \in Ns : c[m] = b[m] + (IF m = n THEN 1 ELSE 0)

(* A namespace does not move while it is in use.                           *)
Stable(N, M) ==
  \A n \in Ns : N[n].st = "live" /\ M[n].st = "live" =>
    M[n].level = N[n].level /\ M[n].path = N[n].path

InUse(N) == {n \in Ns \ {InitNs} : N[n].st # "none"}

(* The types of what PathInv and KrefIn speak of.                          *)
LEMMA TypeOfNs ==
  ASSUME NEW N \in [Ns -> NsType], NEW n \in Ns
  PROVE  /\ N[n].st \in {"none", "live", "destroyed"}
         /\ N[n].level \in Nat /\ N[n].level <= MAX_PID_NS_LEVEL
         /\ N[n].path \in [Depth -> Ns \cup {NULL}]
         /\ N[n].kref \in Int
BY SlotsAssumption DEF NsType, Depth

(* A namespace has finitely many children.                                 *)
LEMMA KidSetFinite ==
  ASSUME NEW N, NEW n
  PROVE  IsFiniteSet(KidSet(N, n)) /\ Kids(N, n) \in Nat
<1>1. KidSet(N, n) \subseteq Ns
  BY DEF KidSet
<1>2. IsFiniteSet(KidSet(N, n))
  BY <1>1, FS_Subset, SlotsAssumption
<1> QED
  BY <1>2, FS_CardinalityType DEF Kids

(* What PathInv says of one namespace.                                     *)
OnPath(N, n, i, a) ==
  /\ a = N[n].path[i]
  /\ a \in Ns /\ N[a].st = "live" /\ N[a].level = i
  /\ \A j \in 0 .. i : N[a].path[j] = N[n].path[j]

(* PathInv at n: the path of n starts at init_pid_ns and ends with n.      *)
LEMMA PathOf ==
  ASSUME NEW N, PathInv(N), NEW n \in Ns, N[n].st = "live"
  PROVE  /\ N[n].path[N[n].level] = n /\ N[n].path[0] = InitNs
         /\ \A i \in 0 .. N[n].level : OnPath(N, n, i, N[n].path[i])
BY DEF PathInv, OnPath

(* init_pid_ns is never destroyed.                                         *)
LEMMA InitLive ==
  ASSUME NEW N, PathInv(N)
  PROVE  InitNs \in Ns /\ N[InitNs].st = "live" /\ N[InitNs].level = 0
BY SlotsAssumption DEF PathInv

(* The namespace on a level above 0 is a child of the one before.          *)
LEMMA PathKid ==
  ASSUME NEW N \in [Ns -> NsType], PathInv(N), NEW n \in Ns, N[n].st = "live",
         NEW i \in 1 .. N[n].level
  PROVE  /\ N[n].path[i] \in KidSet(N, N[n].path[i - 1])
         /\ N[n].path[i] \in Ns \ {InitNs}
<1>1. N[n].level \in Nat /\ i \in 0 .. N[n].level /\ i - 1 \in 0 .. i /\ i # 0
  BY TypeOfNs
<1>2. PICK a : a = N[n].path[i]
  OBVIOUS
<1>3. OnPath(N, n, i, a)
  BY <1>1, <1>2, PathOf
<1>4. a # InitNs
  BY <1>1, <1>3, InitLive DEF OnPath
<1>5. a \in Ns /\ N[a].st = "live" /\ N[a].path[N[a].level - 1] = N[n].path[i - 1]
  BY <1>1, <1>3 DEF OnPath
<1> QED
  BY <1>2, <1>4, <1>5 DEF KidSet

(* A child is one level below its parent, which is in use.                 *)
LEMMA KidOf ==
  ASSUME NEW N \in [Ns -> NsType], PathInv(N), NEW m \in Ns, NEW a \in KidSet(N, m)
  PROVE  /\ a \in Ns \ {InitNs} /\ N[a].st = "live"
         /\ N[m].st = "live" /\ N[a].level = N[m].level + 1
         /\ a # m
<1>1. a \in Ns /\ a # InitNs /\ N[a].st = "live" /\ N[a].path[N[a].level - 1] = m
  BY DEF KidSet
<1>2. N[a].level \in Nat /\ N[m].level \in Nat
  BY <1>1, TypeOfNs
<1>3. N[a].level # 0
  BY <1>1, PathOf
<1>4. N[a].level - 1 \in 0 .. N[a].level
  BY <1>2, <1>3
<1>5. OnPath(N, a, N[a].level - 1, m)
  BY <1>1, <1>4, PathOf
<1>6. N[m].st = "live" /\ N[m].level = N[a].level - 1
  BY <1>5 DEF OnPath
<1> QED
  BY <1>1, <1>2, <1>6

(* What is the same in N and M decides what KidSet and PathInv say.        *)
SameTree(N, M) ==
  \A n \in Ns : /\ M[n].st = N[n].st /\ M[n].level = N[n].level
                /\ M[n].path = N[n].path

(* Where no namespace is created or destroyed, none gets or loses a child. *)
LEMMA SameKids ==
  ASSUME NEW N, NEW M, SameTree(N, M), NEW n
  PROVE  KidSet(M, n) = KidSet(N, n) /\ Kids(M, n) = Kids(N, n)
BY DEF SameTree, KidSet, Kids

(* Nor does any namespace move.                                            *)
LEMMA SamePaths ==
  ASSUME NEW N \in [Ns -> NsType], NEW M, SameTree(N, M), PathInv(N)
  PROVE  PathInv(M) /\ Stable(N, M) /\ InUse(M) = InUse(N)
<1>1. InUse(M) = InUse(N) /\ Stable(N, M)
  BY DEF SameTree, InUse, Stable
<1>2. InitNs \in Ns /\ M[InitNs].st = "live" /\ M[InitNs].level = 0
  BY InitLive DEF SameTree
<1>3. ASSUME NEW n \in Ns, M[n].st = "live"
      PROVE  /\ M[n].path[M[n].level] = n /\ M[n].path[0] = InitNs
             /\ \A i \in 0 .. M[n].level : OnPath(M, n, i, M[n].path[i])
  <2>1. N[n].st = "live" /\ M[n].level = N[n].level /\ M[n].path = N[n].path
    BY <1>3 DEF SameTree
  <2>2. ASSUME NEW i \in 0 .. N[n].level, NEW a, a = N[n].path[i]
        PROVE  OnPath(M, n, i, a)
    <3>1. OnPath(N, n, i, a)
      BY <2>1, <2>2, PathOf
    <3> QED
      BY <3>1, <2>1 DEF OnPath, SameTree
  <2> QED
    BY <2>1, <2>2, PathOf
<1> QED
  BY <1>1, <1>2, <1>3 DEF PathInv, OnPath

(* Nothing that matters to the tree is changed.                            *)
LEMMA TreeSame ==
  ASSUME NEW N, NEW b, Tree(N, b), NEW M \in [Ns -> NsType], SameTree(N, M),
         \A n \in Ns : M[n].kref = N[n].kref
  PROVE  Tree(M, b) /\ Stable(N, M) /\ InUse(M) = InUse(N)
<1>1. PathInv(M) /\ Stable(N, M) /\ InUse(M) = InUse(N)
  BY SamePaths DEF Tree
<1>2. ASSUME NEW n \in Ns PROVE Kids(M, n) = Kids(N, n) /\ M[n].st = N[n].st
  BY SameKids DEF SameTree
<1>3. KrefIn(M, b)
  BY <1>2 DEF KrefIn, Tree
<1> QED
  BY <1>1, <1>3 DEF Tree

(* A namespace that is referred to is in use.                              *)
LEMMA HeldLive ==
  ASSUME NEW N, NEW b, Tree(N, b), NEW n \in Ns, b[n] > 0
  PROVE  N[n].st = "live"
<1>1. CASE n = InitNs
  BY <1>1, InitLive DEF Tree
<1>2. CASE n # InitNs
  <2>1. Kids(N, n) \in Nat /\ b[n] \in Nat
    BY KidSetFinite DEF Tree
  <2>2. N[n].kref > 0
    BY <1>2, <2>1 DEF Tree, KrefIn
  <2> QED
    BY <1>2, <2>2 DEF Tree, KrefIn
<1> QED
  BY <1>1, <1>2

(* A slot not in use is referred to by nothing.                            *)
LEMMA UnusedSlot ==
  ASSUME NEW N, NEW b, Tree(N, b), NEW n \in Ns, N[n].st # "live"
  PROVE  n # InitNs /\ b[n] = 0 /\ KidSet(N, n) = {} /\ Kids(N, n) = 0
<1>1. n # InitNs
  BY InitLive DEF Tree
<1>2. Kids(N, n) \in Nat /\ b[n] \in Nat /\ IsFiniteSet(KidSet(N, n))
  BY KidSetFinite DEF Tree
<1>3. N[n].kref = b[n] + Kids(N, n) /\ ~(N[n].kref > 0)
  BY <1>1 DEF Tree, KrefIn
<1>4. b[n] = 0 /\ Kids(N, n) = 0
  BY <1>2, <1>3
<1> QED
  BY <1>1, <1>2, <1>4, FS_EmptySet DEF Kids

(* get_pid_ns() of a namespace in use.                                     *)
LEMMA GetIs ==
  ASSUME NEW N \in [Ns -> NsType], NEW n \in Ns, NEW M, M = get_pid_ns(N, n)
  PROVE  /\ M \in [Ns -> NsType] /\ SameTree(N, M)
         /\ \A m \in Ns : M[m].kref = N[m].kref
                                      + (IF m = n /\ m # InitNs THEN 1 ELSE 0)
<1>1. CASE n = InitNs
  <2>1. M = N
    BY <1>1 DEF get_pid_ns
  <2>2. \A m \in Ns : M[m].kref = N[m].kref + 0
    BY <2>1, TypeOfNs
  <2> QED
    BY <1>1, <2>1, <2>2 DEF SameTree
<1>2. CASE n # InitNs
  <2>1. N[n].kref + 1 \in Int
    BY TypeOfNs
  <2>2. PICK r : r = [N[n] EXCEPT !.kref = N[n].kref + 1]
    OBVIOUS
  <2>3. PICK v \in Int : v = N[n].kref + 1
    BY <2>1
  <2>4. r = [N[n] EXCEPT !.kref = v]
    BY <2>2, <2>3
  <2>5. /\ r \in NsType /\ r.kref = v /\ r.st = N[n].st /\ r.level = N[n].level
        /\ r.path = N[n].path
    BY <2>4, Zenon DEF NsType
  <2>6. M = [N EXCEPT ![n] = r]
    BY <1>2, <2>2 DEF get_pid_ns
  <2>7. M \in [Ns -> NsType] /\ \A m \in Ns : M[m] = IF m = n THEN r ELSE N[m]
    BY <2>5, <2>6
  <2>8. \A m \in Ns : N[m].kref \in Int
    BY TypeOfNs
  <2> QED
    BY <1>2, <2>3, <2>5, <2>7, <2>8 DEF SameTree
<1> QED
  BY <1>1, <1>2

(* get_pid_ns() adds one reference that is not a child's.                  *)
LEMMA GetTree ==
  ASSUME NEW N, NEW b, Tree(N, b), NEW n \in Ns, N[n].st = "live",
         NEW c, Adds(b, c, n), NEW M, M = get_pid_ns(N, n)
  PROVE  Tree(M, c) /\ Stable(N, M) /\ InUse(M) = InUse(N)
<1>1. /\ M \in [Ns -> NsType] /\ SameTree(N, M)
      /\ \A m \in Ns : M[m].kref = N[m].kref
                                   + (IF m = n /\ m # InitNs THEN 1 ELSE 0)
  BY GetIs DEF Tree
<1>2. PathInv(M) /\ Stable(N, M) /\ InUse(M) = InUse(N)
  BY <1>1, SamePaths DEF Tree
<1>3. ASSUME NEW m \in Ns \ {InitNs}
      PROVE  /\ M[m].kref = c[m] + Kids(M, m)
             /\ M[m].st = "live" <=> M[m].kref > 0
  <2>1. Kids(M, m) = Kids(N, m) /\ M[m].st = N[m].st
    BY <1>1, SameKids DEF SameTree
  <2>2. /\ N[m].kref = b[m] + Kids(N, m)
        /\ N[m].st = "live" <=> N[m].kref > 0
    BY DEF Tree, KrefIn
  <2>3. Kids(N, m) \in Nat /\ b[m] \in Nat
    BY KidSetFinite DEF Tree
  <2>4. /\ c[m] = b[m] + (IF m = n THEN 1 ELSE 0)
        /\ M[m].kref = N[m].kref + (IF m = n THEN 1 ELSE 0)
    BY <1>1 DEF Adds
  <2>5. CASE m = n
    BY <2>1, <2>2, <2>3, <2>4, <2>5
  <2>6. CASE m # n
    BY <2>1, <2>2, <2>3, <2>4, <2>6
  <2> QED
    BY <2>5, <2>6
<1> QED
  BY <1>1, <1>2, <1>3 DEF Tree, KrefIn, Adds

-----------------------------------------------------------------------------
(* create_pid_namespace()                                                  *)

(* M is N with a new namespace in slot n, a child of old.                  *)
Creates(N, M, old, n) ==
  /\ M \in [Ns -> NsType]
  /\ \A m \in Ns \ {n} :
       /\ M[m].st = N[m].st /\ M[m].level = N[m].level /\ M[m].path = N[m].path
       /\ M[m].kref = N[m].kref + (IF m = old /\ m # InitNs THEN 1 ELSE 0)
  /\ M[n].st = "live" /\ M[n].kref = 1 /\ M[n].level = N[old].level + 1
  /\ \A i \in Depth : M[n].path[i] = IF i = N[old].level + 1 THEN n ELSE N[old].path[i]

NewRecord(l, path) ==
  [NoNs EXCEPT !.st = "live", !.kref = 1, !.adding = TRUE, !.level = l, !.path = path]

(* The fields of a new namespace.                                          *)
LEMMA NewRecordIs ==
  ASSUME NEW l \in Depth, NEW path \in [Depth -> Ns \cup {NULL}],
         NEW r, r = NewRecord(l, path)
  PROVE  r \in NsType /\ r.st = "live" /\ r.kref = 1 /\ r.level = l /\ r.path = path
<1>1. ASSUME NEW z \in NsType, NEW v \in Int,
             r = [z EXCEPT !.st = "live", !.kref = v, !.adding = TRUE,
                           !.level = l, !.path = path]
      PROVE  r \in NsType /\ r.st = "live" /\ r.kref = v /\ r.level = l /\ r.path = path
  BY <1>1, Zenon DEF NsType
<1>2. 1 \in Int
  OBVIOUS
<1> QED
  BY <1>1, <1>2, NoNsIs, Zenon DEF NewRecord

(* create_pid_namespace() makes one child of old and refers to old for it. *)
LEMMA CreateIs ==
  ASSUME NEW N \in [Ns -> NsType], NEW old \in Ns, NEW n \in Ns, old # n,
         N[old].level + 1 <= MAX_PID_NS_LEVEL,
         NEW M, M = create_pid_namespace(N, old, n)
  PROVE  Creates(N, M, old, n)
<1>1. PICK l : l = N[old].level + 1
  OBVIOUS
<1>2. l \in Depth
  BY <1>1, TypeOfNs, SlotsAssumption DEF Depth
<1>3. PICK path : path = [N[old].path EXCEPT ![l] = n]
  OBVIOUS
<1>4. /\ path \in [Depth -> Ns \cup {NULL}]
      /\ \A i \in Depth : path[i] = IF i = l THEN n ELSE N[old].path[i]
  BY <1>2, <1>3, TypeOfNs
<1>5. PICK r : r = NewRecord(l, path)
  OBVIOUS
<1>6. r \in NsType /\ r.st = "live" /\ r.kref = 1 /\ r.level = l /\ r.path = path
  BY <1>2, <1>4, <1>5, NewRecordIs
<1>7. PICK G : G = get_pid_ns(N, old)
  OBVIOUS
<1>8. /\ G \in [Ns -> NsType] /\ SameTree(N, G)
      /\ \A m \in Ns : G[m].kref = N[m].kref
                                   + (IF m = old /\ m # InitNs THEN 1 ELSE 0)
  BY <1>7, GetIs
<1>9. M = [G EXCEPT ![n] = r]
  BY <1>1, <1>3, <1>5, <1>7 DEF create_pid_namespace, NewRecord
<1>10. M \in [Ns -> NsType] /\ M[n] = r /\ \A m \in Ns \ {n} : M[m] = G[m]
  BY <1>6, <1>8, <1>9
<1>11. /\ M[n].st = "live" /\ M[n].kref = 1 /\ M[n].level = N[old].level + 1
       /\ \A i \in Depth : M[n].path[i] = IF i = N[old].level + 1 THEN n
                                          ELSE N[old].path[i]
  BY <1>1, <1>4, <1>6, <1>10
<1>12. \A m \in Ns \ {n} :
         /\ M[m].st = N[m].st /\ M[m].level = N[m].level /\ M[m].path = N[m].path
         /\ M[m].kref = N[m].kref + (IF m = old /\ m # InitNs THEN 1 ELSE 0)
  BY <1>8, <1>10 DEF SameTree
<1> QED
  BY <1>10, <1>11, <1>12 DEF Creates

(* A new namespace continues the path of its parent and is on no other     *)
(* path.                                                                   *)
LEMMA CreatePaths ==
  ASSUME NEW N \in [Ns -> NsType], PathInv(N), NEW old \in Ns, N[old].st = "live",
         NEW n \in Ns, N[n].st # "live", NEW M, Creates(N, M, old, n)
  PROVE  PathInv(M) /\ Stable(N, M)
<1>1. old # n /\ n # InitNs /\ N[old].level \in Nat
  BY InitLive, TypeOfNs
<1>2. M[n].level \in Depth /\ M[n].level = N[old].level + 1 /\ M[n].st = "live"
  BY <1>1, TypeOfNs, SlotsAssumption DEF Creates, Depth
<1>3. \A m \in Ns \ {n} : M[m].st = N[m].st /\ M[m].level = N[m].level
                          /\ M[m].path = N[m].path
  BY DEF Creates
<1>4. Stable(N, M)
  BY <1>3 DEF Stable
<1>5. InitNs \in Ns /\ M[InitNs].st = "live" /\ M[InitNs].level = 0
  BY <1>1, <1>3, InitLive
<1>6. ASSUME NEW m \in Ns \ {n}, N[m].st = "live", NEW i \in 0 .. N[m].level,
             NEW a, a = N[m].path[i]
      PROVE  OnPath(M, m, i, a)
  <2>1. OnPath(N, m, i, a)
    BY <1>6, PathOf
  <2>2. a \in Ns \ {n}
    BY <2>1 DEF OnPath
  <2> QED
    BY <2>1, <2>2, <1>3 DEF OnPath
<1>7. ASSUME NEW i \in 0 .. M[n].level, NEW a, a = M[n].path[i]
      PROVE  OnPath(M, n, i, a)
  <2>1. i \in Depth /\ \A j \in 0 .. i : j \in Depth
    BY <1>2, SlotsAssumption DEF Depth
  <2>2. CASE i = M[n].level
    <3>1. a = n
      BY <1>2, <1>7, <2>1, <2>2 DEF Creates
    <3> QED
      BY <1>2, <1>7, <2>2, <3>1 DEF OnPath
  <2>3. CASE i # M[n].level
    <3>1. i \in 0 .. N[old].level
      BY <1>1, <1>2, <2>3
    <3>2. \A j \in 0 .. i : M[n].path[j] = N[old].path[j]
      BY <1>1, <2>1, <3>1 DEF Creates
    <3>3. a = N[old].path[i]
      BY <1>7, <3>1, <3>2
    <3>4. OnPath(M, old, i, a)
      BY <1>1, <1>6, <3>1, <3>3
    <3>5. M[old].path = N[old].path
      BY <1>1, <1>3
    <3> QED
      BY <1>7, <3>2, <3>4, <3>5 DEF OnPath
  <2> QED
    BY <2>2, <2>3
<1>8. M[n].path[M[n].level] = n /\ M[n].path[0] = InitNs
  <2>1. 0 \in Depth /\ 0 # N[old].level + 1
    BY <1>1, SlotsAssumption DEF Depth
  <2>2. N[old].path[0] = InitNs
    BY PathOf
  <2> QED
    BY <1>2, <2>1, <2>2 DEF Creates
<1>9. ASSUME NEW m \in Ns, M[m].st = "live"
      PROVE  /\ M[m].path[M[m].level] = m /\ M[m].path[0] = InitNs
             /\ \A i \in 0 .. M[m].level : OnPath(M, m, i, M[m].path[i])
  <2>1. CASE m = n
    BY <1>7, <1>8, <2>1
  <2>2. CASE m # n
    BY <1>3, <1>6, <1>9, <2>2, PathOf
  <2> QED
    BY <2>1, <2>2
<1> QED
  BY <1>4, <1>5, <1>9 DEF PathInv, OnPath

(* create_pid_namespace() keeps the tree; its caller has the new           *)
(* reference.                                                              *)
LEMMA CreateTree ==
  ASSUME NEW N, NEW b, Tree(N, b), NEW old \in Ns, N[old].st = "live",
         N[old].level + 1 <= MAX_PID_NS_LEVEL, NEW n \in Ns, N[n].st = "none",
         NEW c, Adds(b, c, n), NEW M, M = create_pid_namespace(N, old, n)
  PROVE  /\ Tree(M, c) /\ Stable(N, M) /\ InUse(M) = InUse(N) \cup {n}
         /\ Creates(N, M, old, n) /\ n # InitNs /\ old # n
<1>1. old # n /\ n # InitNs /\ N \in [Ns -> NsType] /\ PathInv(N) /\ InitNs \in Ns
  BY InitLive DEF Tree
<1>2. Creates(N, M, old, n)
  BY <1>1, CreateIs
<1>3. PathInv(M) /\ Stable(N, M)
  BY <1>1, <1>2, CreatePaths
<1>4. \A m \in Ns \ {n} : /\ M[m].st = N[m].st /\ M[m].level = N[m].level
                          /\ M[m].path = N[m].path
  BY <1>2 DEF Creates
<1>5. M[n].st = "live" /\ M[n].path[M[n].level - 1] = old
  <2>1. N[old].level \in Nat /\ N[old].level \in Depth
    BY TypeOfNs, <1>1 DEF Depth
  <2>2. M[n].level - 1 = N[old].level /\ N[old].level # N[old].level + 1
    BY <1>2, <2>1 DEF Creates
  <2> QED
    BY <1>1, <1>2, <2>1, <2>2, PathOf DEF Creates
<1>6. ASSUME NEW m \in Ns
      PROVE  KidSet(M, m) = IF m = old THEN KidSet(N, m) \cup {n} ELSE KidSet(N, m)
  <2>1. ASSUME NEW a \in Ns \ {n} PROVE a \in KidSet(M, m) <=> a \in KidSet(N, m)
    BY <1>4 DEF KidSet
  <2>2. n \in KidSet(M, m) <=> m = old
    BY <1>1, <1>5 DEF KidSet
  <2>3. n \notin KidSet(N, m)
    BY DEF KidSet
  <2>4. KidSet(M, m) \subseteq Ns /\ KidSet(N, m) \subseteq Ns
    BY DEF KidSet
  <2> QED
    BY <2>1, <2>2, <2>3, <2>4
<1>7. ASSUME NEW m \in Ns \ {InitNs}
      PROVE  /\ M[m].kref = c[m] + Kids(M, m)
             /\ M[m].st = "live" <=> M[m].kref > 0
  <2>0. Kids(N, m) \in Nat /\ b[m] \in Nat /\ IsFiniteSet(KidSet(N, m))
    BY KidSetFinite DEF Tree
  <2>1. CASE m = n
    <3>1. Kids(M, m) = 0
      BY <1>1, <1>6, <2>1, UnusedSlot DEF Kids
    <3>2. b[m] = 0 /\ c[m] = b[m] + 1
      BY <2>1, UnusedSlot DEF Adds
    <3> QED
      BY <1>2, <2>1, <3>1, <3>2 DEF Creates
  <2>2. CASE m = old
    <3>1. n \notin KidSet(N, m)
      BY DEF KidSet
    <3>2. Kids(M, m) = Kids(N, m) + 1
      BY <1>6, <2>0, <2>2, <3>1, FS_AddElement DEF Kids
    <3>3. M[m].kref = N[m].kref + 1 /\ M[m].st = N[m].st /\ c[m] = b[m] + 0
      BY <1>1, <1>2, <2>2 DEF Creates, Adds
    <3>4. N[m].kref = b[m] + Kids(N, m) /\ N[m].st = "live"
      BY <2>2 DEF Tree, KrefIn
    <3> QED
      BY <2>0, <3>2, <3>3, <3>4
  <2>3. CASE m # n /\ m # old
    <3>1. Kids(M, m) = Kids(N, m)
      BY <1>6, <2>3 DEF Kids
    <3>2. M[m].kref = N[m].kref + 0 /\ M[m].st = N[m].st /\ c[m] = b[m] + 0
      BY <1>2, <2>3 DEF Creates, Adds
    <3>3. N[m].kref = b[m] + Kids(N, m) /\ (N[m].st = "live" <=> N[m].kref > 0)
      BY DEF Tree, KrefIn
    <3> QED
      BY <2>0, <3>1, <3>2, <3>3
  <2> QED
    BY <2>1, <2>2, <2>3
<1>8. InUse(M) = InUse(N) \cup {n}
  BY <1>1, <1>4, <1>5 DEF InUse
<1> QED
  BY <1>1, <1>2, <1>3, <1>7, <1>8 DEF Tree, KrefIn, Adds, Creates

-----------------------------------------------------------------------------
(* delayed_free_pidns()                                                    *)
LEMMA FreeTree ==
  ASSUME NEW N, NEW b, Tree(N, b), NEW n \in Ns, N[n].st = "destroyed",
         NEW M, M = [N EXCEPT ![n] = NoNs]
  PROVE  Tree(M, b) /\ Stable(N, M) /\ InUse(M) = InUse(N) \ {n} /\ n \in InUse(N)
<1>1. /\ M \in [Ns -> NsType] /\ M[n].st = "none" /\ M[n].kref = 0
      /\ \A m \in Ns \ {n} : M[m] = N[m]
  BY NoNsIs DEF Tree
<1>2. n # InitNs /\ b[n] = 0 /\ Kids(N, n) = 0
  BY UnusedSlot
<1>3. \A m \in Ns : KidSet(M, m) = KidSet(N, m)
  BY <1>1 DEF KidSet
<1>4. ASSUME NEW m \in Ns \ {InitNs}
      PROVE  /\ M[m].kref = b[m] + Kids(M, m)
             /\ M[m].st = "live" <=> M[m].kref > 0
  <2>1. Kids(M, m) = Kids(N, m)
    BY <1>3 DEF Kids
  <2>2. CASE m = n
    BY <1>1, <1>2, <2>1, <2>2
  <2>3. CASE m # n
    BY <1>1, <2>1, <2>3 DEF Tree, KrefIn
  <2> QED
    BY <2>2, <2>3
<1>5. ASSUME NEW m \in Ns, M[m].st = "live"
      PROVE  /\ M[m].path[M[m].level] = m /\ M[m].path[0] = InitNs
             /\ \A i \in 0 .. M[m].level : OnPath(M, m, i, M[m].path[i])
  <2>1. m # n /\ M[m] = N[m] /\ N[m].st = "live" /\ PathInv(N)
    BY <1>1, <1>5 DEF Tree
  <2>2. ASSUME NEW i \in 0 .. N[m].level, NEW a, a = N[m].path[i]
        PROVE  OnPath(M, m, i, a)
    <3>1. OnPath(N, m, i, a)
      BY <2>1, <2>2, PathOf
    <3>2. M[a] = N[a]
      BY <1>1, <3>1 DEF OnPath
    <3> QED
      BY <2>1, <3>1, <3>2 DEF OnPath
  <2>3. /\ N[m].path[N[m].level] = m /\ N[m].path[0] = InitNs
        /\ \A i \in 0 .. N[m].level : OnPath(M, m, i, N[m].path[i])
    BY <2>1, <2>2, PathOf
  <2> QED
    BY <2>1, <2>3, Zenon
<1>6. PathInv(M)
  BY <1>1, <1>2, <1>5, InitLive DEF PathInv, OnPath, Tree
<1> QED
  BY <1>1, <1>2, <1>4, <1>6 DEF Tree, KrefIn, Stable, InUse

-----------------------------------------------------------------------------
(* put_pid_ns()                                                            *)

(* The namespaces that are destroyed, and the one that loses a reference.  *)
Gone(N, n) == {N[n].path[i] : i \in LastRefs(N, n)}
Stop(N, n) == {N[n].path[i] : i \in StopsAt(N, n)}

(* put_pid_ns(), field by field.                                           *)
LEMMA PutIs ==
  ASSUME NEW N \in [Ns -> NsType], NEW n \in Ns, NEW M, M = put_pid_ns(N, n)
  PROVE  /\ M \in [Ns -> NsType]
         /\ \A m \in Ns :
              /\ M[m].level = N[m].level /\ M[m].path = N[m].path
              /\ M[m].st = IF m \in Gone(N, n) THEN "destroyed" ELSE N[m].st
              /\ M[m].kref = IF m \in Gone(N, n) THEN 0
                             ELSE IF m \in Stop(N, n) THEN N[m].kref - 1
                             ELSE N[m].kref
<1> DEFINE R(m) == IF m \in Gone(N, n)
                   THEN [N[m] EXCEPT !.kref = 0, !.st = "destroyed"]
                   ELSE IF m \in Stop(N, n)
                   THEN [N[m] EXCEPT !.kref = N[m].kref - 1] ELSE N[m]
<1>1. M = [m \in Ns |-> R(m)]
  <2>1. ASSUME NEW m \in Ns
        PROVE  /\ (\E i \in LastRefs(N, n) : N[n].path[i] = m) <=> m \in Gone(N, n)
               /\ (\E i \in StopsAt(N, n) : N[n].path[i] = m) <=> m \in Stop(N, n)
    BY DEF Gone, Stop
  <2> QED
    BY <2>1, Zenon DEF put_pid_ns
<1>2. ASSUME NEW m \in Ns
      PROVE  /\ R(m) \in NsType /\ R(m).level = N[m].level /\ R(m).path = N[m].path
             /\ R(m).st = IF m \in Gone(N, n) THEN "destroyed" ELSE N[m].st
             /\ R(m).kref = IF m \in Gone(N, n) THEN 0
                            ELSE IF m \in Stop(N, n) THEN N[m].kref - 1
                            ELSE N[m].kref
  <2>1. N[m] \in NsType /\ N[m].kref - 1 \in Int /\ 0 \in Int
    BY TypeOfNs
  <2>2. ASSUME NEW v \in Int, NEW r, r = [N[m] EXCEPT !.kref = v]
        PROVE  /\ r \in NsType /\ r.level = N[m].level /\ r.path = N[m].path
               /\ r.st = N[m].st /\ r.kref = v
    BY <2>1, <2>2, Zenon DEF NsType
  <2>4. CASE m \in Gone(N, n)
    <3>1. PICK r : r = R(m)
      OBVIOUS
    <3>2. r = [N[m] EXCEPT !.kref = 0, !.st = "destroyed"]
      BY <2>4, <3>1
    <3>3. PICK v \in Int : v = 0
      BY <2>1
    <3>4. PICK z \in {N[m].st, "destroyed"} : z = "destroyed"
      OBVIOUS
    <3>5. r = [N[m] EXCEPT !.kref = v, !.st = z]
      BY <3>2, <3>3, <3>4
    <3>6. /\ r \in NsType /\ r.level = N[m].level /\ r.path = N[m].path
          /\ r.st = z /\ r.kref = v
      BY <2>1, <3>5, Zenon DEF NsType
    <3> HIDE DEF R
    <3> QED
      BY <2>4, <3>1, <3>3, <3>4, <3>6
  <2>5. CASE m \notin Gone(N, n) /\ m \in Stop(N, n)
    <3>1. R(m) = [N[m] EXCEPT !.kref = N[m].kref - 1]
      BY <2>5
    <3> QED
      BY <2>1, <2>2, <2>5, <3>1
  <2>6. CASE m \notin Gone(N, n) /\ m \notin Stop(N, n)
    BY <2>1, <2>6
  <2> QED
    BY <2>4, <2>5, <2>6
<1> HIDE DEF R
<1>3. \A m \in Ns : M[m] = R(m)
  BY <1>1
<1>4. M \in [Ns -> NsType]
  BY <1>1, <1>2, Zenon
<1> QED
  BY <1>2, <1>3, <1>4, Zenon

(* The chain of n below init_pid_ns: what put_pid_ns() walks along.        *)
LEMMA WalkOf ==
  ASSUME NEW N \in [Ns -> NsType], PathInv(N), NEW n \in Ns, N[n].st = "live"
  PROVE  /\ N[n].level \in Nat /\ N[n].path[N[n].level] = n
         /\ \A i \in 1 .. N[n].level :
              /\ N[n].path[i] \in Ns \ {InitNs} /\ N[N[n].path[i]].level = i
              /\ N[N[n].path[i]].st = "live"
              /\ N[n].path[i] \in KidSet(N, N[n].path[i - 1])
<1>1. N[n].level \in Nat /\ N[n].path[N[n].level] = n
  BY TypeOfNs, PathOf
<1>2. ASSUME NEW i \in 1 .. N[n].level
      PROVE  /\ N[n].path[i] \in Ns \ {InitNs} /\ N[N[n].path[i]].level = i
             /\ N[N[n].path[i]].st = "live"
             /\ N[n].path[i] \in KidSet(N, N[n].path[i - 1])
  <2>1. i \in 0 .. N[n].level
    BY <1>1
  <2>2. OnPath(N, n, i, N[n].path[i])
    BY <2>1, PathOf
  <2> QED
    BY <2>2, PathKid DEF OnPath
<1> QED
  BY <1>1, <1>2

(* Where the walk ends.                                                    *)
LEMMA GoneIs ==
  ASSUME NEW N, NEW n, N[n].level \in Nat, NEW i \in LastRefs(N, n)
  PROVE  /\ i \in 1 .. N[n].level /\ N[N[n].path[i]].kref = 1
         /\ \A j \in i .. N[n].level : j \in LastRefs(N, n)
         /\ i - 1 \in LastRefs(N, n) \/ i - 1 \in StopsAt(N, n) \/ i = 1
<1>1. i \in 1 .. N[n].level /\ \A j \in i .. N[n].level : N[N[n].path[j]].kref = 1
  BY DEF LastRefs
<1>2. \A j \in i .. N[n].level : j \in LastRefs(N, n)
  BY <1>1 DEF LastRefs
<1>3. i # 1 => i - 1 \in 1 .. N[n].level /\ (i - 1) + 1 = i
  BY <1>1
<1>4. i - 1 \in LastRefs(N, n) \/ i - 1 \in StopsAt(N, n) \/ i = 1
  BY <1>3 DEF StopsAt
<1> QED
  BY <1>1, <1>2, <1>4

(* The walk of put_pid_ns() stops at a namespace that has another          *)
(* reference, and below it only last references went.                      *)
LEMMA StopIs ==
  ASSUME NEW N, NEW n, N[n].level \in Nat, NEW i \in StopsAt(N, n)
  PROVE  /\ i \in 1 .. N[n].level /\ i \notin LastRefs(N, n)
         /\ N[N[n].path[i]].kref # 1
         /\ i = N[n].level \/ i + 1 \in LastRefs(N, n)
         /\ i = N[n].level => LastRefs(N, n) = {}
<1>1. /\ i \in 1 .. N[n].level /\ i \notin LastRefs(N, n)
      /\ i = N[n].level \/ i + 1 \in LastRefs(N, n)
  BY DEF StopsAt
<1>2. N[N[n].path[i]].kref # 1
  <2>1. SUFFICES ASSUME N[N[n].path[i]].kref = 1 PROVE FALSE
    OBVIOUS
  <2>2. \A j \in i .. N[n].level : j = i \/ j \in (i + 1) .. N[n].level
    BY <1>1
  <2>3. i = N[n].level \/ \A j \in (i + 1) .. N[n].level : N[N[n].path[j]].kref = 1
    BY <1>1 DEF LastRefs
  <2>4. \A j \in i .. N[n].level : N[N[n].path[j]].kref = 1
    BY <1>1, <2>1, <2>2, <2>3
  <2> QED
    BY <1>1, <2>4 DEF LastRefs
<1>3. ASSUME i = N[n].level, NEW j \in LastRefs(N, n) PROVE FALSE
  <2>1. i \in LastRefs(N, n)
    BY <1>1, <1>3, GoneIs
  <2> QED
    BY <1>1, <2>1
<1> QED
  BY <1>1, <1>2, <1>3

(* A namespace that is destroyed has no child but one that is destroyed.   *)
LEMMA GoneKids ==
  ASSUME NEW N, NEW b, NEW c, NEW n \in Ns, Tree(N, b), Adds(c, b, n),
         N[n].st = "live", NEW i \in LastRefs(N, n), NEW m, m = N[n].path[i]
  PROVE  /\ m \in Ns \ {InitNs} /\ c[m] = 0 /\ KidSet(N, m) \subseteq Gone(N, n)
         /\ N[m].level = i /\ i \in 1 .. N[n].level
<1>1. N \in [Ns -> NsType] /\ PathInv(N)
  BY DEF Tree
<1>2. /\ N[n].level \in Nat /\ N[n].path[N[n].level] = n
      /\ \A j \in 1 .. N[n].level :
           /\ N[n].path[j] \in Ns \ {InitNs} /\ N[N[n].path[j]].level = j
           /\ N[N[n].path[j]].st = "live"
           /\ N[n].path[j] \in KidSet(N, N[n].path[j - 1])
  BY <1>1, WalkOf
<1>3. /\ i \in 1 .. N[n].level /\ N[m].kref = 1
      /\ \A j \in i .. N[n].level : j \in LastRefs(N, n)
  BY <1>2, GoneIs
<1>4. m \in Ns \ {InitNs} /\ N[m].level = i
  BY <1>2, <1>3
<1>5. /\ Kids(N, m) \in Nat /\ IsFiniteSet(KidSet(N, m)) /\ b[m] \in Nat /\ c[m] \in Nat
      /\ b[m] = c[m] + (IF m = n THEN 1 ELSE 0)
  BY <1>4, KidSetFinite DEF Adds
<1>6. b[m] + Kids(N, m) = 1
  BY <1>3, <1>4 DEF Tree, KrefIn
<1>7. CASE i = N[n].level
  <2>1. c[m] = 0 /\ Kids(N, m) = 0
    BY <1>2, <1>5, <1>6, <1>7
  <2>2. KidSet(N, m) = {}
    BY <1>5, <2>1, FS_EmptySet DEF Kids
  <2> QED
    BY <1>3, <1>4, <2>1, <2>2
<1>8. CASE i # N[n].level
  <2>1. i + 1 \in 1 .. N[n].level /\ i + 1 \in LastRefs(N, n) /\ (i + 1) - 1 = i
    BY <1>2, <1>3, <1>8
  <2>2. PICK a : a = N[n].path[i + 1]
    OBVIOUS
  <2>3. a \in KidSet(N, m) /\ a \in Gone(N, n)
    BY <1>2, <2>1, <2>2 DEF Gone
  <2>4. Kids(N, m) # 0
    BY <1>5, <2>3, FS_EmptySet DEF Kids
  <2>5. Kids(N, m) = 1 /\ b[m] = 0
    BY <1>5, <1>6, <2>4
  <2>6. PICK y : KidSet(N, m) = {y}
    BY <1>5, <2>5, FS_Singleton DEF Kids
  <2>7. KidSet(N, m) \subseteq Gone(N, n)
    BY <2>3, <2>6
  <2>8. c[m] = 0
    BY <1>5, <2>5
  <2> QED
    BY <1>3, <1>4, <2>7, <2>8
<1> QED
  BY <1>7, <1>8

(* A namespace that is not destroyed loses the child that is, if any.      *)
LEMMA StopKids ==
  ASSUME NEW N, NEW n \in Ns, N \in [Ns -> NsType], PathInv(N), N[n].st = "live",
         NEW a \in Gone(N, n), NEW m \in Ns, a \in KidSet(N, m)
  PROVE  \/ m \in Gone(N, n) \/ m = InitNs
         \/ \E i \in StopsAt(N, n) :
              m = N[n].path[i] /\ i < N[n].level /\ a = N[n].path[i + 1]
<1>2. /\ N[n].level \in Nat /\ N[n].path[N[n].level] = n
      /\ \A j \in 1 .. N[n].level :
           /\ N[n].path[j] \in Ns \ {InitNs} /\ N[N[n].path[j]].level = j
           /\ N[N[n].path[j]].st = "live"
           /\ N[n].path[j] \in KidSet(N, N[n].path[j - 1])
  BY WalkOf
<1>3. PICK j \in LastRefs(N, n) : a = N[n].path[j]
  BY DEF Gone
<1>4. /\ j \in 1 .. N[n].level
      /\ j - 1 \in LastRefs(N, n) \/ j - 1 \in StopsAt(N, n) \/ j = 1
  BY <1>2, GoneIs
<1>5. m = N[n].path[j - 1]
  BY <1>2, <1>3, <1>4 DEF KidSet
<1>6. CASE j = 1
  <2>1. m = InitNs
    BY <1>5, <1>6, PathOf
  <2> QED
    BY <2>1
<1>7. CASE j - 1 \in LastRefs(N, n)
  BY <1>5, <1>7 DEF Gone
<1>8. CASE j - 1 \in StopsAt(N, n)
  <2>1. PICK i : i = j - 1
    OBVIOUS
  <2>2. i \in StopsAt(N, n) /\ m = N[n].path[i] /\ i < N[n].level /\ j = i + 1
    BY <1>2, <1>4, <1>5, <1>8, <2>1
  <2> QED
    BY <1>3, <2>2
<1> QED
  BY <1>4, <1>6, <1>7, <1>8

(* put_pid_ns() leaves every count exact: a namespace that is destroyed    *)
(* had no child left but one that is destroyed with it, and the one the    *)
(* walk stops at lost one child, or the caller's reference.                *)
LEMMA PutKref ==
  ASSUME NEW N, NEW b, NEW c, NEW n \in Ns, Tree(N, b), Adds(c, b, n),
         N[n].st = "live", NEW M, M = put_pid_ns(N, n), NEW m \in Ns \ {InitNs}
  PROVE  /\ M[m].kref = c[m] + Kids(M, m)
         /\ M[m].st = "live" <=> M[m].kref > 0
<1>1. N \in [Ns -> NsType] /\ PathInv(N)
  BY DEF Tree
<1>2. /\ N[n].level \in Nat /\ N[n].path[N[n].level] = n
      /\ \A j \in 1 .. N[n].level :
           /\ N[n].path[j] \in Ns \ {InitNs} /\ N[N[n].path[j]].level = j
           /\ N[N[n].path[j]].st = "live"
           /\ N[n].path[j] \in KidSet(N, N[n].path[j - 1])
  BY <1>1, WalkOf
<1>3. /\ M \in [Ns -> NsType]
      /\ \A y \in Ns :
           /\ M[y].level = N[y].level /\ M[y].path = N[y].path
           /\ M[y].st = IF y \in Gone(N, n) THEN "destroyed" ELSE N[y].st
           /\ M[y].kref = IF y \in Gone(N, n) THEN 0
                          ELSE IF y \in Stop(N, n) THEN N[y].kref - 1
                          ELSE N[y].kref
  BY <1>1, PutIs
<1>4. \A y \in Ns : KidSet(M, y) = KidSet(N, y) \ Gone(N, n)
  BY <1>3 DEF KidSet
<1>5. /\ Kids(N, m) \in Nat /\ IsFiniteSet(KidSet(N, m)) /\ b[m] \in Nat /\ c[m] \in Nat
      /\ b[m] = c[m] + (IF m = n THEN 1 ELSE 0)
  BY KidSetFinite DEF Adds
<1>6. N[m].kref = b[m] + Kids(N, m) /\ (N[m].st = "live" <=> N[m].kref > 0)
  BY DEF Tree, KrefIn
<1>7. CASE m \in Gone(N, n)
  <2>1. PICK i \in LastRefs(N, n) : m = N[n].path[i]
    BY <1>7 DEF Gone
  <2>2. c[m] = 0 /\ KidSet(N, m) \subseteq Gone(N, n)
    BY <2>1, GoneKids
  <2>3. KidSet(M, m) = {}
    BY <1>4, <2>2
  <2>4. Kids(M, m) = 0
    BY <2>3, FS_EmptySet DEF Kids
  <2>5. M[m].kref = 0 /\ M[m].st = "destroyed"
    BY <1>3, <1>7
  <2> QED
    BY <2>2, <2>4, <2>5
<1>8. CASE m \notin Gone(N, n) /\ m \in Stop(N, n)
  <2>1. PICK i \in StopsAt(N, n) : m = N[n].path[i]
    BY <1>8 DEF Stop
  <2>2. /\ i \in 1 .. N[n].level /\ N[m].kref # 1
        /\ i = N[n].level \/ i + 1 \in LastRefs(N, n)
        /\ i = N[n].level => LastRefs(N, n) = {}
    BY <1>2, <2>1, StopIs
  <2>3. N[m].st = "live" /\ M[m].st = N[m].st /\ M[m].kref = N[m].kref - 1
    BY <1>2, <1>3, <1>8, <2>1, <2>2
  <2>4. CASE i = N[n].level
    <3>1. m = n /\ KidSet(M, m) = KidSet(N, m)
      BY <1>2, <1>4, <2>1, <2>2, <2>4 DEF Gone
    <3>2. Kids(M, m) = Kids(N, m)
      BY <3>1 DEF Kids
    <3> QED
      BY <1>5, <1>6, <2>2, <2>3, <3>1, <3>2
  <2>5. CASE i # N[n].level
    <3>1. i + 1 \in 1 .. N[n].level /\ i + 1 \in LastRefs(N, n) /\ (i + 1) - 1 = i
      BY <1>2, <2>2, <2>5
    <3>2. PICK a : a = N[n].path[i + 1]
      OBVIOUS
    <3>3. a \in KidSet(N, m) /\ a \in Gone(N, n)
      BY <1>2, <2>1, <3>1, <3>2 DEF Gone
    <3>4. ASSUME NEW y \in KidSet(N, m), y \in Gone(N, n) PROVE y = a
      <4>1. N[y].level = N[m].level + 1
        BY <1>1, <3>4, KidOf
      <4>2. PICK j \in LastRefs(N, n) : y = N[n].path[j]
        BY <3>4 DEF Gone
      <4>3. j \in 1 .. N[n].level /\ N[y].level = j /\ N[m].level = i
        BY <1>2, <2>1, <2>2, <4>2, GoneIs
      <4> QED
        BY <3>2, <4>1, <4>2, <4>3
    <3>5. KidSet(M, m) = KidSet(N, m) \ {a}
      BY <1>4, <3>3, <3>4
    <3>6. Kids(M, m) = Kids(N, m) - 1
      BY <1>5, <3>3, <3>5, FS_RemoveElement DEF Kids
    <3>7. m # n
      BY <1>2, <2>1, <2>2, <2>5
    <3> QED
      BY <1>5, <1>6, <2>2, <2>3, <3>6, <3>7
  <2> QED
    BY <2>4, <2>5
<1>9. CASE m \notin Gone(N, n) /\ m \notin Stop(N, n)
  <2>1. M[m].st = N[m].st /\ M[m].kref = N[m].kref
    BY <1>3, <1>9
  <2>2. KidSet(M, m) = KidSet(N, m)
    <3>1. ASSUME NEW a \in KidSet(N, m), a \in Gone(N, n) PROVE FALSE
      BY <1>1, <1>9, <3>1, StopKids DEF Stop
    <3> QED
      BY <1>4, <3>1
  <2>3. m # n
    <3>1. SUFFICES ASSUME m = n PROVE FALSE
      OBVIOUS
    <3>2. N[n].level # 0
      BY <1>1, <1>2, <3>1, PathOf
    <3>3. N[n].level \in 1 .. N[n].level
      BY <1>2, <3>2
    <3>4. N[n].level \in LastRefs(N, n) \/ N[n].level \in StopsAt(N, n)
      BY <3>3 DEF StopsAt
    <3> QED
      BY <1>2, <1>9, <3>1, <3>4 DEF Gone, Stop
  <2> QED
    BY <1>5, <1>6, <2>1, <2>2, <2>3 DEF Kids
<1> QED
  BY <1>7, <1>8, <1>9

(* Every set of numbers up to l but the empty one has a greatest element.  *)
LEMMA GreatestUpTo ==
  ASSUME NEW l \in Nat, NEW S \in SUBSET (0 .. l), S # {}
  PROVE  \E x \in S : \A y \in S : y <= x
<1> DEFINE R == {ss \in Nat \X Nat : ss[1] < ss[2]}
           D == {l - x : x \in S}
<1>1. IsWellFoundedOn(R, Nat)
  BY NatLessThanWellFounded DEF R, OpToRel
<1>2. D \subseteq Nat /\ D # {}
  <2>1. \A x \in S : l - x \in Nat
    OBVIOUS
  <2> QED
    BY <2>1
<1>3. PICK d \in D : \A e \in D : ~(<<e, d>> \in R)
  <2> HIDE DEF R, D
  <2> QED
    BY <1>1, <1>2, WFMin
<1>4. PICK x \in S : d = l - x
  OBVIOUS
<1>5. ASSUME NEW y \in S PROVE y <= x
  <2>1. l - y \in D /\ l - y \in Nat /\ d \in Nat
    BY <1>2
  <2>2. ~(l - y < d)
    BY <1>3, <2>1
  <2> QED
    BY <1>4, <2>2
<1> QED
  BY <1>5

(* What is in use has its ancestors in use: a destroyed one would have a   *)
(* child on the path that is destroyed as well.                            *)
LEMMA PutAncestors ==
  ASSUME NEW N, NEW b, NEW c, NEW n \in Ns, Tree(N, b), Adds(c, b, n),
         N[n].st = "live", NEW m \in Ns, N[m].st = "live", m \notin Gone(N, n),
         NEW i \in 0 .. N[m].level
  PROVE  N[m].path[i] \notin Gone(N, n)
<1> DEFINE S == {j \in 0 .. N[m].level : N[m].path[j] \in Gone(N, n)}
<1>1. SUFFICES ASSUME S # {} PROVE FALSE
  OBVIOUS
<1>2. N \in [Ns -> NsType] /\ PathInv(N) /\ N[m].level \in Nat
  BY TypeOfNs DEF Tree
<1>3. PICK x \in S : \A y \in S : y <= x
  BY <1>1, <1>2, GreatestUpTo
<1>4. x \in 0 .. N[m].level /\ N[m].path[x] \in Gone(N, n)
  OBVIOUS
<1>5. x # N[m].level
  BY <1>2, <1>4, PathOf
<1>6. x + 1 \in 1 .. N[m].level /\ (x + 1) - 1 = x
  BY <1>2, <1>4, <1>5
<1>7. PICK a : a = N[m].path[x + 1]
  OBVIOUS
<1>8. PICK d : d = N[m].path[x]
  OBVIOUS
<1>9. a \in KidSet(N, d)
  BY <1>2, <1>6, <1>7, <1>8, PathKid
<1>10. PICK j \in LastRefs(N, n) : d = N[n].path[j]
  BY <1>4, <1>8 DEF Gone
<1>11. KidSet(N, d) \subseteq Gone(N, n)
  BY <1>10, GoneKids
<1>12. x + 1 \in S
  BY <1>6, <1>7, <1>9, <1>11
<1>13. x + 1 <= x /\ x \in Int
  BY <1>2, <1>3, <1>4, <1>12
<1> QED
  BY <1>13

(* What put_pid_ns() destroys is above nothing that stays in use.          *)
LEMMA PutPaths ==
  ASSUME NEW N, NEW b, NEW c, NEW n \in Ns, Tree(N, b), Adds(c, b, n),
         N[n].st = "live", NEW M, M = put_pid_ns(N, n)
  PROVE  PathInv(M) /\ Stable(N, M) /\ InUse(M) = InUse(N)
<1>1. N \in [Ns -> NsType] /\ PathInv(N)
  BY DEF Tree
<1>2. \A y \in Ns : /\ M[y].level = N[y].level /\ M[y].path = N[y].path
                    /\ M[y].st = IF y \in Gone(N, n) THEN "destroyed" ELSE N[y].st
  BY <1>1, PutIs
<1>3. Stable(N, M)
  BY <1>2 DEF Stable
<1>4. \A y \in Gone(N, n) : y \in Ns \ {InitNs} /\ N[y].st = "live"
  <2> SUFFICES ASSUME NEW j \in LastRefs(N, n), NEW y, y = N[n].path[j]
               PROVE  y \in Ns \ {InitNs} /\ N[y].st = "live"
    BY DEF Gone
  <2>1. y \in Ns \ {InitNs} /\ j \in 1 .. N[n].level
    BY GoneKids
  <2> QED
    BY <1>1, <2>1, WalkOf
<1>5. InUse(M) = InUse(N)
  BY <1>2, <1>4 DEF InUse
<1>6. InitNs \in Ns /\ M[InitNs].st = "live" /\ M[InitNs].level = 0
  BY <1>1, <1>2, <1>4, InitLive
<1>7. ASSUME NEW m \in Ns, M[m].st = "live"
      PROVE  /\ M[m].path[M[m].level] = m /\ M[m].path[0] = InitNs
             /\ \A i \in 0 .. M[m].level : OnPath(M, m, i, M[m].path[i])
  <2>1. m \notin Gone(N, n) /\ N[m].st = "live"
    BY <1>2, <1>7
  <2>2. ASSUME NEW i \in 0 .. N[m].level, NEW a, a = N[m].path[i]
        PROVE  OnPath(M, m, i, a)
    <3>1. OnPath(N, m, i, a)
      BY <1>1, <2>1, <2>2, PathOf
    <3>2. a \notin Gone(N, n)
      BY <2>1, <2>2, PutAncestors
    <3> QED
      BY <1>2, <3>1, <3>2 DEF OnPath
  <2>3. /\ N[m].path[N[m].level] = m /\ N[m].path[0] = InitNs
        /\ \A i \in 0 .. N[m].level : OnPath(M, m, i, N[m].path[i])
    BY <1>1, <2>1, <2>2, PathOf
  <2>4. M[m].level = N[m].level /\ M[m].path = N[m].path
    BY <1>2
  <2> QED
    BY <2>3, <2>4
<1> QED
  BY <1>3, <1>5, <1>6, <1>7 DEF PathInv, OnPath

(* put_pid_ns() of one reference.                                          *)
LEMMA PutTree ==
  ASSUME NEW N, NEW b, NEW c, NEW n \in Ns, Tree(N, b), Adds(c, b, n),
         NEW M, M = put_pid_ns(N, n)
  PROVE  Tree(M, c) /\ Stable(N, M) /\ InUse(M) = InUse(N)
<1>1. b[n] > 0
  <2>1. b[n] = c[n] + 1 /\ c[n] \in Nat
    BY DEF Adds
  <2> QED
    BY <2>1
<1>2. N[n].st = "live"
  BY <1>1, HeldLive
<1>3. PathInv(M) /\ Stable(N, M) /\ InUse(M) = InUse(N)
  BY <1>2, PutPaths
<1>4. KrefIn(M, c)
  BY <1>2, PutKref DEF KrefIn
<1>5. M \in [Ns -> NsType]
  BY PutIs DEF Tree
<1> QED
  BY <1>3, <1>4, <1>5 DEF Tree, Adds

-----------------------------------------------------------------------------
(* Who refers to a namespace.                                              *)

Count(S, g, v) == Cardinality({x \in S : g[x] = v})

PidNs(P)  == [p \in Pid |-> IF P[p].st = "none" THEN NULL
                            ELSE P[p].numbers[P[p].level]]
KidsOf(T) == [t \in Task |-> T[t].kids]
ForkNs(f) == [t \in Task |-> IF f[t] = NULL THEN NULL ELSE f[t].kids]

Holds(g, h, e, F) ==
  [n \in Ns |-> Count(Pid, g, n) + Count(Task, h, n) + Count(Task, e, n)
                + Cardinality({n} \cap F)]

(* A count of a finite set is a natural, and positive if anything is       *)
(* counted.                                                                *)
LEMMA CountNat ==
  ASSUME NEW S, IsFiniteSet(S), NEW g, NEW v
  PROVE  /\ IsFiniteSet({x \in S : g[x] = v}) /\ Count(S, g, v) \in Nat
         /\ \A x \in S : g[x] = v => Count(S, g, v) > 0
<1>1. IsFiniteSet({x \in S : g[x] = v})
  BY FS_Subset, {x \in S : g[x] = v} \subseteq S
<1>2. Count(S, g, v) \in Nat
  BY <1>1, FS_CardinalityType DEF Count
<1>3. Count(S, g, v) = 0 => {x \in S : g[x] = v} = {}
  BY <1>1, FS_EmptySet DEF Count
<1> QED
  BY <1>1, <1>2, <1>3

(* G is g with v at x, where nothing was.                                  *)
Places(S, g, G, x, v) ==
  /\ x \in S /\ g[x] = NULL /\ G[x] = v
  /\ \A y \in S \ {x} : G[y] = g[y]

(* One more x counts for v and for no other namespace.                     *)
LEMMA CountPlaces ==
  ASSUME NEW S, IsFiniteSet(S), NEW g, NEW G, NEW x, NEW v, Places(S, g, G, x, v),
         NEW n \in Ns
  PROVE  Count(S, G, n) = Count(S, g, n) + (IF n = v THEN 1 ELSE 0)
<1>1. n # NULL
  BY NullIsNone
<1> DEFINE A == {y \in S : g[y] = n}
<1>2. IsFiniteSet(A) /\ Count(S, g, n) \in Nat /\ Count(S, g, n) = Cardinality(A)
  <2>1. Count(S, g, n) \in Nat
    BY CountNat, Zenon
  <2>2. IsFiniteSet(A)
    BY FS_Subset, A \subseteq S
  <2> QED
    BY <2>1, <2>2, Zenon DEF Count
<1>3. CASE n = v
  <2>1. {y \in S : G[y] = n} = A \cup {x} /\ x \notin A
    BY <1>1, <1>3 DEF Places
  <2> HIDE DEF A
  <2>2. Cardinality(A \cup {x}) = Cardinality(A) + 1
    BY <1>2, <2>1, FS_AddElement
  <2> QED
    BY <1>2, <1>3, <2>1, <2>2 DEF Count
<1>4. CASE n # v
  <2>1. {y \in S : G[y] = n} = A
    BY <1>1, <1>4 DEF Places
  <2> HIDE DEF A
  <2> QED
    BY <1>2, <1>4, <2>1 DEF Count
<1> QED
  BY <1>3, <1>4

(* Holds is a sum of naturals.                                             *)
LEMMA HoldsNat ==
  ASSUME NEW g, NEW h, NEW e, NEW F, NEW b, b = Holds(g, h, e, F)
  PROVE  /\ b \in [Ns -> Nat]
         /\ \A n \in Ns :
              /\ b[n] = Count(Pid, g, n) + Count(Task, h, n) + Count(Task, e, n)
                        + Cardinality({n} \cap F)
              /\ Count(Pid, g, n) \in Nat /\ Count(Task, h, n) \in Nat
              /\ Count(Task, e, n) \in Nat /\ Cardinality({n} \cap F) \in Nat
<1>1. ASSUME NEW n \in Ns
      PROVE  /\ Count(Pid, g, n) \in Nat /\ Count(Task, h, n) \in Nat
             /\ Count(Task, e, n) \in Nat /\ Cardinality({n} \cap F) \in Nat
  BY CountNat, InOne, SlotsAssumption
<1> QED
  BY <1>1 DEF Holds

SumOf(b, g, h, e, F, n) ==
  /\ b[n] = Count(Pid, g, n) + Count(Task, h, n) + Count(Task, e, n)
            + Cardinality({n} \cap F)
  /\ Count(Pid, g, n) \in Nat /\ Count(Task, h, n) \in Nat
  /\ Count(Task, e, n) \in Nat /\ Cardinality({n} \cap F) \in Nat

(* Holds at one namespace, as one opaque fact.                             *)
LEMMA HoldsSum ==
  ASSUME NEW g, NEW h, NEW e, NEW F, NEW b, b = Holds(g, h, e, F)
  PROVE  b \in [Ns -> Nat] /\ \A n \in Ns : SumOf(b, g, h, e, F, n)
BY HoldsNat DEF SumOf

(* Whatever is counted makes Holds positive.                               *)
LEMMA HoldsPos ==
  ASSUME NEW g, NEW h, NEW e, NEW F, NEW b, b = Holds(g, h, e, F), NEW n \in Ns
  PROVE  /\ \A p \in Pid : g[p] = n => b[n] > 0
         /\ \A t \in Task : h[t] = n \/ e[t] = n => b[n] > 0
         /\ n \in F => b[n] > 0
<1>1. /\ b[n] = Count(Pid, g, n) + Count(Task, h, n) + Count(Task, e, n)
                + Cardinality({n} \cap F)
      /\ Count(Pid, g, n) \in Nat /\ Count(Task, h, n) \in Nat
      /\ Count(Task, e, n) \in Nat /\ Cardinality({n} \cap F) \in Nat
  <2>1. \A m \in Ns : SumOf(b, g, h, e, F, m)
    BY HoldsSum
  <2>2. SumOf(b, g, h, e, F, n)
    BY <2>1
  <2> QED
    BY <2>2 DEF SumOf
<1>2. \A p \in Pid : g[p] = n => Count(Pid, g, n) > 0
  BY CountNat, SlotsAssumption
<1>3. \A t \in Task : h[t] = n => Count(Task, h, n) > 0
  BY CountNat, SlotsAssumption
<1>4. \A t \in Task : e[t] = n => Count(Task, e, n) > 0
  BY CountNat, SlotsAssumption
<1>5. n \in F => Cardinality({n} \cap F) > 0
  BY InOne
<1> QED
  BY <1>1, <1>2, <1>3, <1>4, <1>5

(* One more struct pid, task, fork or file.                                *)
LEMMA HoldsPid ==
  ASSUME NEW g, NEW h, NEW e, NEW F, NEW G, NEW p, NEW n, Places(Pid, g, G, p, n)
  PROVE  Adds(Holds(g, h, e, F), Holds(G, h, e, F), n)
<1>1. PICK b : b = Holds(g, h, e, F)
  OBVIOUS
<1>2. PICK c : c = Holds(G, h, e, F)
  OBVIOUS
<1>3. \A m \in Ns : Count(Pid, G, m) = Count(Pid, g, m) + (IF m = n THEN 1 ELSE 0)
  BY CountPlaces, SlotsAssumption
<1>4. /\ b \in [Ns -> Nat]
      /\ \A m \in Ns : SumOf(b, g, h, e, F, m)
  BY <1>1, HoldsSum
<1>5. /\ c \in [Ns -> Nat]
      /\ \A m \in Ns : SumOf(c, G, h, e, F, m)
  BY <1>2, HoldsSum
<1>6. ASSUME NEW m \in Ns PROVE c[m] = b[m] + (IF m = n THEN 1 ELSE 0)
  <2>1. SumOf(b, g, h, e, F, m) /\ SumOf(c, G, h, e, F, m)
    BY <1>4, <1>5
  <2> QED
    BY <1>3, <2>1 DEF SumOf
<1> QED
  BY <1>1, <1>2, <1>4, <1>5, <1>6 DEF Adds

(* An nsproxy that comes to refer to n adds one.                           *)
LEMMA HoldsKids ==
  ASSUME NEW g, NEW h, NEW e, NEW F, NEW H, NEW t, NEW n, Places(Task, h, H, t, n)
  PROVE  Adds(Holds(g, h, e, F), Holds(g, H, e, F), n)
<1>1. PICK b : b = Holds(g, h, e, F)
  OBVIOUS
<1>2. PICK c : c = Holds(g, H, e, F)
  OBVIOUS
<1>3. \A m \in Ns : Count(Task, H, m) = Count(Task, h, m) + (IF m = n THEN 1 ELSE 0)
  BY CountPlaces, SlotsAssumption
<1>4. /\ b \in [Ns -> Nat]
      /\ \A m \in Ns : SumOf(b, g, h, e, F, m)
  BY <1>1, HoldsSum
<1>5. /\ c \in [Ns -> Nat]
      /\ \A m \in Ns : SumOf(c, g, H, e, F, m)
  BY <1>2, HoldsSum
<1>6. ASSUME NEW m \in Ns PROVE c[m] = b[m] + (IF m = n THEN 1 ELSE 0)
  <2>1. SumOf(b, g, h, e, F, m) /\ SumOf(c, g, H, e, F, m)
    BY <1>4, <1>5
  <2> QED
    BY <1>3, <2>1 DEF SumOf
<1> QED
  BY <1>1, <1>2, <1>4, <1>5, <1>6 DEF Adds

(* A fork for n adds one.                                                  *)
LEMMA HoldsFork ==
  ASSUME NEW g, NEW h, NEW e, NEW F, NEW E, NEW t, NEW n, Places(Task, e, E, t, n)
  PROVE  Adds(Holds(g, h, e, F), Holds(g, h, E, F), n)
<1>1. PICK b : b = Holds(g, h, e, F)
  OBVIOUS
<1>2. PICK c : c = Holds(g, h, E, F)
  OBVIOUS
<1>3. \A m \in Ns : Count(Task, E, m) = Count(Task, e, m) + (IF m = n THEN 1 ELSE 0)
  BY CountPlaces, SlotsAssumption
<1>4. /\ b \in [Ns -> Nat]
      /\ \A m \in Ns : SumOf(b, g, h, e, F, m)
  BY <1>1, HoldsSum
<1>5. /\ c \in [Ns -> Nat]
      /\ \A m \in Ns : SumOf(c, g, h, E, F, m)
  BY <1>2, HoldsSum
<1>6. ASSUME NEW m \in Ns PROVE c[m] = b[m] + (IF m = n THEN 1 ELSE 0)
  <2>1. SumOf(b, g, h, e, F, m) /\ SumOf(c, g, h, E, F, m)
    BY <1>4, <1>5
  <2> QED
    BY <1>3, <2>1 DEF SumOf
<1> QED
  BY <1>1, <1>2, <1>4, <1>5, <1>6 DEF Adds

(* A file on n adds one.                                                   *)
LEMMA HoldsFile ==
  ASSUME NEW g, NEW h, NEW e, NEW F, NEW D, NEW n, n \notin F, D = F \cup {n}
  PROVE  Adds(Holds(g, h, e, F), Holds(g, h, e, D), n)
<1>1. PICK b : b = Holds(g, h, e, F)
  OBVIOUS
<1>2. PICK c : c = Holds(g, h, e, D)
  OBVIOUS
<1>3. ASSUME NEW m \in Ns
      PROVE  Cardinality({m} \cap D) = Cardinality({m} \cap F) + (IF m = n THEN 1 ELSE 0)
  BY InOne
<1>4. /\ b \in [Ns -> Nat]
      /\ \A m \in Ns : SumOf(b, g, h, e, F, m)
  BY <1>1, HoldsSum
<1>5. /\ c \in [Ns -> Nat]
      /\ \A m \in Ns : SumOf(c, g, h, e, D, m)
  BY <1>2, HoldsSum
<1>6. ASSUME NEW m \in Ns PROVE c[m] = b[m] + (IF m = n THEN 1 ELSE 0)
  <2>1. SumOf(b, g, h, e, F, m) /\ SumOf(c, g, h, e, D, m)
    BY <1>4, <1>5
  <2> QED
    BY <1>3, <2>1 DEF SumOf
<1> QED
  BY <1>1, <1>2, <1>4, <1>5, <1>6 DEF Adds

(* A task forks: what the fork holds becomes what the child holds.         *)
LEMMA HoldsMoves ==
  ASSUME NEW g, NEW h, NEW e, NEW F, NEW H, NEW E, NEW t, NEW c, NEW n,
         Places(Task, E, e, t, n), Places(Task, h, H, c, n)
  PROVE  Holds(g, H, E, F) = Holds(g, h, e, F)
<1>1. PICK b : b = Holds(g, h, e, F)
  OBVIOUS
<1>2. PICK d : d = Holds(g, H, E, F)
  OBVIOUS
<1>3. \A m \in Ns : Count(Task, e, m) = Count(Task, E, m) + (IF m = n THEN 1 ELSE 0)
  BY CountPlaces, SlotsAssumption
<1>4. \A m \in Ns : Count(Task, H, m) = Count(Task, h, m) + (IF m = n THEN 1 ELSE 0)
  BY CountPlaces, SlotsAssumption
<1>5. ASSUME NEW m \in Ns PROVE b[m] = d[m]
  <2>1. SumOf(b, g, h, e, F, m) /\ SumOf(d, g, H, E, F, m)
    BY <1>1, <1>2, HoldsSum
  <2> QED
    BY <1>3, <1>4, <2>1 DEF SumOf
<1>6. b \in [Ns -> Nat] /\ d \in [Ns -> Nat]
  BY <1>1, <1>2, HoldsNat
<1> QED
  BY <1>1, <1>2, <1>5, <1>6

-----------------------------------------------------------------------------
(* NsPart, in terms of a state.                                            *)

Holding(s, f, G) == Holds(PidNs(s.pid), KidsOf(s.task), ForkNs(f), G)

(* The namespace a task is in, and a is n or above it.                     *)
active(s, t) == ns_of(s, s.task[t].thread_pid)
Above(N, a, n) == a \in Chain(N[n].path, N[n].level)

NumberOf(s, p) ==
  LET n == ns_of(s, p) IN
  /\ n \in Ns /\ s.pid[p].level = s.ns[n].level /\ s.pid[p].numbers = s.ns[n].path

ForkOf(s, f, t) ==
  /\ ns_of(s, f[t].pid) = f[t].kids
  /\ f[t].thread => f[t].kids = active(s, t)
  /\ Above(s.ns, active(s, t), f[t].kids)

Spaces(s, f, G, u) ==
  /\ Tree(s.ns, Holding(s, f, G))
  /\ G \subseteq Ns
  /\ \A p \in Pid : s.pid[p].st # "none" => NumberOf(s, p)
  /\ \A t \in Task : s.task[t].st # "none" => active(s, t) = active(s, s.task[t].leader)
  /\ \A t \in Task : s.task[t].st = "live" => Above(s.ns, active(s, t), s.task[t].kids)
  /\ \A t \in Task : f[t] # NULL => ForkOf(s, f, t)
  /\ u = Cardinality(InUse(s.ns)) /\ u <= MaxPidNamespaces

(* The conjuncts of Spaces.                                                *)
LEMMA SpacesFields ==
  ASSUME NEW s, NEW f, NEW G, NEW u, Spaces(s, f, G, u)
  PROVE  /\ Tree(s.ns, Holding(s, f, G)) /\ s.ns \in [Ns -> NsType]
         /\ PathInv(s.ns)
         /\ G \subseteq Ns
         /\ \A p \in Pid : s.pid[p].st # "none" => NumberOf(s, p)
         /\ \A t \in Task : s.task[t].st # "none" =>
              active(s, t) = active(s, s.task[t].leader)
         /\ \A t \in Task : s.task[t].st = "live" =>
              Above(s.ns, active(s, t), s.task[t].kids)
         /\ \A t \in Task : f[t] # NULL => ForkOf(s, f, t)
         /\ u = Cardinality(InUse(s.ns)) /\ u <= MaxPidNamespaces
BY DEF Spaces, Tree

(* What a struct pid, a task, a fork or a file refers to is in use.        *)
LEMMA HeldBy ==
  ASSUME NEW s, NEW f, NEW G, Tree(s.ns, Holding(s, f, G)), NEW n \in Ns
  PROVE  /\ \A p \in Pid : s.pid[p].st # "none" /\ ns_of(s, p) = n =>
              s.ns[n].st = "live"
         /\ \A t \in Task : s.task[t].kids = n => s.ns[n].st = "live"
         /\ \A t \in Task : f[t] # NULL /\ f[t].kids = n => s.ns[n].st = "live"
         /\ n \in G => s.ns[n].st = "live"
<1> DEFINE g == PidNs(s.pid)
           h == KidsOf(s.task)
           e == ForkNs(f)
<1>1. PICK b : b = Holds(g, h, e, G)
  OBVIOUS
<1>2. Tree(s.ns, b)
  BY <1>1 DEF Holding
<1>3. b[n] > 0 => s.ns[n].st = "live"
  BY <1>2, HeldLive
<1>4. \A p \in Pid : s.pid[p].st # "none" /\ ns_of(s, p) = n => g[p] = n
  BY DEF PidNs, ns_of
<1>5. \A t \in Task : s.task[t].kids = n => h[t] = n
  BY DEF KidsOf
<1>6. \A t \in Task : f[t] # NULL /\ f[t].kids = n => e[t] = n
  BY DEF ForkNs
<1> HIDE DEF g, h, e
<1>7. /\ \A p \in Pid : g[p] = n => b[n] > 0
      /\ \A t \in Task : h[t] = n \/ e[t] = n => b[n] > 0
      /\ n \in G => b[n] > 0
  BY <1>1, HoldsPos
<1> QED
  BY <1>3, <1>4, <1>5, <1>6, <1>7

(* Level and path of a namespace that stays in use.                        *)
LEMMA StableAt ==
  ASSUME NEW N, NEW M, Stable(N, M), NEW n \in Ns, N[n].st = "live", M[n].st = "live"
  PROVE  /\ M[n].level = N[n].level /\ M[n].path = N[n].path
         /\ \A a : Above(M, a, n) <=> Above(N, a, n)
BY DEF Stable, Above

SamePid(s, x, q) ==
  x.pid[q].level = s.pid[q].level /\ x.pid[q].numbers = s.pid[q].numbers

NumbersKept(s, x) ==
  \A q \in Pid : s.pid[q].st \in {"new", "live"} => SamePid(s, x, q)

(* A task stays in its namespace; it is as it was, or is as it should be.  *)
Stays(s, x) ==
  \A t \in Task : s.task[t].st # "none" /\ x.task[t].st # "none" =>
    active(x, t) = active(s, t)

OldTask(s, x, t) ==
  /\ s.task[t].st # "none" /\ x.task[t].leader = s.task[t].leader
  /\ x.task[t].st = "live" =>
       /\ s.task[t].st = "live"
       /\ \/ x.task[t].kids = s.task[t].kids
          \/ Above(x.ns, active(s, t), x.task[t].kids)

TaskOk(x, t) ==
  /\ active(x, t) = active(x, x.task[t].leader)
  /\ x.task[t].st = "live" => Above(x.ns, active(x, t), x.task[t].kids)

(* A task has a struct pid in use.                                         *)
LEMMA PidLive ==
  ASSUME NEW s \in State, TaskInv(s.task), LinksIn(s), NEW t \in Task,
         s.task[t].st # "none"
  PROVE  s.task[t].thread_pid \in Pid /\ s.pid[s.task[t].thread_pid].st = "live"
<1>1. s.task[t].thread_pid \in Pid
  BY DEF TaskInv
<1>2. "PID" \in PidType /\ Belongs(s, t, "PID", s.task[t].thread_pid)
  BY DEF Belongs, PtrOf, PidType
<1> QED
  BY <1>1, <1>2, PointedLive

(* The leader of a task is a task.                                         *)
LEMMA LeaderOf ==
  ASSUME NEW T, TaskInv(T), NEW t \in Task, T[t].st # "none"
  PROVE  T[t].leader \in Task /\ T[T[t].leader].st # "none"
BY DEF TaskInv

(* A task with the same struct pid stays in its namespace.                 *)
LEMMA SameActive ==
  ASSUME NEW s \in State, TaskInv(s.task), LinksIn(s), NEW x, NumbersKept(s, x),
         NEW t \in Task, s.task[t].st # "none",
         x.task[t].thread_pid = s.task[t].thread_pid
  PROVE  active(x, t) = active(s, t)
<1>1. PICK p : p = s.task[t].thread_pid
  OBVIOUS
<1>2. p \in Pid /\ s.pid[p].st = "live"
  BY <1>1, PidLive
<1>3. SamePid(s, x, p)
  BY <1>2 DEF NumbersKept
<1> QED
  BY <1>1, <1>3 DEF active, ns_of, SamePid

(* A step of a task or a struct pid, with what it does to the tree given.  *)
LEMMA SpacesStep ==
  ASSUME NEW s, NEW f, NEW o, NEW F, Good(s, f, o, F),
         NEW G, NEW u, Spaces(s, f, G, u),
         NEW x, TaskInv(x.task), NumbersKept(s, x), Stays(s, x),
         NEW fx, NEW Gx, Tree(x.ns, Holding(x, fx, Gx)), Stable(s.ns, x.ns),
         Gx \subseteq Ns,
         \A q \in Pid : x.pid[q].st # "none" =>
           (s.pid[q].st # "none" /\ SamePid(s, x, q)) \/ NumberOf(x, q),
         \A t \in Task : x.task[t].st # "none" => OldTask(s, x, t) \/ TaskOk(x, t),
         ForkIn(x, fx),
         \A t \in Task : fx[t] # NULL => fx[t] = f[t] \/ ForkOf(x, fx, t),
         NEW ux, ux = Cardinality(InUse(x.ns)), ux <= MaxPidNamespaces
  PROVE  Spaces(x, fx, Gx, ux)
<1>1. /\ s \in State /\ f \in [Task -> ForkType \cup {NULL}] /\ ForkIn(s, f)
      /\ TaskInv(s.task) /\ LinksIn(s)
  BY GoodRest
<1>2. /\ Tree(s.ns, Holding(s, f, G))
      /\ \A p \in Pid : s.pid[p].st # "none" => NumberOf(s, p)
      /\ \A t \in Task : s.task[t].st # "none" =>
           active(s, t) = active(s, s.task[t].leader)
      /\ \A t \in Task : s.task[t].st = "live" =>
           Above(s.ns, active(s, t), s.task[t].kids)
      /\ \A t \in Task : f[t] # NULL => ForkOf(s, f, t)
  BY SpacesFields
<1>3. ASSUME NEW p \in Pid, x.pid[p].st # "none" PROVE NumberOf(x, p)
  <2>1. CASE NumberOf(x, p)
    BY <2>1
  <2>2. CASE s.pid[p].st # "none" /\ SamePid(s, x, p)
    <3>1. PICK n : n = ns_of(s, p)
      OBVIOUS
    <3>2. n \in Ns /\ s.pid[p].level = s.ns[n].level /\ s.pid[p].numbers = s.ns[n].path
      BY <1>2, <2>2, <3>1 DEF NumberOf
    <3>3. ns_of(x, p) = n
      BY <2>2, <3>1 DEF SamePid, ns_of
    <3>4. s.ns[n].st = "live"
      BY <1>2, <2>2, <3>1, <3>2, HeldBy
    <3>5. x.ns[n].st = "live"
      BY <1>3, <3>2, <3>3, HeldBy
    <3>6. x.ns[n].level = s.ns[n].level /\ x.ns[n].path = s.ns[n].path
      BY <3>2, <3>4, <3>5, StableAt
    <3> QED
      BY <2>2, <3>2, <3>3, <3>6 DEF NumberOf, SamePid
  <2> QED
    BY <1>3, <2>1, <2>2
<1>4. ASSUME NEW t \in Task, x.task[t].st # "none"
      PROVE  active(x, t) = active(x, x.task[t].leader)
  <2>1. CASE TaskOk(x, t)
    BY <2>1 DEF TaskOk
  <2>2. CASE OldTask(s, x, t)
    <3>1. PICK l : l = x.task[t].leader
      OBVIOUS
    <3>2. l \in Task /\ x.task[l].st # "none"
      BY <1>4, <3>1, LeaderOf
    <3>3. s.task[t].st # "none" /\ s.task[t].leader = l
      BY <2>2, <3>1 DEF OldTask
    <3>4. s.task[l].st # "none"
      BY <1>1, <3>3, LeaderOf
    <3>5. active(x, t) = active(s, t) /\ active(x, l) = active(s, l)
      BY <1>4, <3>2, <3>3, <3>4 DEF Stays
    <3> QED
      BY <1>2, <3>1, <3>3, <3>5
  <2> QED
    BY <1>4, <2>1, <2>2
<1>5. ASSUME NEW t \in Task, x.task[t].st = "live"
      PROVE  Above(x.ns, active(x, t), x.task[t].kids)
  <2>1. CASE TaskOk(x, t)
    BY <1>5, <2>1 DEF TaskOk
  <2>2. CASE OldTask(s, x, t)
    <3>1. s.task[t].st = "live"
      BY <1>5, <2>2 DEF OldTask
    <3>2. active(x, t) = active(s, t)
      BY <1>5, <3>1 DEF Stays
    <3>3. CASE Above(x.ns, active(s, t), x.task[t].kids)
      BY <3>2, <3>3
    <3>4. CASE x.task[t].kids = s.task[t].kids
      <4>1. PICK n : n = s.task[t].kids
        OBVIOUS
      <4>2. n \in Ns
        BY <1>1, <3>1, <4>1 DEF TaskInv
      <4>3. s.ns[n].st = "live"
        BY <1>2, <4>1, <4>2, HeldBy
      <4>4. x.ns[n].st = "live"
        BY <3>4, <4>1, <4>2, HeldBy
      <4>5. Above(s.ns, active(s, t), n)
        BY <1>2, <3>1, <4>1
      <4> QED
        BY <3>2, <3>4, <4>1, <4>2, <4>3, <4>4, <4>5, StableAt
    <3> QED
      BY <1>5, <2>2, <3>3, <3>4 DEF OldTask
  <2> QED
    BY <1>5, <2>1, <2>2
<1>6. ASSUME NEW t \in Task, fx[t] # NULL PROVE ForkOf(x, fx, t)
  <2>1. CASE ForkOf(x, fx, t)
    BY <2>1
  <2>2. CASE fx[t] = f[t]
    <3>1. ForkOf(s, f, t) /\ f[t] \in ForkType
      BY <1>1, <1>2, <1>6, <2>2
    <3>2. f[t].pid \in Pid /\ f[t].kids \in Ns
      BY <3>1 DEF ForkType
    <3>3. s.pid[f[t].pid].st = "new" /\ s.task[t].st = "live"
      BY <1>1, <1>6, <2>2 DEF ForkIn
    <3>4. SamePid(s, x, f[t].pid)
      BY <3>2, <3>3 DEF NumbersKept
    <3>5. ns_of(x, f[t].pid) = ns_of(s, f[t].pid)
      BY <3>4 DEF ns_of, SamePid
    <3>6. PICK n : n = f[t].kids
      OBVIOUS
    <3>7. s.ns[n].st = "live"
      BY <1>2, <1>6, <2>2, <3>2, <3>6, HeldBy
    <3>8. x.ns[n].st = "live"
      BY <1>6, <2>2, <3>2, <3>6, HeldBy
    <3>9. Above(x.ns, active(s, t), n)
      BY <3>1, <3>2, <3>6, <3>7, <3>8, StableAt DEF ForkOf
    <3>10. x.task[t].st = "live"
      BY <1>6 DEF ForkIn
    <3>11. active(x, t) = active(s, t)
      BY <3>3, <3>10 DEF Stays
    <3> QED
      BY <2>2, <3>1, <3>5, <3>6, <3>9, <3>11 DEF ForkOf
  <2> QED
    BY <1>6, <2>1, <2>2
<1> QED
  BY <1>3, <1>4, <1>5, <1>6 DEF Spaces

(* The same, but for namespaces: every task and struct pid stays.          *)
SameActs(s, x) ==
  /\ SamePids(s.pid, x.pid)
  /\ \A t \in Task : x.task[t].st # "none" =>
       /\ s.task[t].st # "none"
       /\ x.task[t].leader = s.task[t].leader
       /\ x.task[t].thread_pid = s.task[t].thread_pid

(* What steps that keep the struct pids of the tasks leave as it was.      *)
LEMMA ActsStay ==
  ASSUME NEW s \in State, TaskInv(s.task), LinksIn(s), NEW x, SameActs(s, x)
  PROVE  /\ NumbersKept(s, x) /\ Stays(s, x)
         /\ \A q \in Pid : x.pid[q].st # "none" =>
              s.pid[q].st # "none" /\ SamePid(s, x, q)
<1>1. /\ NumbersKept(s, x)
      /\ \A q \in Pid : x.pid[q].st # "none" =>
           s.pid[q].st # "none" /\ SamePid(s, x, q)
  BY DEF SameActs, SamePids, NumbersKept, SamePid
<1>2. Stays(s, x)
  BY <1>1, SameActive DEF Stays, SameActs
<1> QED
  BY <1>1, <1>2

(* The namespaces of the struct pids depend on SamePids only.              *)
LEMMA PidNsSame ==
  ASSUME NEW P, NEW Q, SamePids(P, Q)
  PROVE  PidNs(Q) = PidNs(P)
BY Zenon DEF SamePids, PidNs

(* Holding, when no struct pid comes or goes.                              *)
LEMMA HoldingIs ==
  ASSUME NEW s, NEW x, SamePids(s.pid, x.pid), NEW f, NEW G
  PROVE  Holding(x, f, G) = Holds(PidNs(s.pid), KidsOf(x.task), ForkNs(f), G)
BY PidNsSame, Zenon DEF Holding

(* A step that keeps the struct pids of the tasks keeps Spaces if it keeps *)
(* the tree and gives a task or a fork a namespace below the task's own    *)
(* only.                                                                   *)
LEMMA ActsStep ==
  ASSUME NEW s, NEW f, NEW o, NEW F, Good(s, f, o, F),
         NEW G, NEW u, Spaces(s, f, G, u), NEW x, NEW fx, NEW ox, NEW Fx,
         Good(x, fx, ox, Fx), SameActs(s, x),
         NEW Gx, Tree(x.ns, Holding(x, fx, Gx)), Stable(s.ns, x.ns), Gx \subseteq Ns,
         \A t \in Task : x.task[t].st = "live" =>
           /\ s.task[t].st = "live"
           /\ \/ x.task[t].kids = s.task[t].kids
              \/ Above(x.ns, active(s, t), x.task[t].kids),
         \A t \in Task : fx[t] # NULL => fx[t] = f[t] \/ ForkOf(x, fx, t),
         NEW ux, ux = Cardinality(InUse(x.ns)), ux <= MaxPidNamespaces
  PROVE  Spaces(x, fx, Gx, ux)
<1>1. s \in State /\ TaskInv(s.task) /\ LinksIn(s)
  BY GoodRest
<1>2. TaskInv(x.task) /\ ForkIn(x, fx)
  BY GoodRest
<1>3. /\ NumbersKept(s, x) /\ Stays(s, x)
      /\ \A q \in Pid : x.pid[q].st # "none" =>
           s.pid[q].st # "none" /\ SamePid(s, x, q)
  BY <1>1, ActsStay
<1>4. \A t \in Task : x.task[t].st # "none" => OldTask(s, x, t)
  BY DEF SameActs, OldTask
<1> QED
  BY <1>2, <1>3, <1>4, SpacesStep

(* The tree depends on NsSame only.                                        *)
LEMMA SameNsTree ==
  ASSUME NEW N, NEW b, Tree(N, b), NEW M \in [Ns -> NsType], NsSame(N, M)
  PROVE  Tree(M, b) /\ Stable(N, M) /\ InUse(M) = InUse(N)
<1>1. SameTree(N, M) /\ \A n \in Ns : M[n].kref = N[n].kref
  BY DEF NsSame, SameTree
<1> QED
  BY <1>1, TreeSame

(* NsSame before a stable step.                                            *)
LEMMA StableThen ==
  ASSUME NEW N, NEW M, NsSame(N, M), NEW O, Stable(M, O)
  PROVE  Stable(N, O)
BY DEF NsSame, Stable

(* A step on tasks and lists only keeps Spaces.                            *)
LEMMA QuietSpaces ==
  ASSUME NEW s, NEW f, NEW o, NEW F, Good(s, f, o, F),
         NEW G, NEW u, Spaces(s, f, G, u),
         NEW x, NEW ox, NEW Fx, Good(x, f, ox, Fx), Quiet(s, x)
  PROVE  Spaces(x, f, G, u)
<1>1. /\ Tree(s.ns, Holding(s, f, G)) /\ G \subseteq Ns
      /\ u = Cardinality(InUse(s.ns)) /\ u <= MaxPidNamespaces
  BY SpacesFields
<1>2. s \in State /\ x \in State
  BY GoodRest
<1>3. SamePids(s.pid, x.pid) /\ NsSame(s.ns, x.ns)
  BY DEF Quiet
<1>4. KidsOf(x.task) = KidsOf(s.task)
  BY DEF KidsOf, Quiet
<1>5. Holding(x, f, G) = Holding(s, f, G)
  BY <1>3, <1>4, HoldingIs DEF Holding
<1>6. x.ns \in [Ns -> NsType]
  BY <1>2, StateFields
<1>7. Tree(x.ns, Holding(x, f, G)) /\ Stable(s.ns, x.ns) /\ InUse(x.ns) = InUse(s.ns)
  BY <1>1, <1>3, <1>5, <1>6, SameNsTree
<1>8. SameActs(s, x)
  BY <1>3 DEF SameActs, Quiet
<1>9. \A t \in Task : x.task[t].st = "live" =>
        s.task[t].st = "live" /\ x.task[t].kids = s.task[t].kids
  BY DEF Quiet
<1> QED
  BY <1>1, <1>7, <1>8, <1>9, ActsStep

(* put_pid() of a last reference gives back that to the namespace too.     *)
LEMMA PutsSpaces ==
  ASSUME NEW s, NEW f, NEW o, NEW F, Good(s, f, o, F),
         NEW G, NEW u, Spaces(s, f, G, u), NEW p \in Pid,
         NEW x, NEW ox, NEW Fx, Good(x, f, ox, Fx), PutsLast(s, x, p)
  PROVE  Spaces(x, f, G, u)
<1>1. /\ Tree(s.ns, Holding(s, f, G)) /\ G \subseteq Ns
      /\ u = Cardinality(InUse(s.ns)) /\ u <= MaxPidNamespaces
      /\ \A q \in Pid : s.pid[q].st # "none" => NumberOf(s, q)
  BY SpacesFields
<1>2. s \in State /\ TaskInv(s.task) /\ LinksIn(s)
  BY GoodRest
<1>3. TaskInv(x.task) /\ ForkIn(x, f)
  BY GoodRest
<1>4. /\ s.pid[p].st \notin {"none", "new", "live"} /\ x.pid[p].st = "none"
      /\ \A q \in Pid \ {p} : x.pid[q] = s.pid[q]
      /\ x.task = s.task
      /\ x.ns = put_pid_ns(s.ns, ns_of(s, p))
  BY DEF PutsLast
<1>5. PICK n \in Ns : n = ns_of(s, p)
  BY <1>1, <1>4 DEF NumberOf
<1>6. Places(Pid, PidNs(x.pid), PidNs(s.pid), p, n)
  BY <1>4, <1>5 DEF Places, PidNs, ns_of
<1>7. Adds(Holding(x, f, G), Holding(s, f, G), n)
  BY <1>4, <1>6, HoldsPid DEF Holding
<1>8. Tree(x.ns, Holding(x, f, G)) /\ Stable(s.ns, x.ns) /\ InUse(x.ns) = InUse(s.ns)
  BY <1>1, <1>4, <1>5, <1>7, PutTree
<1>9. /\ NumbersKept(s, x)
      /\ \A q \in Pid : x.pid[q].st # "none" => s.pid[q].st # "none" /\ SamePid(s, x, q)
  BY <1>4 DEF NumbersKept, SamePid
<1>10. Stays(s, x)
  BY <1>2, <1>4, <1>9, SameActive DEF Stays
<1>11. \A t \in Task : x.task[t].st # "none" => OldTask(s, x, t)
  BY <1>4 DEF OldTask
<1> QED
  BY <1>1, <1>3, <1>8, <1>9, <1>10, <1>11, SpacesStep

-----------------------------------------------------------------------------
(* The actions on namespaces.                                              *)

(* A file is opened, or closed.                                            *)
LEMMA OpensSpaces ==
  ASSUME Good(k, fork, opening, pidfd), Spaces(k, fork, nsfile, ucounts),
         NEW n \in Ns, k.ns[n].st = "live", Opens(n)
  PROVE  Spaces(k', fork', nsfile', ucounts')
<1>1. /\ Tree(k.ns, Holding(k, fork, nsfile)) /\ nsfile \subseteq Ns
      /\ ucounts = Cardinality(InUse(k.ns)) /\ ucounts <= MaxPidNamespaces
  BY SpacesFields
<1>2. /\ Good(k', fork', opening', pidfd') /\ k'.pid = k.pid /\ k'.task = k.task
      /\ k'.ns = get_pid_ns(k.ns, n) /\ fork' = fork
  BY OpensGood DEF NsOnly
<1>3. PICK D : D = nsfile \cup {n}
  OBVIOUS
<1>4. n \notin nsfile /\ nsfile' = D /\ ucounts' = ucounts
  BY <1>3 DEF Opens
<1>5. Adds(Holding(k, fork, nsfile), Holding(k', fork, D), n)
  BY <1>2, <1>3, <1>4, HoldsFile DEF Holding
<1>6. /\ Tree(k'.ns, Holding(k', fork, D)) /\ Stable(k.ns, k'.ns)
      /\ InUse(k'.ns) = InUse(k.ns)
  BY <1>1, <1>2, <1>5, GetTree
<1>7. SameActs(k, k')
  BY <1>2 DEF SameActs, SamePids
<1>8. Good(k', fork, opening', pidfd') /\ D \subseteq Ns
  BY <1>1, <1>2, <1>3
<1>9. Spaces(k', fork, D, ucounts)
  BY <1>1, <1>2, <1>6, <1>7, <1>8, ActsStep
<1> QED
  BY <1>2, <1>4, <1>9

(* Closing a namespace file gives back its reference.                      *)
LEMMA PutFileSpaces ==
  ASSUME Good(k, fork, opening, pidfd), Spaces(k, fork, nsfile, ucounts),
         NEW n \in Ns, pidns_put(n)
  PROVE  Spaces(k', fork', nsfile', ucounts')
<1>1. /\ Tree(k.ns, Holding(k, fork, nsfile)) /\ nsfile \subseteq Ns
      /\ ucounts = Cardinality(InUse(k.ns)) /\ ucounts <= MaxPidNamespaces
  BY SpacesFields
<1>2. /\ Good(k', fork', opening', pidfd') /\ k'.pid = k.pid /\ k'.task = k.task
      /\ k'.ns = put_pid_ns(k.ns, n) /\ fork' = fork
  BY PutFileGood DEF NsOnly
<1>3. PICK D : D = nsfile \ {n}
  OBVIOUS
<1>4. n \notin D /\ nsfile = D \cup {n} /\ nsfile' = D /\ ucounts' = ucounts
  BY <1>3 DEF pidns_put
<1>5. Adds(Holding(k', fork, D), Holding(k, fork, nsfile), n)
  BY <1>2, <1>4, HoldsFile DEF Holding
<1>6. /\ Tree(k'.ns, Holding(k', fork, D)) /\ Stable(k.ns, k'.ns)
      /\ InUse(k'.ns) = InUse(k.ns)
  BY <1>1, <1>2, <1>5, PutTree
<1>7. SameActs(k, k')
  BY <1>2 DEF SameActs, SamePids
<1>8. Good(k', fork, opening', pidfd') /\ D \subseteq Ns
  BY <1>1, <1>2, <1>3
<1>9. Spaces(k', fork, D, ucounts)
  BY <1>1, <1>2, <1>6, <1>7, <1>8, ActsStep
<1> QED
  BY <1>2, <1>4, <1>9

(* ucounts is a number.                                                    *)
LEMMA InUseFinite ==
  ASSUME NEW N
  PROVE  IsFiniteSet(InUse(N)) /\ Cardinality(InUse(N)) \in Nat
<1>1. IsFiniteSet(InUse(N))
  BY FS_Subset, InUse(N) \subseteq Ns, SlotsAssumption DEF InUse
<1> QED
  BY <1>1, FS_CardinalityType

(* The slot of a destroyed namespace, after the grace period.              *)
LEMMA FreeNsSpaces ==
  ASSUME Good(k, fork, opening, pidfd), Spaces(k, fork, nsfile, ucounts),
         NEW n \in Ns, delayed_free_pidns(n)
  PROVE  Spaces(k', fork', nsfile', ucounts')
<1>1. /\ Tree(k.ns, Holding(k, fork, nsfile)) /\ nsfile \subseteq Ns
      /\ ucounts = Cardinality(InUse(k.ns)) /\ ucounts <= MaxPidNamespaces
  BY SpacesFields
<1>2. /\ Good(k', fork', opening', pidfd') /\ k'.pid = k.pid /\ k'.task = k.task
      /\ k'.ns = [k.ns EXCEPT ![n] = NoNs] /\ fork' = fork
  BY FreeNsGood DEF NsOnly
<1>3. /\ k.ns[n].st = "destroyed" /\ nsfile' = nsfile /\ ucounts' = ucounts - 1
  BY DEF delayed_free_pidns
<1>4. Holding(k', fork, nsfile) = Holding(k, fork, nsfile)
  BY <1>2 DEF Holding
<1>5. /\ Tree(k'.ns, Holding(k', fork, nsfile)) /\ Stable(k.ns, k'.ns)
      /\ InUse(k'.ns) = InUse(k.ns) \ {n} /\ n \in InUse(k.ns)
  BY <1>1, <1>2, <1>3, <1>4, FreeTree
<1>6. SameActs(k, k')
  BY <1>2 DEF SameActs, SamePids
<1>7. Cardinality(InUse(k'.ns)) = Cardinality(InUse(k.ns)) - 1
  BY <1>5, InUseFinite, FS_RemoveElement
<1>8. PICK v : v = ucounts - 1
  OBVIOUS
<1>9. v = Cardinality(InUse(k'.ns)) /\ v <= MaxPidNamespaces
  BY <1>1, <1>7, <1>8, InUseFinite, SlotsAssumption
<1>10. Spaces(k', fork, nsfile, v)
  BY <1>1, <1>2, <1>5, <1>6, <1>9, ActsStep
<1> QED
  BY <1>2, <1>3, <1>8, <1>10

(* exit: the nsproxy goes, and with it its reference.                      *)
LEMMA ExitSpaces ==
  ASSUME Good(k, fork, opening, pidfd), Spaces(k, fork, nsfile, ucounts),
         NEW t \in Task, Exit(t)
  PROVE  Spaces(k', fork', nsfile', ucounts')
<1>1. /\ Tree(k.ns, Holding(k, fork, nsfile)) /\ nsfile \subseteq Ns
      /\ ucounts = Cardinality(InUse(k.ns)) /\ ucounts <= MaxPidNamespaces
      /\ k.ns \in [Ns -> NsType]
  BY SpacesFields
<1>2. k \in State /\ TaskInv(k.task)
  BY GoodRest
<1>3. /\ Good(k', fork', opening', pidfd') /\ k' \in State
      /\ k'.pid = k.pid /\ NsSame(put_pid_ns(k.ns, k.task[t].kids), k'.ns)
      /\ k'.task[t].kids = NULL /\ k'.task[t].st = "zombie"
      /\ k'.task[t].leader = k.task[t].leader
      /\ k'.task[t].thread_pid = k.task[t].thread_pid
      /\ \A v \in Task \ {t} : k'.task[v] = k.task[v]
  BY ExitGood, GoodRest
<1>4. /\ Runs(t) /\ fork' = fork /\ nsfile' = nsfile /\ ucounts' = ucounts
  BY DEF Exit
<1>5. k.task[t].st = "live"
  BY <1>4 DEF Runs
<1>6. PICK n \in Ns : n = k.task[t].kids
  BY <1>2, <1>4, KidsIn
<1>7. PICK N : N = put_pid_ns(k.ns, n)
  OBVIOUS
<1>8. Places(Task, KidsOf(k'.task), KidsOf(k.task), t, n)
  BY <1>3, <1>6 DEF Places, KidsOf
<1>9. Adds(Holding(k', fork, nsfile), Holding(k, fork, nsfile), n)
  BY <1>3, <1>8, HoldsKids DEF Holding
<1>10. /\ Tree(N, Holding(k', fork, nsfile)) /\ Stable(k.ns, N)
       /\ InUse(N) = InUse(k.ns)
  BY <1>1, <1>7, <1>9, PutTree
<1>11. NsSame(N, k'.ns) /\ k'.ns \in [Ns -> NsType]
  BY <1>3, <1>6, <1>7, StateFields
<1>12. /\ Tree(k'.ns, Holding(k', fork, nsfile)) /\ InUse(k'.ns) = InUse(k.ns)
  BY <1>10, <1>11, SameNsTree
<1>13. Stable(k.ns, k'.ns)
  BY <1>10, <1>11 DEF Stable, NsSame
<1>14. SameActs(k, k')
  BY <1>3, <1>5 DEF SameActs, SamePids
<1>15. \A v \in Task : k'.task[v].st = "live" =>
         k.task[v].st = "live" /\ k'.task[v].kids = k.task[v].kids
  BY <1>3
<1>16. Good(k', fork, opening', pidfd')
  BY <1>3, <1>4
<1>17. Spaces(k', fork, nsfile, ucounts)
  BY <1>1, <1>12, <1>13, <1>14, <1>15, <1>16, ActsStep
<1> QED
  BY <1>4, <1>17

(* A fork that fails gives back its namespace and its struct pid.          *)
LEMMA ForkFailsSpaces ==
  ASSUME Good(k, fork, opening, pidfd), Spaces(k, fork, nsfile, ucounts),
         NEW t \in Task, ForkFails(t)
  PROVE  Spaces(k', fork', nsfile', ucounts')
<1>1. /\ Tree(k.ns, Holding(k, fork, nsfile)) /\ nsfile \subseteq Ns
      /\ ucounts = Cardinality(InUse(k.ns)) /\ ucounts <= MaxPidNamespaces
  BY SpacesFields
<1>2. fork \in [Task -> ForkType \cup {NULL}]
  BY GoodRest
<1>3. Good(k', fork', opening', pidfd')
  BY ForkFailsGood
<1>4. PICK M : ForkFailed(t, M)
  BY ForkFailsGood
<1>5. /\ M \in [Ns -> NsType] /\ NsSame(k.ns, M)
      /\ fork[t] # NULL /\ fork' = [fork EXCEPT ![t] = NULL]
      /\ k'.task = k.task /\ SamePids(k.pid, k'.pid)
      /\ k'.ns = put_pid_ns(M, fork[t].kids)
  BY <1>4 DEF ForkFailed
<1>6. nsfile' = nsfile /\ ucounts' = ucounts
  BY DEF ForkFails
<1>7. PICK n \in Ns : n = fork[t].kids
  BY <1>2, <1>5 DEF ForkType
<1>8. PICK f : f = fork'
  OBVIOUS
<1>9. f[t] = NULL /\ \A v \in Task \ {t} : f[v] = fork[v]
  BY <1>2, <1>5, <1>8
<1>10. Places(Task, ForkNs(f), ForkNs(fork), t, n)
  BY <1>5, <1>7, <1>9 DEF Places, ForkNs
<1>11. Holding(k', f, nsfile) = Holds(PidNs(k.pid), KidsOf(k.task), ForkNs(f), nsfile)
  BY <1>5, HoldingIs
<1>12. Adds(Holding(k', f, nsfile), Holding(k, fork, nsfile), n)
  BY <1>10, <1>11, HoldsFork DEF Holding
<1>13. Tree(M, Holding(k, fork, nsfile)) /\ InUse(M) = InUse(k.ns)
  BY <1>1, <1>5, SameNsTree
<1>14. /\ Tree(k'.ns, Holding(k', f, nsfile)) /\ Stable(M, k'.ns)
       /\ InUse(k'.ns) = InUse(M)
  BY <1>5, <1>7, <1>12, <1>13, PutTree
<1>15. Stable(k.ns, k'.ns)
  BY <1>5, <1>14, StableThen
<1>16. SameActs(k, k')
  BY <1>5 DEF SameActs
<1>17. /\ \A v \in Task : k'.task[v].st = "live" =>
            k.task[v].st = "live" /\ k'.task[v].kids = k.task[v].kids
       /\ \A v \in Task : f[v] # NULL => f[v] = fork[v]
  BY <1>5, <1>9
<1>18. Good(k', f, opening', pidfd')
  BY <1>3, <1>8
<1>19. Spaces(k', f, nsfile, ucounts)
  BY <1>1, <1>13, <1>14, <1>15, <1>16, <1>17, <1>18, ActsStep
<1> QED
  BY <1>6, <1>8, <1>19

(* The loop in pidns_install(): it ends at the task's own namespace.       *)
LEMMA EnterAbove ==
  ASSUME NEW N \in [Ns -> NsType], NEW a \in Ns, NEW n,
         N[n].level >= N[a].level, N[n].level \in Nat, N[n].path[N[a].level] = a
  PROVE  Above(N, a, n)
<1>1. N[a].level \in Nat
  BY TypeOfNs
<1>2. N[a].level \in 0 .. N[n].level
  BY <1>1
<1> QED
  BY <1>2 DEF Above, Chain

(* A new namespace is below the one it is created in.                      *)
LEMMA CreateAbove ==
  ASSUME NEW N \in [Ns -> NsType], PathInv(N), NEW old \in Ns, N[old].st = "live",
         NEW n \in Ns, NEW M, Creates(N, M, old, n)
  PROVE  Above(M, old, n)
<1>1. N[old].level \in Nat /\ N[old].level <= MAX_PID_NS_LEVEL
  BY TypeOfNs
<1>2. N[old].level \in Depth
  BY <1>1, SlotsAssumption DEF Depth
<1>3. N[old].path[N[old].level] = old
  BY PathOf
<1>4. M[n].path[N[old].level] = old /\ M[n].level = N[old].level + 1
  BY <1>1, <1>2, <1>3 DEF Creates
<1>5. N[old].level \in 0 .. M[n].level
  BY <1>1, <1>4
<1> QED
  BY <1>4, <1>5 DEF Above, Chain

(* setns(): the children of t go to n.                                     *)
LEMMA InstallSpaces ==
  ASSUME Good(k, fork, opening, pidfd), Spaces(k, fork, nsfile, ucounts),
         NEW t \in Task, NEW n \in Ns, pidns_install(t, n)
  PROVE  Spaces(k', fork', nsfile', ucounts')
<1>1. /\ Tree(k.ns, Holding(k, fork, nsfile)) /\ nsfile \subseteq Ns
      /\ ucounts = Cardinality(InUse(k.ns)) /\ ucounts <= MaxPidNamespaces
      /\ k.ns \in [Ns -> NsType]
      /\ \A v \in Task : k.task[v].st = "live" =>
              Above(k.ns, active(k, v), k.task[v].kids)
  BY SpacesFields
<1>2. k \in State /\ TaskInv(k.task)
  BY GoodRest
<1>3. /\ Good(k', fork', opening', pidfd')
      /\ k'.pid = k.pid
      /\ k'.ns = get_pid_ns(put_pid_ns(k.ns, k.task[t].kids), n)
      /\ k'.task[t].kids = n /\ k'.task[t].st = "live"
      /\ k'.task[t].leader = k.task[t].leader
      /\ k'.task[t].thread_pid = k.task[t].thread_pid
      /\ \A v \in Task \ {t} : k'.task[v] = k.task[v]
  BY InstallGood
<1>4. /\ Runs(t) /\ n \in nsfile /\ Enters(t, n)
      /\ fork' = fork /\ nsfile' = nsfile /\ ucounts' = ucounts
  BY DEF pidns_install
<1>5. k.task[t].st = "live"
  BY <1>4 DEF Runs
<1>6. PICK old \in Ns : old = k.task[t].kids
  BY <1>2, <1>4, KidsIn
<1>7. PICK h : h = [v \in Task |-> IF v = t THEN NULL ELSE k.task[v].kids]
  OBVIOUS
<1>8. /\ Places(Task, h, KidsOf(k.task), t, old)
      /\ Places(Task, h, KidsOf(k'.task), t, n)
  BY <1>3, <1>6, <1>7 DEF Places, KidsOf
<1>9. PICK b : b = Holds(PidNs(k.pid), h, ForkNs(fork), nsfile)
  OBVIOUS
<1>10. /\ Adds(b, Holding(k, fork, nsfile), old)
       /\ Adds(b, Holding(k', fork, nsfile), n)
  BY <1>3, <1>8, <1>9, HoldsKids DEF Holding
<1>11. PICK N : N = put_pid_ns(k.ns, old)
  OBVIOUS
<1>12. Tree(N, b) /\ Stable(k.ns, N) /\ InUse(N) = InUse(k.ns)
  BY <1>1, <1>10, <1>11, PutTree
<1>13. N[n].st = "live" /\ k.ns[n].st = "live"
  <2>1. b[n] > 0
    BY <1>4, <1>9, HoldsPos
  <2> QED
    BY <1>1, <1>4, <1>12, <2>1, HeldLive, HeldBy
<1>14. /\ Tree(k'.ns, Holding(k', fork, nsfile)) /\ Stable(N, k'.ns)
       /\ InUse(k'.ns) = InUse(N)
  BY <1>3, <1>6, <1>10, <1>11, <1>12, <1>13, GetTree
<1>15. Stable(k.ns, k'.ns) /\ k'.ns[n].st = "live"
  <2>1. k'.ns = get_pid_ns(N, n) /\ N \in [Ns -> NsType]
    BY <1>3, <1>6, <1>11, <1>12 DEF Tree
  <2>2. SameTree(N, k'.ns)
    BY <2>1, GetIs
  <2> QED
    BY <1>12, <1>13, <2>2 DEF SameTree, Stable
<1>16. Above(k'.ns, active(k, t), n)
  <2>1. PICK a : a = active(k, t)
    OBVIOUS
  <2>2. /\ k.ns[n].level >= k.ns[a].level
        /\ k.ns[n].path[k.ns[a].level] = a
    BY <1>4, <2>1 DEF Enters, task_active_pid_ns, ns_of_pid, active
  <2>3. a \in Ns
    <3>1. \A q \in Pid : k.pid[q].st # "none" => NumberOf(k, q)
      BY SpacesFields
    <3>2. k.task[t].thread_pid \in Pid /\ k.pid[k.task[t].thread_pid].st = "live"
      BY <1>2, <1>5, PidLive, GoodRest
    <3> QED
      BY <2>1, <3>1, <3>2 DEF NumberOf, active
  <2>4. k.ns[n].level \in Nat
    BY <1>1, TypeOfNs
  <2>5. Above(k.ns, a, n)
    BY <1>1, <2>2, <2>3, <2>4, EnterAbove
  <2> QED
    BY <1>13, <1>15, <2>1, <2>5, StableAt
<1>17. SameActs(k, k')
  BY <1>3, <1>5 DEF SameActs, SamePids
<1>18. \A v \in Task : k'.task[v].st = "live" =>
         /\ k.task[v].st = "live"
         /\ \/ k'.task[v].kids = k.task[v].kids
            \/ Above(k'.ns, active(k, v), k'.task[v].kids)
  BY <1>3, <1>5, <1>16
<1>19. Good(k', fork, opening', pidfd')
  BY <1>3, <1>4
<1>20. Spaces(k', fork, nsfile, ucounts)
  BY <1>1, <1>12, <1>14, <1>15, <1>17, <1>18, <1>19, ActsStep
<1> QED
  BY <1>4, <1>20

(* unshare(): the children of t go to a new namespace.                     *)
LEMMA UnshareSpaces ==
  ASSUME Good(k, fork, opening, pidfd), Spaces(k, fork, nsfile, ucounts),
         NEW t \in Task, NEW n \in Ns, unshare(t, n)
  PROVE  Spaces(k', fork', nsfile', ucounts')
<1>1. /\ Tree(k.ns, Holding(k, fork, nsfile)) /\ nsfile \subseteq Ns
      /\ ucounts = Cardinality(InUse(k.ns)) /\ ucounts <= MaxPidNamespaces
      /\ k.ns \in [Ns -> NsType] /\ PathInv(k.ns)
  BY SpacesFields
<1>2. k \in State /\ TaskInv(k.task)
  BY GoodRest
<1>3. /\ Good(k', fork', opening', pidfd')
      /\ k'.pid = k.pid
      /\ k'.ns = put_pid_ns(create_pid_namespace(k.ns, k.task[t].kids, n),
                            k.task[t].kids)
      /\ k'.task[t].kids = n /\ k'.task[t].st = "live"
      /\ k'.task[t].leader = k.task[t].leader
      /\ k'.task[t].thread_pid = k.task[t].thread_pid
      /\ \A v \in Task \ {t} : k'.task[v] = k.task[v]
  BY UnshareGood
<1>4. /\ Runs(t) /\ CanCreate(t, n)
      /\ fork' = fork /\ nsfile' = nsfile /\ ucounts' = ucounts + 1
  BY DEF unshare
<1>5. k.task[t].st = "live"
  BY <1>4 DEF Runs
<1>6. PICK old \in Ns : old = k.task[t].kids
  BY <1>2, <1>4, KidsIn
<1>7. /\ k.ns[n].st = "none" /\ active(k, t) = old
      /\ k.ns[old].level + 1 <= MAX_PID_NS_LEVEL /\ ucounts < MaxPidNamespaces
  BY <1>4, <1>6 DEF CanCreate, active, task_active_pid_ns, ns_of_pid
<1>8. k.ns[old].st = "live"
  BY <1>1, <1>6, HeldBy
<1>9. PICK h : h = [v \in Task |-> IF v = t THEN NULL ELSE k.task[v].kids]
  OBVIOUS
<1>10. /\ Places(Task, h, KidsOf(k.task), t, old)
       /\ Places(Task, h, KidsOf(k'.task), t, n)
  BY <1>3, <1>6, <1>9 DEF Places, KidsOf
<1>11. PICK b : b = Holds(PidNs(k.pid), h, ForkNs(fork), nsfile)
  OBVIOUS
<1>12. PICK b1 : b1 = Holding(k, fork, nsfile)
  OBVIOUS
<1>13. PICK b2 : b2 = Holding(k', fork, nsfile)
  OBVIOUS
<1>14. Adds(b, b1, old) /\ Adds(b, b2, n)
  BY <1>3, <1>10, <1>11, <1>12, <1>13, HoldsKids DEF Holding
<1>15. PICK c : c = [m \in Ns |-> b2[m] + (IF m = old THEN 1 ELSE 0)]
  OBVIOUS
<1>16. Adds(b2, c, old) /\ Adds(b1, c, n)
  BY <1>14, <1>15 DEF Adds
<1>17. PICK N : N = create_pid_namespace(k.ns, old, n)
  OBVIOUS
<1>18. /\ Tree(N, c) /\ Stable(k.ns, N) /\ InUse(N) = InUse(k.ns) \cup {n}
       /\ Creates(k.ns, N, old, n) /\ n # InitNs /\ old # n
  BY <1>1, <1>7, <1>8, <1>12, <1>16, <1>17, CreateTree
<1>19. /\ Tree(k'.ns, b2) /\ Stable(N, k'.ns) /\ InUse(k'.ns) = InUse(N)
  BY <1>3, <1>6, <1>16, <1>17, <1>18, PutTree
<1>20. Stable(k.ns, k'.ns)
  <2>1. \A m \in Ns : k.ns[m].st = "live" =>
          N[m].st = "live" /\ N[m].level = k.ns[m].level /\ N[m].path = k.ns[m].path
    BY <1>7, <1>18 DEF Creates
  <2> QED
    BY <1>19, <2>1 DEF Stable
<1>21. Above(k'.ns, active(k, t), n)
  <2>1. Above(N, old, n)
    BY <1>1, <1>8, <1>18, CreateAbove
  <2>2. N[n].st = "live"
    BY <1>18 DEF Creates
  <2>3. k'.ns[n].st = "live"
    BY <1>3, <1>13, <1>19, HeldBy
  <2> QED
    BY <1>7, <1>19, <2>1, <2>2, <2>3, StableAt
<1>22. SameActs(k, k')
  BY <1>3, <1>5 DEF SameActs, SamePids
<1>23. \A v \in Task : k'.task[v].st = "live" =>
         /\ k.task[v].st = "live"
         /\ \/ k'.task[v].kids = k.task[v].kids
            \/ Above(k'.ns, active(k, v), k'.task[v].kids)
  BY <1>3, <1>5, <1>21
<1>24. PICK w : w = ucounts + 1
  OBVIOUS
<1>25. w = Cardinality(InUse(k'.ns)) /\ w <= MaxPidNamespaces
  <2>1. n \notin InUse(k.ns)
    BY <1>7 DEF InUse
  <2>2. Cardinality(InUse(k.ns) \cup {n}) = Cardinality(InUse(k.ns)) + 1
    BY <2>1, InUseFinite, FS_AddElement
  <2> QED
    BY <1>1, <1>7, <1>18, <1>19, <1>24, <2>2, InUseFinite, SlotsAssumption
<1>26. Good(k', fork, opening', pidfd')
  BY <1>3, <1>4
<1>27. Spaces(k', fork, nsfile, w)
  BY <1>1, <1>13, <1>19, <1>20, <1>22, <1>23, <1>25, <1>26, ActsStep
<1> QED
  BY <1>4, <1>24, <1>27

-----------------------------------------------------------------------------
(* fork and exec.                                                          *)

(* alloc_pid() changes the numbers of a namespace only.                    *)
LEMMA CountedSame ==
  ASSUME NEW N \in [Ns -> NsType], NEW p \in Pid, NEW n, NEW M, M = Counted(N, p, n)
  PROVE  M \in [Ns -> NsType] /\ NsSame(N, M)
<1>1. M \in [Ns -> NsType]
  BY CountedType
<1>2. ASSUME NEW m \in Ns
      PROVE  /\ M[m].st = N[m].st /\ M[m].level = N[m].level
             /\ M[m].path = N[m].path /\ M[m].kref = N[m].kref
  <2>1. CASE m \notin Chain(N[n].path, N[n].level)
    <3>1. M[m] = N[m]
      BY <2>1 DEF Counted
    <3> QED
      BY <3>1
  <2>2. CASE m \in Chain(N[n].path, N[n].level)
    <3>1. PICK r \in NsType : r = N[m]
      OBVIOUS
    <3>2. PICK v : v = r.pid_allocated + 1
      OBVIOUS
    <3>3. PICK a : a = IF m = n /\ r.first = NULL THEN p ELSE r.first
      OBVIOUS
    <3>4. M[m] = [r EXCEPT !.pid_allocated = v, !.first = a]
      BY <2>2, <3>1, <3>2, <3>3, Zenon DEF Counted
    <3>5. M[m].st = r.st /\ M[m].level = r.level /\ M[m].path = r.path
          /\ M[m].kref = r.kref
      BY <3>4, Zenon DEF NsType
    <3> QED
      BY <3>1, <3>5
  <2> QED
    BY <2>1, <2>2
<1> QED
  BY <1>1, <1>2 DEF NsSame

(* A fork in the tree N, where its namespace was got or created.           *)
LEMMA ForkedSpaces ==
  ASSUME Good(k, fork, opening, pidfd), Spaces(k, fork, nsfile, ucounts),
         NEW t \in Task, NEW p \in Pid, NEW n \in Ns, NEW thread \in BOOLEAN,
         NEW N, Forked(t, N, n, p, thread), Good(k', fork', opening', pidfd'),
         Tree(N, Holding(k, fork', nsfile)), Stable(k.ns, N), N[n].st = "live",
         Above(N, active(k, t), n), thread => n = active(k, t),
         NEW u, u = Cardinality(InUse(N)), u <= MaxPidNamespaces
  PROVE  Spaces(k', fork', nsfile, u)
<1>1. /\ Tree(k.ns, Holding(k, fork, nsfile)) /\ nsfile \subseteq Ns
      /\ k.ns \in [Ns -> NsType]
  BY SpacesFields
<1>2. k \in State /\ TaskInv(k.task) /\ LinksIn(k) /\ ForkIn(k, fork)
      /\ fork \in [Task -> ForkType \cup {NULL}]
  BY GoodRest
<1>3. /\ k.task[t].st = "live" /\ fork[t] = NULL /\ k.pid[p].st = "none"
      /\ k'.task = k.task
      /\ k'.pid[p].st = "new"
      /\ k'.pid[p].level = N[n].level /\ k'.pid[p].numbers = N[n].path
      /\ \A q \in Pid \ {p} : k'.pid[q] = k.pid[q]
      /\ k'.ns = Counted(get_pid_ns(N, n), p, n)
      /\ fork' = [fork EXCEPT ![t] = [pid |-> p, kids |-> n, thread |-> thread]]
  BY DEF Forked
<1>4. PICK f : f = fork'
  OBVIOUS
<1>5. PICK r : r = [pid |-> p, kids |-> n, thread |-> thread]
  OBVIOUS
<1>6. /\ f[t] = r /\ r.pid = p /\ r.kids = n /\ r.thread = thread
      /\ \A v \in Task \ {t} : f[v] = fork[v]
  BY <1>2, <1>3, <1>4, <1>5
<1>7. N \in [Ns -> NsType] /\ PathInv(N)
  BY DEF Tree
<1>8. N[n].path[N[n].level] = n
  BY <1>7, PathOf
<1>9. Places(Pid, PidNs(k.pid), PidNs(k'.pid), p, n)
  BY <1>3, <1>8 DEF Places, PidNs
<1>10. Adds(Holding(k, f, nsfile), Holding(k', f, nsfile), n)
  BY <1>3, <1>9, HoldsPid DEF Holding
<1>11. PICK M : M = get_pid_ns(N, n)
  OBVIOUS
<1>12. Tree(M, Holding(k', f, nsfile)) /\ InUse(M) = InUse(N)
  BY <1>4, <1>10, <1>11, GetTree
<1>13. SameTree(N, M) /\ M \in [Ns -> NsType]
  BY <1>7, <1>11, GetIs
<1>14. NsSame(M, k'.ns) /\ k'.ns \in [Ns -> NsType]
  BY <1>3, <1>11, <1>13, CountedSame
<1>15. /\ Tree(k'.ns, Holding(k', f, nsfile)) /\ InUse(k'.ns) = InUse(M)
  BY <1>12, <1>14, SameNsTree
<1>16. /\ Stable(k.ns, k'.ns)
       /\ \A m \in Ns : k'.ns[m].level = N[m].level /\ k'.ns[m].path = N[m].path
  BY <1>13, <1>14 DEF NsSame, SameTree, Stable
<1>17. NumbersKept(k, k')
       /\ \A q \in Pid \ {p} : k'.pid[q].st # "none" =>
            k.pid[q].st # "none" /\ SamePid(k, k', q)
  BY <1>3 DEF NumbersKept, SamePid
<1>18. Stays(k, k')
  BY <1>2, <1>3, <1>17, SameActive DEF Stays
<1>19. ns_of(k', p) = n
  BY <1>3, <1>8 DEF ns_of
<1>20. NumberOf(k', p)
  BY <1>3, <1>16, <1>19 DEF NumberOf
<1>21. ForkOf(k', f, t)
  <2>1. active(k', t) = active(k, t)
    BY <1>3, <1>18 DEF Stays
  <2>2. Above(k'.ns, active(k, t), n)
    BY <1>16 DEF Above
  <2> QED
    BY <1>6, <1>19, <2>1, <2>2 DEF ForkOf
<1>22. \A v \in Task : k'.task[v].st # "none" => OldTask(k, k', v)
  BY <1>3 DEF OldTask
<1>23. TaskInv(k'.task) /\ ForkIn(k', f)
  BY <1>4, GoodRest
<1>24. \A q \in Pid : k'.pid[q].st # "none" =>
         (k.pid[q].st # "none" /\ SamePid(k, k', q)) \/ NumberOf(k', q)
  BY <1>17, <1>20
<1>25. \A v \in Task : f[v] # NULL => f[v] = fork[v] \/ ForkOf(k', f, v)
  BY <1>6, <1>21
<1>26. u = Cardinality(InUse(k'.ns))
  BY <1>12, <1>15
<1> QED
  BY <1>1, <1>4, <1>15, <1>16, <1>17, <1>18, <1>22, <1>23, <1>24, <1>25, <1>26,
     SpacesStep

(* What the fork itself refers to.                                         *)
LEMMA ForkedHolds ==
  ASSUME Good(k, fork, opening, pidfd), NEW t \in Task, NEW p \in Pid, NEW n \in Ns,
         NEW thread \in BOOLEAN, NEW N, Forked(t, N, n, p, thread), NEW G
  PROVE  Adds(Holding(k, fork, G), Holding(k, fork', G), n)
<1>1. fork \in [Task -> ForkType \cup {NULL}]
  BY GoodRest
<1>2. PICK r \in ForkType : r = [pid |-> p, kids |-> n, thread |-> thread]
  BY DEF ForkType
<1>3. fork[t] = NULL /\ fork' = [fork EXCEPT ![t] = r]
  BY <1>2 DEF Forked
<1>4. r # NULL /\ r.kids = n
  BY <1>2, NullIsNone
<1>5. PICK f : f = fork'
  OBVIOUS
<1>6. f[t] = r /\ \A v \in Task \ {t} : f[v] = fork[v]
  BY <1>1, <1>3, <1>5
<1>7. Places(Task, ForkNs(fork), ForkNs(f), t, n)
  BY <1>3, <1>4, <1>6 DEF Places, ForkNs
<1> QED
  BY <1>5, <1>7, HoldsFork DEF Holding

(* fork and clone for the namespace of the children.                       *)
LEMMA ForkSpaces ==
  ASSUME Good(k, fork, opening, pidfd), Spaces(k, fork, nsfile, ucounts),
         NEW t \in Task, NEW p \in Pid, Fork(t, p) \/ ForkThread(t, p)
  PROVE  Spaces(k', fork', nsfile', ucounts')
<1>1. /\ Tree(k.ns, Holding(k, fork, nsfile)) /\ nsfile \subseteq Ns
      /\ ucounts = Cardinality(InUse(k.ns)) /\ ucounts <= MaxPidNamespaces
      /\ k.ns \in [Ns -> NsType]
      /\ \A v \in Task : k.task[v].st = "live" =>
              Above(k.ns, active(k, v), k.task[v].kids)
  BY SpacesFields
<1>2. k \in State /\ TaskInv(k.task)
  BY GoodRest
<1>3. Runs(t) /\ nsfile' = nsfile /\ ucounts' = ucounts
  BY DEF Fork, ForkThread, Allocates
<1>4. k.task[t].st = "live"
  BY <1>3 DEF Runs
<1>5. PICK n \in Ns : n = k.task[t].kids
  BY <1>2, <1>3, KidsIn
<1>6. k.ns[n].st = "live"
  BY <1>1, <1>5, HeldBy
<1>7. PICK N : N = get_pid_ns(k.ns, n)
  OBVIOUS
<1>8. Good(k', fork', opening', pidfd')
  BY ForkGood
<1>9. PICK thread \in BOOLEAN : /\ Forked(t, N, n, p, thread)
                                /\ thread => n = active(k, t)
  <2>1. CASE Fork(t, p)
    <3>1. Allocates(t, N, n, p, FALSE)
      BY <1>5, <1>7, <2>1 DEF Fork
    <3>2. N \in [Ns -> NsType]
      BY <1>1, <1>7, GetNsType
    <3>3. FALSE \in BOOLEAN
      OBVIOUS
    <3>4. Forked(t, N, n, p, FALSE)
      BY <1>3, <3>1, <3>2, <3>3, AllocatesGood
    <3> QED
      BY <3>3, <3>4
  <2>2. CASE ForkThread(t, p)
    <3>1. Allocates(t, N, n, p, TRUE) /\ n = active(k, t)
      BY <1>5, <1>7, <2>2 DEF ForkThread, active, task_active_pid_ns, ns_of_pid
    <3>2. N \in [Ns -> NsType]
      BY <1>1, <1>7, GetNsType
    <3>3. TRUE \in BOOLEAN
      OBVIOUS
    <3>4. Forked(t, N, n, p, TRUE)
      BY <1>3, <3>1, <3>2, <3>3, AllocatesGood
    <3> QED
      BY <3>1, <3>3, <3>4
  <2> QED
    BY <2>1, <2>2
<1>10. Adds(Holding(k, fork, nsfile), Holding(k, fork', nsfile), n)
  BY <1>9, ForkedHolds
<1>11. /\ Tree(N, Holding(k, fork', nsfile)) /\ Stable(k.ns, N)
       /\ InUse(N) = InUse(k.ns)
  BY <1>1, <1>6, <1>7, <1>10, GetTree
<1>12. SameTree(k.ns, N)
  BY <1>1, <1>7, GetIs
<1>13. N[n].st = "live" /\ Above(N, active(k, t), n)
  BY <1>1, <1>4, <1>5, <1>6, <1>12 DEF SameTree, Above
<1>14. Spaces(k', fork', nsfile, ucounts)
  BY <1>1, <1>8, <1>9, <1>11, <1>13, ForkedSpaces
<1> QED
  BY <1>3, <1>14

(* clone with CLONE_NEWPID: the fork is for a new namespace.               *)
LEMMA ForkNewPidSpaces ==
  ASSUME Good(k, fork, opening, pidfd), Spaces(k, fork, nsfile, ucounts),
         NEW t \in Task, NEW p \in Pid, NEW n \in Ns, ForkNewPid(t, p, n)
  PROVE  Spaces(k', fork', nsfile', ucounts')
<1>1. /\ Tree(k.ns, Holding(k, fork, nsfile)) /\ nsfile \subseteq Ns
      /\ ucounts = Cardinality(InUse(k.ns)) /\ ucounts <= MaxPidNamespaces
      /\ k.ns \in [Ns -> NsType] /\ PathInv(k.ns)
  BY SpacesFields
<1>2. k \in State /\ TaskInv(k.task)
  BY GoodRest
<1>3. Runs(t) /\ CanCreate(t, n) /\ nsfile' = nsfile /\ ucounts' = ucounts + 1
  BY DEF ForkNewPid, Allocates
<1>4. PICK old \in Ns : old = k.task[t].kids
  BY <1>2, <1>3, KidsIn
<1>5. k.ns[old].st = "live"
  BY <1>1, <1>4, HeldBy
<1>6. /\ k.ns[n].st = "none" /\ active(k, t) = old
      /\ k.ns[old].level + 1 <= MAX_PID_NS_LEVEL /\ ucounts < MaxPidNamespaces
  BY <1>3, <1>4 DEF CanCreate, active, task_active_pid_ns, ns_of_pid
<1>7. PICK N : N = create_pid_namespace(k.ns, old, n)
  OBVIOUS
<1>8. Good(k', fork', opening', pidfd') /\ Forked(t, N, n, p, FALSE)
  BY <1>4, <1>7, ForkNewPidGood
<1>9. FALSE \in BOOLEAN
  OBVIOUS
<1>10. Adds(Holding(k, fork, nsfile), Holding(k, fork', nsfile), n)
  BY <1>8, <1>9, ForkedHolds
<1>11. /\ Tree(N, Holding(k, fork', nsfile)) /\ Stable(k.ns, N)
       /\ InUse(N) = InUse(k.ns) \cup {n} /\ Creates(k.ns, N, old, n)
  BY <1>1, <1>5, <1>6, <1>7, <1>10, CreateTree
<1>12. Above(N, active(k, t), n)
  BY <1>1, <1>5, <1>6, <1>11, CreateAbove
<1>13. N[n].st = "live"
  BY <1>11 DEF Creates
<1>14. PICK u : u = ucounts + 1
  OBVIOUS
<1>15. u = Cardinality(InUse(N)) /\ u <= MaxPidNamespaces
  <2>1. n \notin InUse(k.ns)
    BY <1>6 DEF InUse
  <2>2. Cardinality(InUse(k.ns) \cup {n}) = Cardinality(InUse(k.ns)) + 1
    BY <2>1, InUseFinite, FS_AddElement
  <2> QED
    BY <1>1, <1>6, <1>11, <1>14, <2>2, InUseFinite, SlotsAssumption
<1>16. Spaces(k', fork', nsfile, u)
  BY <1>8, <1>9, <1>11, <1>12, <1>13, <1>15, ForkedSpaces
<1> QED
  BY <1>3, <1>14, <1>16

(* The child has what its fork held.                                       *)
LEMMA ForkAttachSpaces ==
  ASSUME Good(k, fork, opening, pidfd), Spaces(k, fork, nsfile, ucounts),
         NEW t \in Task, NEW c \in Task, ForkAttach(t, c)
  PROVE  Spaces(k', fork', nsfile', ucounts')
<1>1. /\ Tree(k.ns, Holding(k, fork, nsfile)) /\ nsfile \subseteq Ns
      /\ ucounts = Cardinality(InUse(k.ns)) /\ ucounts <= MaxPidNamespaces
      /\ \A v \in Task : k.task[v].st # "none" =>
              active(k, v) = active(k, k.task[v].leader)
      /\ \A v \in Task : fork[v] # NULL => ForkOf(k, fork, v)
  BY SpacesFields
<1>2. /\ k \in State /\ TaskInv(k.task) /\ LinksIn(k) /\ ForkIn(k, fork)
      /\ fork \in [Task -> ForkType \cup {NULL}]
  BY GoodRest
<1>3. Good(k', fork', opening', pidfd') /\ Born(t, c)
  BY ForkAttachGood
<1>4. nsfile' = nsfile /\ ucounts' = ucounts
  BY DEF ForkAttach
<1>5. /\ fork[t] # NULL /\ fork' = [fork EXCEPT ![t] = NULL]
      /\ SamePids(k.pid, k'.pid) /\ NsSame(k.ns, k'.ns)
      /\ k.task[c].st = "none" /\ k'.task[c].st = "live"
      /\ k'.task[c].thread_pid = fork[t].pid /\ k'.task[c].kids = fork[t].kids
      /\ k'.task[c].leader = IF fork[t].thread THEN k.task[t].leader ELSE c
      /\ \A v \in Task \ {c} : k'.task[v] = k.task[v]
  BY <1>3 DEF Born
<1>6. PICK n \in Ns : n = fork[t].kids
  BY <1>2, <1>5 DEF ForkType
<1>7. PICK p \in Pid : p = fork[t].pid
  BY <1>2, <1>5 DEF ForkType
<1>8. PICK f : f = fork'
  OBVIOUS
<1>9. f[t] = NULL /\ \A v \in Task \ {t} : f[v] = fork[v]
  BY <1>2, <1>5, <1>8
<1>10. k.task[t].st = "live" /\ k.pid[p].st = "new"
  BY <1>2, <1>5, <1>7 DEF ForkIn
<1>11. Places(Task, ForkNs(f), ForkNs(fork), t, n)
  BY <1>5, <1>6, <1>9 DEF Places, ForkNs
<1>12. Places(Task, KidsOf(k.task), KidsOf(k'.task), c, n)
  <2>1. k.task[c].kids = NULL
    BY <1>2, <1>5, NoTaskIs DEF TaskInv
  <2> QED
    BY <1>5, <1>6, <2>1 DEF Places, KidsOf
<1>13. Holding(k', f, nsfile) = Holding(k, fork, nsfile)
  BY <1>5, <1>11, <1>12, HoldsMoves, PidNsSame DEF Holding
<1>14. k'.ns \in [Ns -> NsType] /\ TaskInv(k'.task) /\ ForkIn(k', f)
  BY <1>3, <1>8, GoodRest, StateFields
<1>15. /\ Tree(k'.ns, Holding(k', f, nsfile)) /\ Stable(k.ns, k'.ns)
       /\ InUse(k'.ns) = InUse(k.ns)
  BY <1>1, <1>5, <1>13, <1>14, SameNsTree
<1>16. NumbersKept(k, k')
       /\ \A q \in Pid : k'.pid[q].st # "none" => k.pid[q].st # "none" /\ SamePid(k, k', q)
  BY <1>5 DEF NumbersKept, SamePid, SamePids
<1>17. Stays(k, k')
  <2>1. \A v \in Task : k.task[v].st # "none" => v # c
    BY <1>5
  <2> QED
    BY <1>2, <1>5, <1>16, <2>1, SameActive DEF Stays
<1>18. \A v \in Task \ {c} : k'.task[v].st # "none" => OldTask(k, k', v)
  BY <1>5 DEF OldTask
<1>19. TaskOk(k', c)
  <2>1. ns_of(k, p) = n /\ (fork[t].thread => n = active(k, t))
    BY <1>1, <1>5, <1>6, <1>7 DEF ForkOf
  <2>2. active(k', c) = n
    <3>1. SamePid(k, k', p)
      BY <1>10, <1>16 DEF NumbersKept
    <3> QED
      BY <1>5, <1>7, <2>1, <3>1 DEF active, ns_of, SamePid
  <2>3. active(k', c) = active(k', k'.task[c].leader)
    <3>1. CASE fork[t].thread
      <4>1. PICK l : l = k.task[t].leader
        OBVIOUS
      <4>2. l \in Task /\ k.task[l].st # "none"
        BY <1>2, <1>10, <4>1, LeaderOf
      <4>3. l # c /\ k'.task[l].st # "none"
        BY <1>5, <4>2
      <4>4. active(k', l) = active(k, l)
        BY <1>17, <4>2, <4>3 DEF Stays
      <4>5. active(k, l) = active(k, t)
        BY <1>1, <1>10, <4>1
      <4> QED
        BY <1>5, <2>1, <2>2, <3>1, <4>1, <4>4, <4>5
    <3>2. CASE ~fork[t].thread
      BY <1>5, <3>2
    <3> QED
      BY <3>1, <3>2
  <2>4. k'.ns[n].st = "live"
    BY <1>5, <1>6, <1>15, HeldBy
  <2>5. k'.ns[n].path[k'.ns[n].level] = n /\ k'.ns[n].level \in Nat
    BY <1>14, <1>15, <2>4, PathOf, TypeOfNs DEF Tree
  <2>6. Above(k'.ns, n, n)
    BY <2>5 DEF Above, Chain
  <2> QED
    BY <1>5, <1>6, <2>2, <2>3, <2>6 DEF TaskOk
<1>20. \A v \in Task : k'.task[v].st # "none" => OldTask(k, k', v) \/ TaskOk(k', v)
  BY <1>18, <1>19
<1>21. \A v \in Task : f[v] # NULL => f[v] = fork[v]
  BY <1>9
<1>22. Spaces(k', f, nsfile, ucounts)
  BY <1>1, <1>14, <1>15, <1>16, <1>17, <1>20, <1>21, SpacesStep
<1> QED
  BY <1>4, <1>8, <1>22

(* The thread that takes over was in the namespace of its leader.          *)
LEMMA TakesSpaces ==
  ASSUME NEW s, NEW f, NEW o, NEW F, Good(s, f, o, F),
         NEW G, NEW u, Spaces(s, f, G, u),
         NEW x, NEW ox, NEW Fx, Good(x, f, ox, Fx), NEW t \in Task, NEW old,
         Takes(s, x, t, old)
  PROVE  Spaces(x, f, G, u)
<1>1. /\ Tree(s.ns, Holding(s, f, G)) /\ G \subseteq Ns
      /\ u = Cardinality(InUse(s.ns)) /\ u <= MaxPidNamespaces
      /\ \A v \in Task : s.task[v].st # "none" =>
              active(s, v) = active(s, s.task[v].leader)
      /\ \A v \in Task : s.task[v].st = "live" =>
              Above(s.ns, active(s, v), s.task[v].kids)
  BY SpacesFields
<1>2. s \in State /\ TaskInv(s.task) /\ LinksIn(s)
  BY GoodRest
<1>3. x \in State /\ TaskInv(x.task) /\ ForkIn(x, f)
  BY GoodRest
<1>4. /\ SamePids(s.pid, x.pid) /\ NsSame(s.ns, x.ns)
      /\ s.task[t].leader = old /\ old \in Task /\ old # t
      /\ s.task[old].st = "zombie" /\ s.task[t].st = "live"
      /\ \A v \in Task : x.task[v].st = s.task[v].st /\ x.task[v].kids = s.task[v].kids
      /\ \A v \in Task \ {t, old} : x.task[v] = s.task[v]
      /\ \A v \in {t, old} : /\ x.task[v].leader = t
                             /\ x.task[v].thread_pid = s.task[old].thread_pid
  BY DEF Takes
<1>5. KidsOf(x.task) = KidsOf(s.task)
  BY <1>4 DEF KidsOf
<1>6. Holding(x, f, G) = Holding(s, f, G)
  BY <1>4, <1>5, HoldingIs DEF Holding
<1>7. Tree(x.ns, Holding(x, f, G)) /\ Stable(s.ns, x.ns) /\ InUse(x.ns) = InUse(s.ns)
  BY <1>1, <1>3, <1>4, <1>6, SameNsTree, StateFields
<1>8. NumbersKept(s, x)
      /\ \A q \in Pid : x.pid[q].st # "none" => s.pid[q].st # "none" /\ SamePid(s, x, q)
  BY <1>4 DEF NumbersKept, SamePid, SamePids
<1>9. active(s, t) = active(s, old)
  BY <1>1, <1>4
<1>10. active(x, t) = active(s, t) /\ active(x, old) = active(s, t)
  <2>1. active(x, old) = active(s, old)
    BY <1>2, <1>4, <1>8, SameActive
  <2>2. active(x, t) = active(x, old)
    BY <1>4 DEF active
  <2> QED
    BY <1>9, <2>1, <2>2
<1>11. Stays(s, x)
  <2>1. \A v \in Task \ {t, old} : s.task[v].st # "none" => active(x, v) = active(s, v)
    BY <1>2, <1>4, <1>8, SameActive
  <2> QED
    BY <1>9, <1>10, <2>1 DEF Stays
<1>12. \A v \in Task \ {t, old} : x.task[v].st # "none" => OldTask(s, x, v)
  BY <1>4 DEF OldTask
<1>13. TaskOk(x, t) /\ TaskOk(x, old)
  <2>1. Above(x.ns, active(x, t), x.task[t].kids)
    <3>1. PICK n \in Ns : n = s.task[t].kids
      BY <1>2, <1>4 DEF TaskInv
    <3>2. Above(s.ns, active(s, t), n)
      BY <1>1, <1>4, <3>1
    <3> QED
      BY <1>4, <1>10, <3>1, <3>2 DEF Above, NsSame
  <2> QED
    BY <1>4, <1>10, <2>1 DEF TaskOk
<1>14. \A v \in Task : x.task[v].st # "none" => OldTask(s, x, v) \/ TaskOk(x, v)
  BY <1>12, <1>13
<1> QED
  BY <1>1, <1>3, <1>7, <1>8, <1>11, <1>14, SpacesStep

-----------------------------------------------------------------------------
(* The state at boot.                                                      *)

Rooted == [Nowhere EXCEPT ![0] = InitNs]

(* The path of init_pid_ns.                                                *)
LEMMA RootedIs ==
  0 \in Depth /\ Rooted \in [Depth -> Ns \cup {NULL}] /\ Rooted[0] = InitNs
BY SlotsAssumption DEF Rooted, Depth, Nowhere

(* The records at boot, field by field.                                    *)
LEMMA BootRecords ==
  ASSUME Init
  PROVE  /\ k.pid[InitPid].st = "live" /\ k.pid[InitPid].level = 0
         /\ k.pid[InitPid].numbers = Rooted
         /\ \A p \in Pid \ {InitPid} : k.pid[p].st = "none"
         /\ k.ns[InitNs].st = "live" /\ k.ns[InitNs].level = 0
         /\ k.ns[InitNs].path = Rooted
         /\ \A n \in Ns \ {InitNs} : k.ns[n] = NoNs
         /\ k.task[InitTask].st = "live" /\ k.task[InitTask].leader = InitTask
         /\ k.task[InitTask].thread_pid = InitPid /\ k.task[InitTask].kids = InitNs
         /\ \A t \in Task \ {InitTask} : k.task[t] = NoTask
<1> DEFINE R == [st |-> "live", leader |-> InitTask, thread_pid |-> InitPid,
                 pids |-> [ty \in SignalType |-> InitPid], kids |-> InitNs]
           r == [NoPid EXCEPT !.st = "live", !.numbers[0] = InitNs, !.count = 1,
                              !.tasks = [ty \in PidType |-> {InitTask}]]
           g == [NoNs EXCEPT !.st = "live", !.path[0] = InitNs, !.adding = TRUE,
                             !.pid_allocated = 1, !.first = InitPid,
                             !.child_reaper = TRUE]
           T == [t \in Task |-> IF t # InitTask THEN NoTask ELSE R]
           P == [p \in Pid |-> IF p # InitPid THEN NoPid ELSE r]
           N == [n \in Ns |-> IF n # InitNs THEN NoNs ELSE g]
<1>1. InitTask \in Task /\ InitPid \in Pid /\ InitNs \in Ns
  BY SlotsAssumption
<1>2. /\ R.st = "live" /\ R.leader = InitTask
      /\ R.thread_pid = InitPid /\ R.kids = InitNs
  OBVIOUS
<1>3. r.st = "live" /\ r.level = 0 /\ r.numbers = Rooted
  BY DEF NoPid, Rooted
<1>4. g.st = "live" /\ g.level = 0 /\ g.path = Rooted
  BY DEF NoNs, Rooted
<1>5. k = [task |-> T, pid |-> P, ns |-> N]
  BY Zenon DEF Init
<1> HIDE DEF R, r, g
<1>6. k.task = T /\ k.pid = P /\ k.ns = N
  BY <1>5
<1> QED
  BY <1>1, <1>2, <1>3, <1>4, <1>6, NoPidIs

(* At boot there is init_pid_ns only.                                      *)
LEMMA BootTree ==
  ASSUME Init
  PROVE  Tree(k.ns, Holding(k, fork, nsfile)) /\ InUse(k.ns) = {}
<1>1. Good(k, fork, opening, pidfd)
  BY GoodInit
<1>2. k.ns \in [Ns -> NsType] /\ InitNs \in Ns
  BY <1>1, GoodRest, StateFields, SlotsAssumption
<1>3. /\ k.pid[InitPid].st = "live" /\ k.pid[InitPid].level = 0
      /\ k.pid[InitPid].numbers = Rooted
      /\ \A p \in Pid \ {InitPid} : k.pid[p].st = "none"
      /\ k.ns[InitNs].st = "live" /\ k.ns[InitNs].level = 0
      /\ k.ns[InitNs].path = Rooted
      /\ \A n \in Ns \ {InitNs} : k.ns[n] = NoNs
      /\ k.task[InitTask].kids = InitNs
      /\ \A t \in Task \ {InitTask} : k.task[t] = NoTask
  BY BootRecords
<1>4. \A n \in Ns \ {InitNs} : k.ns[n].st = "none" /\ k.ns[n].kref = 0
  BY <1>3, NoNsIs
<1>5. PathInv(k.ns)
  BY <1>2, <1>3, <1>4, RootedIs DEF PathInv
<1>6. PICK b : b = Holds(PidNs(k.pid), KidsOf(k.task), ForkNs(fork), nsfile)
  OBVIOUS
<1>7. b \in [Ns -> Nat]
  BY <1>6, HoldsNat
<1>8. ASSUME NEW n \in Ns \ {InitNs} PROVE b[n] = 0 /\ Kids(k.ns, n) = 0
  <2>1. {p \in Pid : PidNs(k.pid)[p] = n} = {}
    BY <1>3, NullIsNone, RootedIs DEF PidNs
  <2>2. {t \in Task : KidsOf(k.task)[t] = n} = {}
    BY <1>3, NoTaskIs, NullIsNone DEF KidsOf
  <2>3. {t \in Task : ForkNs(fork)[t] = n} = {} /\ {n} \cap nsfile = {}
    BY NullIsNone DEF ForkNs, Init
  <2>4. KidSet(k.ns, n) = {}
    BY <1>4 DEF KidSet
  <2>5. Cardinality({}) = 0
    BY FS_EmptySet
  <2>6. b[n] = Count(Pid, PidNs(k.pid), n) + Count(Task, KidsOf(k.task), n)
               + Count(Task, ForkNs(fork), n) + Cardinality({n} \cap nsfile)
    BY <1>6, HoldsNat
  <2> QED
    BY <2>1, <2>2, <2>3, <2>4, <2>5, <2>6 DEF Count, Kids
<1>9. KrefIn(k.ns, b)
  BY <1>4, <1>8 DEF KrefIn
<1>10. InUse(k.ns) = {}
  BY <1>4 DEF InUse
<1> QED
  BY <1>2, <1>5, <1>6, <1>7, <1>9, <1>10 DEF Tree, Holding

(* Spaces holds at boot.                                                   *)
LEMMA SpacesInit == Init => Spaces(k, fork, nsfile, ucounts)
<1> SUFFICES ASSUME Init PROVE Spaces(k, fork, nsfile, ucounts)
  OBVIOUS
<1>1. /\ k.pid[InitPid].st = "live" /\ k.pid[InitPid].level = 0
      /\ k.pid[InitPid].numbers = Rooted
      /\ \A p \in Pid \ {InitPid} : k.pid[p].st = "none"
      /\ k.ns[InitNs].st = "live" /\ k.ns[InitNs].level = 0
      /\ k.ns[InitNs].path = Rooted
      /\ k.task[InitTask].st = "live" /\ k.task[InitTask].leader = InitTask
      /\ k.task[InitTask].thread_pid = InitPid /\ k.task[InitTask].kids = InitNs
      /\ \A t \in Task \ {InitTask} : k.task[t] = NoTask
  BY BootRecords
<1>2. Tree(k.ns, Holding(k, fork, nsfile)) /\ InUse(k.ns) = {}
  BY BootTree
<1>3. InitPid \in Pid /\ InitNs \in Ns /\ InitTask \in Task
  BY SlotsAssumption
<1>4. ns_of(k, InitPid) = InitNs
  BY <1>1, RootedIs DEF ns_of
<1>5. \A p \in Pid : k.pid[p].st # "none" => NumberOf(k, p)
  BY <1>1, <1>3, <1>4 DEF NumberOf
<1>6. \A t \in Task : k.task[t].st # "none" =>
        t = InitTask /\ active(k, t) = active(k, k.task[t].leader)
  BY <1>1, NoTaskIs
<1>7. Above(k.ns, active(k, InitTask), k.task[InitTask].kids)
  <2>1. InitNs = k.ns[InitNs].path[0] /\ 0 \in 0 .. k.ns[InitNs].level
    BY <1>1, RootedIs
  <2>2. Above(k.ns, InitNs, InitNs)
    BY <2>1 DEF Above, Chain
  <2> QED
    BY <1>1, <1>4, <2>2 DEF active
<1>8. \A t \in Task : k.task[t].st = "live" =>
        Above(k.ns, active(k, t), k.task[t].kids)
  BY <1>6, <1>7
<1>9. nsfile = {} /\ ucounts = 0 /\ \A t \in Task : fork[t] = NULL
  BY DEF Init
<1>10. ucounts = Cardinality(InUse(k.ns)) /\ ucounts <= MaxPidNamespaces
  BY <1>2, <1>9, FS_EmptySet, SlotsAssumption
<1> QED
  BY <1>2, <1>5, <1>6, <1>8, <1>9, <1>10 DEF Spaces

-----------------------------------------------------------------------------
(* Every step.                                                             *)

\* What is opened is in use.
LEMMA ActiveLive ==
  ASSUME Good(k, fork, opening, pidfd), Spaces(k, fork, nsfile, ucounts),
         NEW t \in Task, k.task[t].st # "none"
  PROVE  task_active_pid_ns(t) \in Ns /\ k.ns[task_active_pid_ns(t)].st = "live"
<1>1. /\ Tree(k.ns, Holding(k, fork, nsfile))
      /\ \A p \in Pid : k.pid[p].st # "none" => NumberOf(k, p)
  BY SpacesFields
<1>2. PICK p : p = k.task[t].thread_pid
  OBVIOUS
<1>3. p \in Pid /\ k.pid[p].st = "live"
  BY <1>2, PidLive, GoodRest
<1>4. PICK n : n = ns_of(k, p)
  OBVIOUS
<1>5. n \in Ns
  BY <1>1, <1>3, <1>4 DEF NumberOf
<1>6. k.ns[n].st = "live"
  BY <1>1, <1>3, <1>4, <1>5, HeldBy
<1> QED
  BY <1>2, <1>4, <1>5, <1>6 DEF task_active_pid_ns, ns_of_pid

(* The parent of a namespace in use is in use.                             *)
LEMMA ParentLive ==
  ASSUME NEW N, NEW b, Tree(N, b), NEW n \in Ns \ {InitNs}, N[n].st = "live",
         NEW a, a = N[n].path[N[n].level - 1]
  PROVE  a \in Ns /\ N[a].st = "live"
<1>1. N \in [Ns -> NsType] /\ PathInv(N)
  BY DEF Tree
<1>2. N[n].level \in Nat
  BY <1>1, TypeOfNs
<1>3. /\ N[n].path[N[n].level] = n /\ N[n].path[0] = InitNs
      /\ \A i \in 0 .. N[n].level : OnPath(N, n, i, N[n].path[i])
  BY <1>1, PathOf
<1>4. N[n].level # 0
  BY <1>3
<1>5. N[n].level - 1 \in 0 .. N[n].level
  BY <1>2, <1>4
<1> QED
  BY <1>3, <1>5 DEF OnPath

(* The three ways to open a namespace file.                                *)
LEMMA GetSpaces ==
  ASSUME Good(k, fork, opening, pidfd), Spaces(k, fork, nsfile, ucounts),
         NEW t \in Task,
         \/ pidns_get(t) \/ pidns_for_children_get(t)
         \/ \E n \in Ns : pidns_get_parent(t, n)
  PROVE  Spaces(k', fork', nsfile', ucounts')
<1>1. /\ Tree(k.ns, Holding(k, fork, nsfile)) /\ nsfile \subseteq Ns
  BY SpacesFields
<1>2. k \in State /\ TaskInv(k.task)
  BY GoodRest
<1>3. CASE pidns_get(t)
  <2>1. PICK n : n = task_active_pid_ns(t)
    OBVIOUS
  <2>2. k.task[t].st # "none" /\ Opens(n)
    BY <1>3, <2>1 DEF pidns_get
  <2>3. n \in Ns /\ k.ns[n].st = "live"
    BY <2>1, <2>2, ActiveLive
  <2> QED
    BY <2>2, <2>3, OpensSpaces
<1>4. CASE pidns_for_children_get(t)
  <2>1. PICK n : n = k.task[t].kids
    OBVIOUS
  <2>2. n # NULL /\ Opens(n)
    BY <1>4, <2>1 DEF pidns_for_children_get
  <2>3. n \in Ns
    BY <1>2, <2>1, <2>2, StateFields, TaskFields
  <2>4. k.ns[n].st = "live"
    BY <1>1, <2>1, <2>3, HeldBy
  <2> QED
    BY <2>2, <2>3, <2>4, OpensSpaces
<1>5. CASE \E n \in Ns : pidns_get_parent(t, n)
  <2>1. PICK n \in Ns : pidns_get_parent(t, n)
    BY <1>5
  <2>2. PICK a : a = parent(n)
    OBVIOUS
  <2>3. n \in nsfile /\ n # InitNs /\ Opens(a)
    BY <2>1, <2>2 DEF pidns_get_parent
  <2>4. k.ns[n].st = "live"
    BY <1>1, <2>3, HeldBy
  <2>5. a \in Ns /\ k.ns[a].st = "live"
    BY <1>1, <2>2, <2>3, <2>4, ParentLive DEF parent
  <2> QED
    BY <2>3, <2>5, OpensSpaces
<1> QED
  BY <1>3, <1>4, <1>5

(* The steps on tasks and struct pids only.                                *)
LEMMA QuietNext ==
  ASSUME Good(k, fork, opening, pidfd), Spaces(k, fork, nsfile, ucounts),
         Good(k', fork', opening', pidfd'), fork' = fork, nsfile' = nsfile,
         ucounts' = ucounts, Quiet(k, k') \/ \E p \in Pid : PutsLast(k, k', p)
  PROVE  Spaces(k', fork', nsfile', ucounts')
<1>1. Good(k', fork, opening', pidfd')
  OBVIOUS
<1>2. CASE Quiet(k, k')
  BY <1>1, <1>2, QuietSpaces
<1>3. CASE \E p \in Pid : PutsLast(k, k', p)
  BY <1>1, <1>3, PutsSpaces
<1> QED
  BY <1>2, <1>3

(* exec by a thread that is not the leader.                                *)
LEMMA TakesNext ==
  ASSUME Good(k, fork, opening, pidfd), Spaces(k, fork, nsfile, ucounts),
         NEW t \in Task, de_thread(t)
  PROVE  Spaces(k', fork', nsfile', ucounts')
<1>1. fork' = fork /\ nsfile' = nsfile /\ ucounts' = ucounts
  BY DEF de_thread
<1>2. Good(k', fork', opening', pidfd')
  BY DeThreadGood
<1>3. PICK old : Takes(k, k', t, old)
  BY DeThreadGood
<1>4. Good(k', fork, opening', pidfd')
  BY <1>1, <1>2
<1>5. Spaces(k', fork, nsfile, ucounts)
  BY <1>3, <1>4, TakesSpaces
<1> QED
  BY <1>1, <1>5

(* Every step keeps Spaces: one case for each action.                      *)
LEMMA SpacesNext ==
  ASSUME Good(k, fork, opening, pidfd), Spaces(k, fork, nsfile, ucounts), [Next]_vars
  PROVE  Spaces(k', fork', nsfile', ucounts')
<1>1. CASE UNCHANGED vars
  BY <1>1 DEF vars
<1>2. ASSUME NEW t \in Task, ForkFails(t)
      PROVE  Spaces(k', fork', nsfile', ucounts')
  BY <1>2, ForkFailsSpaces
<1>3. ASSUME NEW t \in Task, Exit(t)
      PROVE  Spaces(k', fork', nsfile', ucounts')
  BY <1>3, ExitSpaces
<1>4. ASSUME NEW t \in Task, Release(t)
      PROVE  Spaces(k', fork', nsfile', ucounts')
  <2>1. fork' = fork /\ nsfile' = nsfile /\ ucounts' = ucounts
    BY <1>4 DEF Release
  <2> QED
    BY <1>4, <2>1, ReleaseGood, QuietNext
<1>5. ASSUME NEW t \in Task, de_thread(t)
      PROVE  Spaces(k', fork', nsfile', ucounts')
  BY <1>5, TakesNext
<1>6. ASSUME NEW t \in Task, setsid(t)
      PROVE  Spaces(k', fork', nsfile', ucounts')
  <2>1. fork' = fork /\ nsfile' = nsfile /\ ucounts' = ucounts
    BY <1>6 DEF setsid
  <2> QED
    BY <1>6, <2>1, SetsidGood, QuietNext
<1>7. ASSUME NEW t \in Task, pidfd_open(t)
      PROVE  Spaces(k', fork', nsfile', ucounts')
  <2>1. fork' = fork /\ nsfile' = nsfile /\ ucounts' = ucounts
    BY <1>7 DEF pidfd_open
  <2> QED
    BY <1>7, <2>1, OpenGood, QuietNext
<1>8. ASSUME NEW t \in Task,
             \/ pidns_get(t) \/ pidns_for_children_get(t)
             \/ \E n \in Ns : pidns_get_parent(t, n)
      PROVE  Spaces(k', fork', nsfile', ucounts')
  BY <1>8, GetSpaces
<1>9. ASSUME NEW t \in Task, NEW c \in Task, ForkAttach(t, c)
      PROVE  Spaces(k', fork', nsfile', ucounts')
  BY <1>9, ForkAttachSpaces
<1>10. ASSUME NEW t \in Task, NEW p \in Pid, Fork(t, p) \/ ForkThread(t, p)
       PROVE  Spaces(k', fork', nsfile', ucounts')
  BY <1>10, ForkSpaces
<1>11. ASSUME NEW t \in Task, NEW p \in Pid, setpgid(t, p)
       PROVE  Spaces(k', fork', nsfile', ucounts')
  <2>1. fork' = fork /\ nsfile' = nsfile /\ ucounts' = ucounts
    BY <1>11 DEF setpgid
  <2> QED
    BY <1>11, <2>1, SetpgidGood, QuietNext
<1>12. ASSUME NEW t \in Task, NEW p \in Pid, find_get_pid(t, p)
       PROVE  Spaces(k', fork', nsfile', ucounts')
  <2>1. fork' = fork /\ nsfile' = nsfile /\ ucounts' = ucounts
    BY <1>12 DEF find_get_pid
  <2> QED
    BY <1>12, <2>1, FindGood, QuietNext
<1>13. ASSUME NEW t \in Task, NEW p \in Pid, NEW n \in Ns, ForkNewPid(t, p, n)
       PROVE  Spaces(k', fork', nsfile', ucounts')
  BY <1>13, ForkNewPidSpaces
<1>14. ASSUME NEW t \in Task, NEW n \in Ns, pidns_install(t, n)
       PROVE  Spaces(k', fork', nsfile', ucounts')
  BY <1>14, InstallSpaces
<1>15. ASSUME NEW t \in Task, NEW n \in Ns, unshare(t, n)
       PROVE  Spaces(k', fork', nsfile', ucounts')
  BY <1>15, UnshareSpaces
<1>16. ASSUME NEW p \in Pid, delayed_put_pid(p)
       PROVE  Spaces(k', fork', nsfile', ucounts')
  <2>1. fork' = fork /\ nsfile' = nsfile /\ ucounts' = ucounts
    BY <1>16 DEF delayed_put_pid
  <2> QED
    BY <1>16, <2>1, DelayedPutGood, QuietNext
<1>17. ASSUME NEW p \in Pid, pidfd_close(p)
       PROVE  Spaces(k', fork', nsfile', ucounts')
  <2>1. fork' = fork /\ nsfile' = nsfile /\ ucounts' = ucounts
    BY <1>17 DEF pidfd_close
  <2> QED
    BY <1>17, <2>1, CloseGood, QuietNext
<1>18. ASSUME NEW n \in Ns, pidns_put(n)
       PROVE  Spaces(k', fork', nsfile', ucounts')
  BY <1>18, PutFileSpaces
<1>19. ASSUME NEW n \in Ns, delayed_free_pidns(n)
       PROVE  Spaces(k', fork', nsfile', ucounts')
  BY <1>19, FreeNsSpaces
<1> QED
  BY <1>1, <1>2, <1>3, <1>4, <1>5, <1>6, <1>7, <1>8, <1>9, <1>10, <1>11, <1>12,
     <1>13, <1>14, <1>15, <1>16, <1>17, <1>18, <1>19 DEF Next

-----------------------------------------------------------------------------
(* The invariants.                                                         *)

(* The references counted by Holding and by HoldsNs are the same.          *)
LEMMA HoldsMeaning ==
  ASSUME NEW n \in Ns
  PROVE  HoldsNs(n) = Holding(k, fork, nsfile)[n] + Kids(k.ns, n)
<1> DEFINE A == {p \in Pid : k.pid[p].st # "none" /\ ns_of_pid(p) = n}
           B == {t \in Task : k.task[t].kids = n}
           C == {t \in Task : fork[t] # NULL /\ fork[t].kids = n}
           D == {m \in Ns : k.ns[m].st = "live" /\ m # InitNs /\ parent(m) = n}
<1>0. n # NULL
  BY SlotsAssumption
<1>1. PICK g : g = PidNs(k.pid)
  OBVIOUS
<1>2. PICK h : h = KidsOf(k.task)
  OBVIOUS
<1>3. PICK e : e = ForkNs(fork)
  OBVIOUS
<1>4. A = {p \in Pid : g[p] = n}
  <2>1. \A p \in Pid : g[p] = n <=> k.pid[p].st # "none" /\ ns_of_pid(p) = n
    BY <1>0, <1>1 DEF PidNs, ns_of_pid, ns_of
  <2> QED
    BY <2>1, Zenon
<1>5. B = {t \in Task : h[t] = n}
  <2>1. \A t \in Task : h[t] = k.task[t].kids
    BY <1>2 DEF KidsOf
  <2> QED
    BY <2>1, Zenon
<1>6. C = {t \in Task : e[t] = n}
  <2>1. \A t \in Task : e[t] = n <=> fork[t] # NULL /\ fork[t].kids = n
    BY <1>0, <1>3 DEF ForkNs
  <2> QED
    BY <2>1, Zenon
<1>7. D = KidSet(k.ns, n)
  BY Zenon DEF KidSet, parent
<1>8. Holding(k, fork, nsfile)[n]
        = Count(Pid, g, n) + Count(Task, h, n) + Count(Task, e, n)
          + Cardinality({n} \cap nsfile)
  BY <1>1, <1>2, <1>3 DEF Holding, Holds
<1>9. HoldsNs(n) = Cardinality(A) + Cardinality(B) + Cardinality(C)
                   + Cardinality({n} \cap nsfile) + Cardinality(D)
  BY Zenon DEF HoldsNs
<1>10. /\ Cardinality(A) = Count(Pid, g, n) /\ Cardinality(B) = Count(Task, h, n)
       /\ Cardinality(C) = Count(Task, e, n) /\ Cardinality(D) = Kids(k.ns, n)
  BY <1>4, <1>5, <1>6, <1>7, Zenon DEF Count, Kids
<1> HIDE DEF A, B, C, D
<1> QED
  BY <1>8, <1>9, <1>10

(* Spaces has NsRefsExact.                                                 *)
LEMMA RefsOfSpaces ==
  ASSUME Spaces(k, fork, nsfile, ucounts)
  PROVE  NsRefsExact
<1>1. /\ Tree(k.ns, Holding(k, fork, nsfile))
      /\ ucounts = Cardinality(InUse(k.ns)) /\ ucounts <= MaxPidNamespaces
  BY SpacesFields
<1>2. ASSUME NEW n \in Ns \ {InitNs}
      PROVE  /\ k.ns[n].kref = HoldsNs(n)
             /\ k.ns[n].st = "live" <=> k.ns[n].kref > 0
  <2>1. /\ k.ns[n].kref = Holding(k, fork, nsfile)[n] + Kids(k.ns, n)
        /\ k.ns[n].st = "live" <=> k.ns[n].kref > 0
    BY <1>1 DEF Tree, KrefIn
  <2> QED
    BY <2>1, HoldsMeaning
<1>3. ucounts = Cardinality({n \in Ns \ {InitNs} : k.ns[n].st # "none"})
  BY <1>1, Zenon DEF InUse
<1> QED
  BY <1>1, <1>2, <1>3, Zenon DEF NsRefsExact

(* A struct pid of a namespace has a number in each namespace above it.    *)
LEMMA AboveSeen ==
  ASSUME NEW N, NEW p, NEW a, NEW n \in Ns, PathInv(k.ns), k.ns[n].st = "live",
         k.ns \in [Ns -> NsType], ns_of(k, p) = n, NumberOf(k, p), Above(k.ns, a, n)
  PROVE  SeenIn(p, a)
<1>1. PICK i \in 0 .. k.ns[n].level : a = k.ns[n].path[i]
  BY DEF Above, Chain
<1>2. OnPath(k.ns, n, i, a)
  BY <1>1, PathOf
<1>3. k.ns[n].level \in Nat
  BY TypeOfNs
<1>4. k.ns[a].level = i
  BY <1>2 DEF OnPath
<1>5. k.pid[p].level = k.ns[n].level /\ k.pid[p].numbers = k.ns[n].path
  BY DEF NumberOf
<1> QED
  BY <1>1, <1>3, <1>4, <1>5 DEF SeenIn

(* Spaces has NumberInv.                                                   *)
LEMMA NumbersOfSpaces ==
  ASSUME Spaces(k, fork, nsfile, ucounts)
  PROVE  NumberInv
<1>1. /\ Tree(k.ns, Holding(k, fork, nsfile))
      /\ \A p \in Pid : k.pid[p].st # "none" => NumberOf(k, p)
  BY SpacesFields
<1>2. ASSUME NEW p \in Pid, k.pid[p].st # "none"
      PROVE  /\ ns_of_pid(p) \in Ns
             /\ k.ns[ns_of_pid(p)].st = "live"
             /\ k.pid[p].level = k.ns[ns_of_pid(p)].level
             /\ k.pid[p].numbers = k.ns[ns_of_pid(p)].path
  <2>1. NumberOf(k, p)
    BY <1>1, <1>2
  <2>2. PICK n : n = ns_of(k, p)
    OBVIOUS
  <2>3. n \in Ns
    BY <2>1, <2>2 DEF NumberOf
  <2>4. k.ns[n].st = "live"
    BY <1>1, <1>2, <2>2, <2>3, HeldBy
  <2> QED
    BY <2>1, <2>2, <2>3, <2>4 DEF NumberOf, ns_of_pid
<1> QED
  BY <1>2, Zenon DEF NumberInv

(* Spaces has NoEscape: a pid of a fork has a number in every namespace    *)
(* above the one the fork is for, and the task's own is above it.          *)
LEMMA EscapeOfSpaces ==
  ASSUME Good(k, fork, opening, pidfd), Spaces(k, fork, nsfile, ucounts)
  PROVE  NoEscape
<1>1. /\ Tree(k.ns, Holding(k, fork, nsfile)) /\ k.ns \in [Ns -> NsType]
      /\ PathInv(k.ns)
      /\ \A p \in Pid : k.pid[p].st # "none" => NumberOf(k, p)
      /\ \A t \in Task : k.task[t].st = "live" =>
           Above(k.ns, active(k, t), k.task[t].kids)
      /\ \A t \in Task : fork[t] # NULL => ForkOf(k, fork, t)
  BY SpacesFields
<1>2. ForkIn(k, fork) /\ fork \in [Task -> ForkType \cup {NULL}]
  BY GoodRest
<1>3. \A t \in Task : task_active_pid_ns(t) = active(k, t)
  BY DEF task_active_pid_ns, ns_of_pid, active
<1>4. ASSUME NEW t \in Task, fork[t] # NULL
      PROVE  SeenIn(fork[t].pid, task_active_pid_ns(t))
  <2>1. PICK p : p = fork[t].pid
    OBVIOUS
  <2>2. p \in Pid /\ k.pid[p].st = "new" /\ fork[t].kids \in Ns
    BY <1>2, <1>4, <2>1 DEF ForkIn, ForkType
  <2>3. PICK n : n = fork[t].kids
    OBVIOUS
  <2>4. ns_of(k, p) = n /\ Above(k.ns, active(k, t), n)
    BY <1>1, <1>4, <2>1, <2>3 DEF ForkOf
  <2>5. k.ns[n].st = "live" /\ n \in Ns
    BY <1>1, <1>4, <2>2, <2>3, HeldBy
  <2>6. NumberOf(k, p)
    BY <1>1, <2>2
  <2>7. SeenIn(p, active(k, t))
    BY <1>1, <2>4, <2>5, <2>6, AboveSeen
  <2> QED
    BY <1>3, <2>1, <2>7
<1>5. ASSUME NEW t \in Task, k.task[t].st = "live"
      PROVE  task_active_pid_ns(t)
               \in Chain(k.ns[k.task[t].kids].path, k.ns[k.task[t].kids].level)
  BY <1>1, <1>3, <1>5 DEF Above
<1> QED
  BY <1>4, <1>5, Zenon DEF NoEscape

(* Good and Spaces are all of Inv.                                         *)
LEMMA InvOfSpaces ==
  ASSUME Good(k, fork, opening, pidfd), Spaces(k, fork, nsfile, ucounts)
  PROVE  Inv
<1>1. /\ k \in State /\ fork \in [Task -> ForkType \cup {NULL}]
      /\ opening \in [Task -> Pid \cup {NULL}] /\ pidfd \subseteq Pid
      /\ SlotInv(k.pid) /\ RefsIn(k.pid, opening, pidfd) /\ ForkIn(k, fork)
      /\ TaskInv(k.task) /\ LinksIn(k)
  BY GoodRest
<1>2. /\ PathInv(k.ns) /\ nsfile \subseteq Ns
      /\ \A t \in Task : k.task[t].st # "none" =>
           active(k, t) = active(k, k.task[t].leader)
      /\ \A t \in Task : fork[t] # NULL => ForkOf(k, fork, t)
      /\ ucounts = Cardinality(InUse(k.ns))
  BY SpacesFields
<1>3. TypeInv
  <2>1. Cardinality(InUse(k.ns)) \in Int
    BY InUseFinite, FS_CardinalityType
  <2> QED
    BY <1>1, <1>2, <2>1 DEF TypeInv, State
<1>4. LinksExact
  BY <1>1 DEF LinksIn, LinksExact
<1>5. PidRefsExact
  BY <1>1, RefsMeaning
<1>6. TaskPart
  BY <1>1, <1>3, <1>4, <1>5 DEF TaskPart
<1>7. ActiveInv
  <2>1. \A t \in Task : task_active_pid_ns(t) = active(k, t)
    BY DEF task_active_pid_ns, ns_of_pid, active
  <2>2. \A t \in Task : k.task[t].st # "none" => k.task[t].leader \in Task
    BY <1>1 DEF TaskInv
  <2>3. \A t \in Task : k.task[t].st # "none" =>
          task_active_pid_ns(t) = task_active_pid_ns(k.task[t].leader)
    BY <1>2, <2>1, <2>2
  <2>4. \A t \in Task : fork[t] # NULL =>
          /\ ns_of_pid(fork[t].pid) = fork[t].kids
          /\ fork[t].thread => fork[t].kids = task_active_pid_ns(t)
    BY <1>2, <2>1 DEF ForkOf, ns_of_pid
  <2> QED
    BY <2>3, <2>4 DEF ActiveInv
<1> QED
  BY <1>2, <1>6, <1>7, NumbersOfSpaces, RefsOfSpaces, EscapeOfSpaces DEF Inv, NsPart

(* Every state of the program has tasks, struct pids and namespaces that   *)
(* fit together: copy_process(), exec, exit, setns(), unshare() and the    *)
(* grace periods, in every order, keep Inv.                                *)
THEOREM SpaceInvariance == Spec => []Inv
<1> DEFINE Whole == Good(k, fork, opening, pidfd) /\ Spaces(k, fork, nsfile, ucounts)
<1>1. Init => Whole
  BY GoodInit, SpacesInit
<1>2. Whole /\ [Next]_vars => Whole'
  <2> SUFFICES ASSUME Whole, [Next]_vars
               PROVE  Whole'
    OBVIOUS
  <2>1. Good(k', fork', opening', pidfd')
    BY GoodNext
  <2>2. Spaces(k', fork', nsfile', ucounts')
    BY SpacesNext
  <2> QED
    BY <2>1, <2>2
<1>3. Whole => Inv
  BY InvOfSpaces
<1> QED
  BY <1>1, <1>2, <1>3, PTL DEF Spec

(* kref of a namespace counts its struct pids, the nsproxies and forks for *)
(* it, the file on it and its children; put_pid_ns() destroys it with the  *)
(* last of them, and its ucount is given back after the grace period.      *)
THEOREM NsRefsCorrect == Spec => []NsRefsExact
<1>1. Inv => NsRefsExact
  BY DEF Inv, NsPart
<1> QED
  BY <1>1, SpaceInvariance, PTL

(* No order of setns(), unshare() and fork takes a process or its children *)
(* out of its namespace: a fork always returns a usable pid.               *)
THEOREM NoEscapeHolds == Spec => []NoEscape
<1>1. Inv => NoEscape
  BY DEF Inv, NsPart
<1> QED
  BY <1>1, SpaceInvariance, PTL
=============================================================================
