------------------------- MODULE RbSkiplistProofs -------------------------
(***************************************************************************)
(* Proofs about RbSkiplist, for every number of keys, cells, levels,       *)
(* struct pids and readers.  One lemma per action shows that it preserves  *)
(* Inv (RbSkiplistInv); the properties follow from Inv.                    *)
(***************************************************************************)
EXTENDS RbSkiplistInv, WellFoundedInduction, TLAPS

USE DEF CallTypeOK

-----------------------------------------------------------------------------
(* The ranges of the indices and the pointers.                             *)

(* The level indices are integers within the height of the header          *)
(* (PID_SL_MAX_LEVEL).                                                     *)
LEMMA Bounds ==
  /\ Index \subseteq Int /\ Height \subseteq Int /\ Lvl \subseteq Int
  /\ 0 \in Index /\ 0 \in Height /\ 0 \in Lvl /\ 1 \in Height
  /\ PID_SL_MAX_LEVEL \in Height /\ PID_SL_MAX_LEVEL >= 1
  /\ PID_SL_MAX_LEVEL \in Int
  /\ \A i \in Lvl : i >= 0 /\ i < PID_SL_MAX_LEVEL
  /\ \A l \in Height : l >= 0 /\ l <= PID_SL_MAX_LEVEL
BY LevelAssumption DEF Index, Height, Lvl

(* One step up or down from a valid index is a valid index, as in the      *)
(* loops over sl->level.                                                   *)
LEMMA IndexSteps ==
  /\ \A l \in Height : l >= 1 => l - 1 \in Lvl /\ l - 1 \in Index
  /\ \A i \in Index : i >= 0 => i - 1 \in Index
  /\ \A i \in Lvl : i > 0 => i - 1 \in Lvl
  /\ \A i \in Index, l \in Height : i < l => i + 1 \in Index
  /\ \A i \in Index, l \in Height : 0 <= i /\ i < l => i \in Lvl
  /\ \A l \in Height : \A m \in 1 .. l : m \in Height
  /\ \A l \in 1 .. PID_SL_MAX_LEVEL : l \in Height /\ l \in Int /\ l >= 1
BY LevelAssumption DEF Index, Height, Lvl

(* Cells, the header, NULL and the numbers are what the pointer fields of  *)
(* a node range over.                                                      *)
LEMMA Pointers ==
  /\ INT_MIN \in Number /\ Key \subseteq Number /\ Number \subseteq Int
  /\ NULL \in Ptr /\ Header \in Ptr /\ Header \in Cell /\ Node \subseteq Cell
  /\ Cell \subseteq Ptr /\ \A p \in Ptr : p # NULL => p \in Cell
  /\ \A c \in Cell : c \in Node \/ c = Header
  /\ NULL \notin Cell /\ Header \notin Node
  /\ NULL \in Value /\ Pid \subseteq Value
  /\ Empty \in [Lvl -> Ptr] /\ \A i \in Lvl : Empty[i] = NULL
BY CallAssumption, CellAssumption, KeyAssumption DEF Number, Ptr, Cell, Value, Empty

(* A writer and a reader outside any operation are well typed.             *)
LEMMA IdleTypes == IdleWriter \in WriterType /\ IdleReader \in ReaderType
BY Bounds, Pointers DEF IdleWriter, IdleReader, WriterType, ReaderType

(* The types of the local variables of insert, remove and destroy.         *)
LEMMA WriterFields ==
  ASSUME TypeOK
  PROVE  /\ w.i \in Index /\ w.lvl \in Height /\ w.key \in Number
         /\ w.x \in Ptr /\ w.pid \in Value /\ w.update \in [Lvl -> Ptr]
         /\ w.wait \subseteq Reader
BY DEF TypeOK, WriterType

(* The types of the local variables of a read operation.                   *)
LEMMA ReaderFields ==
  ASSUME TypeOK, NEW t \in Reader
  PROVE  /\ r[t] \in ReaderType
         /\ r[t].i \in Lvl /\ r[t].key \in Number /\ r[t].x \in Ptr
         /\ r[t].next \in Ptr /\ r[t].visited \subseteq Number
         /\ r[t].cand \subseteq Node
BY DEF TypeOK, ReaderType

-----------------------------------------------------------------------------
(* The order of the nodes.                                                 *)

(* Positions are integers that order the cells as the list does: by key,   *)
(* and of two nodes with one key the one in the tree first.                *)
LEMMA Order ==
  ASSUME TypeOK
  PROVE  /\ place \in Int
         /\ \A c \in Cell : pos[c] \in Int
         /\ \A m, n \in Cell : pos[m] < pos[n] <=> Precedes(m, n)
         /\ \A m, n \in Cell :
              pos[m] = pos[n] <=> key[m] = key[n] /\ (m \in tree <=> n \in tree)
         /\ \A c \in Cell : pos[c] < place <=>
              key[c] < w.key \/ (key[c] = w.key /\ c \in tree)
         /\ \A c \in Cell : pos[c] = place <=> key[c] = w.key /\ c \notin tree
<1>1. w.key \in Int /\ \A c \in Cell : key[c] \in Int
  BY WriterFields, Pointers DEF TypeOK
<1>2. \A c \in Cell : /\ c \in tree => pos[c] = 2 * key[c]
                      /\ c \notin tree => pos[c] = 2 * key[c] + 1
  BY <1>1 DEF pos, Late
<1>3. place = 2 * w.key + 1
  BY DEF place
<1>4. place \in Int /\ \A c \in Cell : pos[c] \in Int
  BY <1>1, <1>2, <1>3
<1>5. \A m, n \in Cell : pos[m] < pos[n] <=> Precedes(m, n)
  BY <1>1, <1>2 DEF Precedes
<1>6. \A m, n \in Cell :
        pos[m] = pos[n] <=> key[m] = key[n] /\ (m \in tree <=> n \in tree)
  BY <1>1, <1>2
<1>7. \A c \in Cell : pos[c] < place <=>
        key[c] < w.key \/ (key[c] = w.key /\ c \in tree)
  BY <1>1, <1>2, <1>3
<1>8. \A c \in Cell : pos[c] = place <=> key[c] = w.key /\ c \notin tree
  BY <1>1, <1>2, <1>3
<1>9. QED
  BY <1>4, <1>5, <1>6, <1>7, <1>8

(* The header stands before every node and every key.                      *)
LEMMA HeaderFirst ==
  ASSUME TypeOK, HeapInv
  PROVE  /\ \A n \in allocated : pos[Header] < pos[n]
         /\ w.key \in Key => pos[Header] < place
<1>1. Header \in Cell /\ key[Header] = INT_MIN /\ allocated \subseteq Cell
      /\ \A n \in allocated : INT_MIN < key[n]
  BY Pointers, KeyAssumption DEF TypeOK, HeapInv
<1>2. QED
  BY <1>1, Order, KeyAssumption DEF Precedes

(* A step that changes neither keys nor the tree changes no position.      *)
LEMMA SameOrder == ASSUME UNCHANGED <<key, tree>> PROVE pos' = pos
BY DEF pos, Late

(* Every set of natural numbers but the empty one has a least element.     *)
LEMMA LeastNatural ==
  ASSUME NEW S \in SUBSET Nat, S # {}
  PROVE  \E x \in S : \A y \in S : x <= y
<1> DEFINE R == {ss \in Nat \X Nat : ss[1] < ss[2]}
<1>1. IsWellFoundedOn(R, Nat)
  BY NatLessThanWellFounded DEF R, OpToRel
<1>2. PICK x \in S : \A y \in S : ~(<<y, x>> \in R)
  BY <1>1, WFMin
<1>3. ASSUME NEW y \in S PROVE x <= y
  <2>1. x \in Nat /\ y \in Nat /\ <<y, x>> \in Nat \X Nat /\ ~(<<y, x>> \in R)
    BY <1>2
  <2>2. ~(y < x)
    BY <2>1
  <2>3. QED
    BY <2>1, <2>2
<1>4. QED
  BY <1>3

(* rb_find_le() finds the node of the tree with the largest key at or      *)
(* below k, and the header when there is none.                             *)
LEMMA FindLe ==
  ASSUME TypeOK, HeapInv, NEW k \in Number
  PROVE  /\ rb_find_le(k) \in tree \cup {Header}
         /\ key[rb_find_le(k)] <= k
         /\ rb_find_le(k) = Header => \A n \in tree : ~(key[n] <= k)
         /\ \A n \in tree : key[n] <= k => key[n] <= key[rb_find_le(k)]
<1> DEFINE C == AtOrBelow(tree, k)
<1>1. /\ C \subseteq tree /\ \A n \in tree : n \in C <=> key[n] <= k
      /\ k \in Int /\ Header \notin tree /\ \A n \in tree : key[n] \in Int
  BY Pointers DEF AtOrBelow, TypeOK
<1>2. CASE C = {}
  <2>1. rb_find_le(k) = Header
    BY <1>2 DEF rb_find_le
  <2>2. INT_MIN <= k
    BY KeyAssumption DEF Number
  <2>3. QED
    BY <1>1, <1>2, <2>1, <2>2 DEF HeapInv
<1>3. CASE C # {}
  <2> DEFINE S == {k - key[n] : n \in C}
  <2>1. S \in SUBSET Nat /\ S # {}
    BY <1>1, <1>3
  <2>2. PICK s \in S : \A y \in S : s <= y
    BY <2>1, LeastNatural
  <2>3. PICK n \in C : s = k - key[n]
    BY <2>2
  <2>4. ASSUME NEW m \in C PROVE key[m] <= key[n]
    <3>1. k - key[m] \in S /\ n \in tree /\ m \in tree
      BY <1>1
    <3>2. k - key[n] <= k - key[m]
      BY <2>2, <2>3, <3>1
    <3>3. QED
      BY <1>1, <3>1, <3>2
  <2>5. rb_find_le(k) = CHOOSE c \in C : \A m \in C : key[m] <= key[c]
    BY <1>3 DEF rb_find_le
  <2>6. rb_find_le(k) \in C /\ \A m \in C : key[m] <= key[rb_find_le(k)]
    BY <2>4, <2>5
  <2> HIDE DEF C
  <2>7. QED
    BY <1>1, <2>6
<1>4. QED
  BY <1>2, <1>3

-----------------------------------------------------------------------------
(* Steps of the writer that store nothing but its own locals.              *)

(* A writer step that stores only locals leaves the list, the tree and the *)
(* readers' standing alone.                                                *)
LEMMA WriterLocal ==
  ASSUME Inv, UNCHANGED <<level, heapVars, tree, rcuVars, linked, r>>,
         CallTypeOK',
         w' \in WriterType,
         w.pc \notin {"free", "down"}, w'.pc # "down",
         InHand \subseteq InHand', InHand' \subseteq InHand \cup linked[0]
  PROVE  /\ TypeOK' /\ HeapInv' /\ LevelInv' /\ TreeInv' /\ ChainInv'
         /\ RcuInv' /\ ReaderInv' /\ pos' = pos
<1> USE DEF heapVars, rcuVars, Inv
<1>0. pos' = pos
  BY SameOrder
<1>1. TypeOK'
  BY DEF TypeOK
<1>2. HeapInv'
  BY DEF HeapInv
<1>3. LevelInv' /\ TreeInv'
  BY <1>0 DEF LevelInv, TreeInv
<1>4. ChainInv'
  BY <1>0 DEF ChainInv, IsSuccessor
<1>5. RcuInv'
  BY DEF RcuInv, Active, Protected
<1>6. ReaderInv'
  BY DEF ReaderInv, Protected
<1>7. QED
  BY <1>0, <1>1, <1>2, <1>3, <1>4, <1>5, <1>6

(* Insertion asks the tree where to start when there may be something in   *)
(* it, removal always: the search starts at or before the key, on a cell   *)
(* that is on the highest level, and on the key's node in the tree if      *)
(* there is one.                                                           *)
LEMMA Start ==
  ASSUME Inv, w.pc = "idle", NEW op \in {"insert", "remove"}, NEW k \in Key
  PROVE  /\ StartOf(op, k) \in Ptr
         /\ StartOf(op, k) \in linked[level - 1] \cup {Header}
         /\ pos[StartOf(op, k)] < 2 * k + 1
         /\ \A n \in tree : key[n] = k => StartOf(op, k) = n
<1> DEFINE x == StartOf(op, k)
<1>1. level - 1 \in Lvl /\ k \in Number /\ k \in Int
  BY IndexSteps, Pointers DEF Inv, TypeOK, LevelInv
<1>2. /\ tree \subseteq linked[level - 1] /\ tree \subseteq linked[0]
      /\ tree \subseteq Cell /\ Header \notin tree /\ \A n \in tree : key[n] \in Int
  BY <1>1, Bounds, Pointers DEF Inv, TypeOK, TreeInv
<1>3. tree # {} => level = height[Header]
  BY DEF Inv, TreeInv, HeapInv
<1>4. x = Header \/ x = rb_find_le(k)
  BY DEF StartOf
<1>5. x \in tree \cup {Header} /\ key[x] <= k
  BY <1>1, <1>4, FindLe, KeyAssumption DEF Inv, HeapInv
<1>6. pos[x] < 2 * k + 1
  <2>1. CASE x \in tree
    <3>1. pos[x] = 2 * key[x]
      BY <1>2, <2>1 DEF pos, Late
    <3>2. QED
      BY <1>1, <1>2, <1>5, <2>1, <3>1
  <2>2. CASE x = Header
    <3>1. pos[x] = 2 * INT_MIN + 1
      BY <1>2, <2>2, Pointers DEF pos, Late, Inv, HeapInv
    <3>2. INT_MIN \in Int /\ INT_MIN < k
      BY KeyAssumption
    <3>3. QED
      BY <1>1, <3>1, <3>2
  <2>3. QED
    BY <1>5, <2>1, <2>2
<1>7. ASSUME NEW n \in tree, key[n] = k PROVE x = n
  <2>1. x = rb_find_le(k)
    BY <1>3, <1>7 DEF StartOf
  <2>2. x # Header /\ key[n] <= key[x]
    BY <1>1, <1>7, <2>1, FindLe DEF Inv
  <2>3. x \in tree /\ key[x] = key[n]
    BY <1>1, <1>2, <1>5, <1>7, <2>2
  <2>4. QED
    BY <1>2, <1>7, <2>3 DEF Inv, TreeInv
<1>8. QED
  BY <1>2, <1>5, <1>6, <1>7, Pointers

(* Entering pid_rb_skiplist_insert() or pid_rb_skiplist_remove() keeps the *)
(* invariant.                                                              *)
LEMMA BeginWriteStep ==
  ASSUME Inv, NEW op \in {"insert", "remove"}, NEW k \in Key, NEW p \in Value,
         NEW own \in Pid, shared' \subseteq Key, BeginWrite(op, k, p, own)
  PROVE  Inv'
<1>0. UNCHANGED <<level, key, tree, linked, reserved, bound, lost>> /\ w.pc = "idle"
  BY DEF BeginWrite, heapVars, callVars
<1>1. /\ level - 1 \in Index /\ level - 1 < level /\ level - 1 \in Lvl
      /\ level \in Int
  BY <1>0, IndexSteps, Bounds DEF Inv, TypeOK, LevelInv
<1>2. /\ StartOf(op, k) \in Ptr
      /\ StartOf(op, k) \in linked[level - 1] \cup {Header}
      /\ pos[StartOf(op, k)] < 2 * k + 1
      /\ \A n \in tree : key[n] = k => StartOf(op, k) = n
  BY <1>0, Start
<1> DEFINE x == StartOf(op, k)
<1>3. w' = [IdleWriter EXCEPT !.pc = "search", !.op = op, !.key = k, !.pid = p,
                              !.own = own, !.x = x, !.i = level - 1]
  BY DEF BeginWrite
<1> HIDE DEF x
<1>4. /\ w' \in WriterType
      /\ w'.pc = "search" /\ w'.op = op /\ w'.key = k /\ w'.x = x
      /\ w'.own = own
      /\ w'.i = level - 1
  BY <1>1, <1>2, <1>3, IdleTypes, Pointers DEF WriterType, IdleWriter, x
<1>5. /\ TypeOK' /\ HeapInv' /\ LevelInv' /\ TreeInv' /\ ChainInv'
      /\ RcuInv' /\ ReaderInv' /\ pos' = pos
  BY <1>0, <1>4, WriterLocal DEF BeginWrite, InHand, Inv, TypeOK
<1>6. place' = 2 * k + 1
  BY <1>4 DEF place
<1>7. WriterInv'
  <2>1. ~(level - 1 = -1) /\ \A j \in Lvl : ~(level - 1 < j /\ j < level)
    BY <1>1, Bounds
  <2>2. QED
    BY <1>0, <1>1, <1>2, <1>4, <1>5, <1>6, <2>1 DEF WriterInv, x
<1>8. QED
  BY <1>5, <1>7 DEF Inv

(* x = x->forward[i] in the search loop keeps the invariant: a node of the *)
(* tree with the key is never passed.                                      *)
LEMMA SearchAdvanceStep == ASSUME Inv, SearchAdvance PROVE Inv'
<1>0. /\ UNCHANGED <<level, key, tree, linked, reserved, bound, lost, shared>>
      /\ w.pc = "search" /\ w.i >= 0 /\ NextIsBelow
      /\ w.op \in {"insert", "remove"} /\ w.key \in Key /\ w.i < level
      /\ w.x \in linked[w.i] \cup {Header}
  BY DEF SearchAdvance, heapVars, callVars, Inv, WriterInv
<1>1. w.i \in Lvl /\ w.x \in Cell /\ w.i # -1
  <2>1. w.i \in Index /\ w.i \in Int /\ level \in Height
    BY WriterFields, Bounds DEF Inv, TypeOK
  <2>2. w.i \in Lvl /\ w.i # -1
    BY <1>0, <2>1, IndexSteps
  <2>3. QED
    BY <1>0, <2>2, Pointers DEF Inv, TypeOK
<1> DEFINE next == forward[w.x][w.i]
<1>2. next \in linked[w.i] /\ pos[w.x] < pos[next] /\ key[next] < w.key
  BY <1>0, <1>1 DEF NextIsBelow, Inv, ChainInv, IsSuccessor
<1>3. next \in Ptr /\ next \in Cell
  BY <1>1, <1>2, Pointers DEF Inv, TypeOK
<1>4. pos[next] < place
  BY <1>2, <1>3, Order DEF Inv
<1> HIDE DEF next
<1>5. /\ w' \in WriterType
      /\ w'.pc = "search" /\ w'.op = w.op /\ w'.key = w.key
      /\ w'.own = w.own /\ w.own \in Pid
      /\ w'.x = next /\ w'.i = w.i /\ w'.update = w.update
  BY <1>0, <1>3 DEF SearchAdvance, WriterType, WriterInv, Inv, TypeOK, next
<1>6. /\ TypeOK' /\ HeapInv' /\ LevelInv' /\ TreeInv' /\ ChainInv'
      /\ RcuInv' /\ ReaderInv' /\ pos' = pos
  BY <1>0, <1>5, WriterLocal DEF SearchAdvance, InHand, Inv, TypeOK
<1>7. ASSUME NEW n \in tree, key[n] = w.key PROVE FALSE
  <2>1. w.x = n
    BY <1>0, <1>7 DEF Inv, WriterInv
  <2>2. key[n] < key[next] \/ (key[n] = key[next] /\ next \notin tree)
    BY <2>1, <1>1, <1>2, <1>3, Order DEF Inv, Precedes
  <2>3. key[n] \in Int /\ key[next] \in Int
    BY <2>1, <1>1, <1>3, Pointers DEF Inv, TypeOK
  <2>4. QED
    BY <2>2, <2>3, <1>2, <1>7
<1>8. place' = place
  BY <1>5 DEF place
<1>9. \A j \in Lvl : w.i < j /\ j < level => IsPredecessor(w.update[j], j)
  BY <1>0 DEF Inv, WriterInv
<1>10. WriterInv'
  BY <1>0, <1>1, <1>2, <1>4, <1>5, <1>6, <1>7, <1>8, <1>9
     DEF WriterInv, IsPredecessor
<1>11. QED
  BY <1>6, <1>10 DEF Inv

(* update[i] = x records the last cell before the place of the key: the    *)
(* search loop keeps the invariant.                                        *)
LEMMA SearchDescendStep == ASSUME Inv, SearchDescend PROVE Inv'
<1>0. /\ UNCHANGED <<level, key, tree, linked, reserved, bound, lost, shared>>
      /\ w.pc = "search" /\ w.i >= 0 /\ ~NextIsBelow
      /\ w.op \in {"insert", "remove"} /\ w.key \in Key /\ w.i < level
      /\ w.x \in linked[w.i] \cup {Header} /\ pos[w.x] < place
      /\ \A n \in tree : key[n] = w.key => w.x = n
      /\ \A j \in Lvl : w.i < j /\ j < level => IsPredecessor(w.update[j], j)
  BY DEF SearchDescend, heapVars, callVars, Inv, WriterInv
<1>1. /\ w.i \in Lvl /\ w.i - 1 \in Index /\ w.x \in Cell /\ w.i \in Int
      /\ level \in Int
  BY <1>0, IndexSteps, WriterFields, Pointers, Bounds DEF Inv, TypeOK
<1>2. /\ w' \in WriterType
      /\ w'.pc = w.pc /\ w'.op = w.op /\ w'.key = w.key
      /\ w'.own = w.own /\ w.own \in Pid
      /\ w'.x = w.x /\ w'.i = w.i - 1
      /\ w'.update = [w.update EXCEPT ![w.i] = w.x]
  BY <1>0, <1>1, Pointers DEF SearchDescend, WriterType, WriterInv, Inv, TypeOK
<1>3. /\ TypeOK' /\ HeapInv' /\ LevelInv' /\ TreeInv' /\ ChainInv'
      /\ RcuInv' /\ ReaderInv' /\ pos' = pos
  BY <1>0, <1>2, WriterLocal DEF SearchDescend, InHand, Inv, TypeOK
<1> DEFINE next == forward[w.x][w.i]
<1>4. IsPredecessor(w.x, w.i)
  <2>1. IsSuccessor(w.x, w.i, next)
    BY <1>0, <1>1 DEF Inv, ChainInv
  <2>2. ASSUME NEW o \in linked[w.i], pos[o] < place, pos[w.x] < pos[o]
        PROVE  FALSE
    <3>0. o \in Cell
      BY <1>1, Pointers DEF Inv, TypeOK
    <3>1. CASE next = NULL
      BY <2>1, <2>2, <3>1 DEF IsSuccessor
    <3>2. CASE next # NULL
      <4>1. ~(key[next] < w.key)
        BY <1>0, <3>2 DEF NextIsBelow
      <4>2. /\ next \in linked[w.i] /\ pos[w.x] < pos[next]
            /\ o = next \/ pos[next] < pos[o]
        BY <2>1, <2>2, <3>2 DEF IsSuccessor
      <4>3. next \in Cell /\ pos[next] \in Int /\ pos[o] \in Int /\ place \in Int
        BY <4>2, <3>0, <1>1, Pointers, Order DEF Inv, TypeOK
      <4>4. pos[next] < place
        BY <2>2, <4>2, <4>3
      <4>5. key[next] = w.key /\ next \in tree
        BY <4>1, <4>3, <4>4, Order DEF Inv
      <4>6. w.x = next
        BY <4>5, <1>0
      <4>7. QED
        BY <4>2, <4>3, <4>6
    <3>3. QED
      BY <3>1, <3>2
  <2>3. QED
    BY <1>0, <2>2 DEF IsPredecessor
<1>5. w.i - 1 >= 0 => w.x \in linked[w.i - 1] \cup {Header}
  <2> SUFFICES ASSUME w.i - 1 >= 0, w.x # Header PROVE w.x \in linked[w.i - 1]
    OBVIOUS
  <2>1. w.i - 1 \in Lvl /\ w.x \in linked[w.i] \ InHand
    BY <1>0, <1>1, IndexSteps, Bounds DEF InHand
  <2>2. w.i < height[w.x] /\ height[w.x] \in Int
    <3>1. w.i < height[w.x]
      BY <2>1, <1>1 DEF Inv, LevelInv
    <3>2. height[w.x] \in Height
      BY <1>1 DEF Inv, TypeOK
    <3>3. QED
      BY <3>1, <3>2, Bounds
  <2>3. QED
    BY <2>1, <2>2, <1>1 DEF Inv, LevelInv
<1>6. place' = place
  BY <1>2 DEF place
<1>7. WriterInv'
  <2>1. w.update \in [Lvl -> Ptr]
    BY WriterFields DEF Inv
  <2>2. ASSUME NEW j \in Lvl, w.i - 1 < j, j < level
        PROVE  IsPredecessor(w'.update[j], j)
    <3>1. CASE j = w.i
      BY <3>1, <1>1, <1>2, <1>4, <2>1
    <3>2. CASE j # w.i
      <4>1. j \in Int /\ w.i < j
        BY <2>2, <3>2, <1>1, Bounds
      <4>2. w'.update[j] = w.update[j]
        BY <3>2, <1>2, <2>1
      <4>3. QED
        BY <4>1, <4>2, <2>2, <1>0
    <3>3. QED
      BY <3>1, <3>2
  <2>3. \A j \in Lvl : w'.i < j /\ j < level' => IsPredecessor(w.update[j], j)'
    BY <1>0, <1>2, <1>3, <1>6, <2>2 DEF IsPredecessor
  <2>4. ASSUME w'.i = -1 PROVE w'.x = w'.update[0]
    <3>1. w.i = 0
      BY <1>1, <1>2, <2>4, Bounds
    <3>2. QED
      BY <1>1, <1>2, <2>1, <3>1
  <2>5. w.i - 1 < level
    BY <1>0, <1>1
  <2>6. QED
    BY <1>0, <1>2, <1>3, <1>5, <1>6, <2>3, <2>4, <2>5 DEF WriterInv
<1>8. QED
  BY <1>3, <1>7 DEF Inv

(* The search has found the last cell at level 0 before the place of the   *)
(* key.  The node after it is never in the tree, even if it has the key.   *)
LEMMA AtCandidate ==
  ASSUME Inv, NEW op, SearchDone(op)
  PROVE  /\ w.x \in linked[0] \cup {Header} /\ w.x \in Cell
         /\ w.x = w.update[0]
         /\ IsPredecessor(w.x, 0)
         /\ Candidate \in Ptr
         /\ Candidate # NULL => Candidate \in linked[0]
         /\ Found => Candidate \notin tree
         /\ ~Found => \A o \in linked[0] : pos[o] # place
         /\ \A j \in Lvl : j < level => IsPredecessor(w.update[j], j)
         /\ w.key \in Key /\ w.pc = "search" /\ w.i = -1
<1>0. /\ w.pc = "search" /\ w.i = -1 /\ w.key \in Key
      /\ \A j \in Lvl : j < level => IsPredecessor(w.update[j], j)
  <2>1. w.pc = "search" /\ w.i = -1
    BY DEF SearchDone
  <2>2. \A j \in Lvl : -1 < j
    BY Bounds
  <2>3. QED
    BY <2>1, <2>2 DEF Inv, WriterInv
<1>1. w.x = w.update[0] /\ IsPredecessor(w.x, 0)
  BY <1>0, Bounds DEF Inv, WriterInv, LevelInv, TypeOK
<1>2. w.x \in linked[0] \cup {Header} /\ w.x \in Cell
  BY <1>1, Bounds, Pointers DEF IsPredecessor, Inv, TypeOK
<1>3. IsSuccessor(w.x, 0, Candidate) /\ Candidate \in Ptr
  BY <1>0, <1>2, Bounds DEF Inv, ChainInv, Candidate, TypeOK
<1>4. Candidate # NULL => /\ Candidate \in linked[0] /\ Candidate \in Cell
                          /\ pos[w.x] < pos[Candidate]
  BY <1>3, Pointers DEF IsSuccessor
<1>5. Candidate # NULL => ~(pos[Candidate] < place)
  BY <1>1, <1>4 DEF IsPredecessor
<1>6. Found => Candidate \notin tree
  BY <1>4, <1>5, Order DEF Found, Inv
<1>7. ASSUME ~Found, NEW o \in linked[0], pos[o] = place PROVE FALSE
  <2>1. pos[w.x] < pos[o] /\ o \in Cell
    BY <1>1, <1>7, Bounds, Pointers DEF IsPredecessor, Inv, TypeOK
  <2>2. Candidate # NULL /\ (o = Candidate \/ pos[Candidate] < pos[o])
    BY <1>3, <2>1 DEF IsSuccessor
  <2>3. o = Candidate
    BY <1>5, <1>7, <2>2
  <2>4. key[Candidate] = w.key
    BY <1>7, <2>1, <2>3, Order DEF Inv
  <2>5. QED
    BY <1>7, <2>2, <2>4 DEF Found
<1>8. QED
  BY <1>0, <1>1, <1>2, <1>3, <1>4, <1>6, <1>7

(* pid_rb_skiplist_remove() of a number that is not there, and the failed  *)
(* allocation of a node, return with the list at most raised.              *)
LEMMA BackToIdle ==
  ASSUME Inv, w' = IdleWriter, w.pc = "search",
         level' \in Height, level <= level',
         CallTypeOK',
         UNCHANGED <<heapVars, tree, rcuVars, linked, r>>
  PROVE  Inv'
<1> USE DEF heapVars, rcuVars
<1>1. w' \in WriterType /\ w'.pc = "idle"
  BY IdleTypes DEF IdleWriter
<1>2. level \in Height /\ level \in Int /\ level' \in Int
      /\ level' <= PID_SL_MAX_LEVEL
  BY Bounds DEF Inv, TypeOK
<1>3. pos' = pos
  BY SameOrder
<1>4. TypeOK'
  BY <1>1 DEF Inv, TypeOK
<1>5. InHand = {} /\ InHand' = {}
  BY <1>1 DEF InHand
<1>6. HeapInv' /\ ChainInv'
  BY <1>1, <1>3, <1>5 DEF Inv, HeapInv, ChainInv, IsSuccessor
<1>7. LevelInv'
  <2>1. level >= 1 /\ level' >= 1
    BY <1>2 DEF Inv, LevelInv
  <2>2. \A i \in Lvl : level' <= i => level <= i
    BY <1>2, Bounds
  <2>3. QED
    BY <1>1, <1>3, <1>5, <2>1, <2>2 DEF Inv, LevelInv
<1>8. TreeInv'
  <2>1. tree # {} => level' = PID_SL_MAX_LEVEL
    BY <1>2 DEF Inv, TreeInv
  <2>2. QED
    BY <2>1 DEF Inv, TreeInv
<1>9. WriterInv'
  BY <1>1 DEF WriterInv
<1>10. RcuInv' /\ ReaderInv'
  BY <1>1 DEF Inv, RcuInv, ReaderInv, Active, Protected
<1>11. QED
  BY <1>4, <1>6, <1>7, <1>8, <1>9, <1>10 DEF Inv

(* The caller of pid_rb_skiplist_remove() is done with the number.         *)
LEMMA UnbindTypes ==
  ASSUME TypeOK, Unbind
  PROVE  CallTypeOK'
BY DEF TypeOK, Unbind

(* The caller of pid_rb_skiplist_insert() has the number then, reserved or *)
(* published.                                                              *)
LEMMA BindTypes ==
  ASSUME TypeOK, Bind, w.own \in Pid, lost' \subseteq Key
  PROVE  CallTypeOK'
BY DEF TypeOK, Bind

(* pid_rb_skiplist_remove() without a node returns, and the invariant      *)
(* holds.                                                                  *)
LEMMA RemoveAbsentStep == ASSUME Inv, RemoveAbsent PROVE Inv'
<1>1. /\ w' = IdleWriter /\ w.pc = "search" /\ level' = level /\ Unbind
      /\ UNCHANGED <<heapVars, tree, rcuVars, linked, r>>
  BY DEF RemoveAbsent, SearchDone
<1>2. level \in Height /\ level <= level'
  BY <1>1, Bounds DEF Inv, TypeOK
<1>3. QED
  BY <1>1, <1>2, BackToIdle, UnbindTypes DEF Inv

(* sl->level is at least the height of the node the insertion has drawn.   *)
LEMMA RaiseLevel ==
  ASSUME TypeOK, NEW lvl \in 1 .. PID_SL_MAX_LEVEL, Raise(lvl)
  PROVE  /\ level' \in Height /\ level' \in Int /\ lvl \in Int /\ level \in Int
         /\ lvl >= 1 /\ lvl <= level' /\ level <= level' /\ lvl \in Height
         /\ level' = level \/ level' = lvl
<1>1. level \in Height /\ level \in Int /\ lvl \in Height /\ lvl \in Int /\ lvl >= 1
  BY Bounds, IndexSteps DEF TypeOK
<1>2. QED
  BY <1>1 DEF Raise

(* -ENOMEM keeps the invariant, with the list raised.                      *)
LEMMA InsertNoMemoryStep == ASSUME Inv, InsertNoMemory PROVE Inv'
<1>1. /\ w' = IdleWriter /\ w.pc = "search" /\ w.key \in Key /\ w.pid \in Value
      /\ UNCHANGED <<heapVars, tree, rcuVars, linked, r>>
  BY AtCandidate, WriterFields DEF InsertNoMemory, SearchDone, Inv
<1>2. level' \in Height /\ level <= level'
  BY RaiseLevel DEF InsertNoMemory, Inv
<1>3. CallTypeOK'
  <2>1. w.own \in Pid
    BY <1>1 DEF Inv, WriterInv
  <2>2. CASE w.pid = NULL
    BY <2>2 DEF InsertNoMemory, callVars, Inv, TypeOK
  <2>3. CASE w.pid # NULL
    BY <1>1, <2>1, <2>3, BindTypes DEF InsertNoMemory, Inv, TypeOK
  <2>4. QED
    BY <2>2, <2>3
<1>4. QED
  BY <1>1, <1>2, <1>3, BackToIdle

(* pid_rb_skiplist_remove() with the node at hand: the towers tell which   *)
(* levels it stands on.  The node is not in the tree, which stays as it is.*)
LEMMA RemoveFoundStep == ASSUME Inv, RemoveFound PROVE Inv'
<1>1. /\ Candidate \in linked[0] /\ key[Candidate] = w.key
      /\ Candidate \notin tree /\ w.pc = "search" /\ w.i = -1
      /\ \A j \in Lvl : j < level => IsPredecessor(w.update[j], j)
  BY AtCandidate DEF RemoveFound, Found
<1>2. Candidate \in Node
  BY <1>1, Bounds DEF Inv, TypeOK
<1>3. /\ UNCHANGED <<level, heapVars, tree, rcuVars, linked, r>>
      /\ UNCHANGED <<level, key, height, allocated, dying, tree, linked, reserved, bound, lost, shared>>
  BY <1>1 DEF RemoveFound, callVars, heapVars, rcuVars
<1>4. /\ w' \in WriterType
      /\ w'.pc = "unlink" /\ w'.key = w.key /\ w'.x = Candidate /\ w'.i = 0
      /\ w'.update = w.update
  BY <1>2, Bounds, Pointers DEF RemoveFound, WriterType, Inv, TypeOK
<1>5. /\ TypeOK' /\ HeapInv' /\ LevelInv' /\ TreeInv' /\ ChainInv'
      /\ RcuInv' /\ ReaderInv' /\ pos' = pos
  <2>1. InHand \subseteq InHand' /\ InHand' \subseteq InHand \cup linked[0]
    BY <1>1, <1>4 DEF InHand
  <2>2. CallTypeOK'
    BY <1>3 DEF Inv, TypeOK
  <2>3. QED
    BY <1>1, <1>3, <1>4, <2>1, <2>2, WriterLocal
<1>6. /\ Candidate \in allocated \ dying
      /\ \A j \in Lvl : Candidate \in linked[j] <=> j < height[Candidate]
  BY <1>1, Bounds DEF Inv, HeapInv, LevelInv, InHand
<1>7. place' = place
  BY <1>4 DEF place
<1>8. level >= 0 /\ \A j \in Lvl : 0 <= j
  BY Bounds DEF Inv, TypeOK
<1>9. WriterInv'
  BY <1>1, <1>3, <1>4, <1>5, <1>6, <1>7, <1>8 DEF WriterInv, IsPredecessor
<1>10. QED
  BY <1>5, <1>9 DEF Inv

(* synchronize_rcu() in pid_rb_skiplist_destroy() starts waiting for the   *)
(* active readers.                                                         *)
LEMMA DestroySyncStep == ASSUME Inv, DestroySync PROVE Inv'
<1>1. w' \in WriterType /\ w'.pc = "sync" /\ w'.wait = Active
  BY IdleTypes DEF DestroySync, WriterType, IdleWriter, Active
<1>2. /\ TypeOK' /\ HeapInv' /\ LevelInv' /\ TreeInv' /\ ChainInv'
      /\ RcuInv' /\ ReaderInv'
  BY <1>1, WriterLocal DEF DestroySync, InHand, callVars, Inv, TypeOK
<1>3. WriterInv'
  BY <1>1 DEF WriterInv, DestroySync, Active
<1>4. QED
  BY <1>2, <1>3 DEF Inv

(* After synchronize_rcu() no reader is left and the walk starts at the    *)
(* first node.                                                             *)
LEMMA DestroyWalkStep == ASSUME Inv, DestroyWalk PROVE Inv'
<1>1. forward[Header][0] \in Ptr /\ IsSuccessor(Header, 0, forward[Header][0])
  BY Bounds, Pointers DEF Inv, TypeOK, ChainInv, DestroyWalk
<1>2. /\ w' \in WriterType /\ w'.pc = "free" /\ w'.x = forward[Header][0]
  BY <1>1 DEF DestroyWalk, WriterType, Inv, TypeOK
<1>3. /\ TypeOK' /\ HeapInv' /\ LevelInv' /\ TreeInv' /\ ChainInv'
      /\ RcuInv' /\ ReaderInv' /\ pos' = pos
  BY <1>2, WriterLocal DEF DestroyWalk, InHand, callVars, Inv, TypeOK
<1>4. Active = {}
  BY DEF DestroyWalk, Inv, WriterInv
<1>5. \A m \in linked[0] : IsSuccessor(m, 0, forward[m][0])
  BY Bounds DEF Inv, ChainInv, DestroyWalk
<1>6. \A o \in linked[0] : pos[Header] < pos[o]
  BY Bounds, HeaderFirst DEF Inv, HeapInv
<1>7. WriterInv'
  BY <1>1, <1>2, <1>3, <1>4, <1>5, <1>6
     DEF WriterInv, IsSuccessor, DestroyWalk, Active, heapVars
<1>8. QED
  BY <1>3, <1>7 DEF Inv

-----------------------------------------------------------------------------
(* Steps of a reader.                                                      *)

(* What ReaderInv says of reader t when its locals are l.                  *)
Standing(t, l) ==
  /\ l.pc = "tree" => l.cand \subseteq tree
  /\ l.pc # "tree" => l.cand = {}
  /\ l.pc \in {"walk", "last"} => Protected(t, l.x) /\ l.i < height[l.x]
  /\ l.pc \in {"last", "eval"} => l.i = 0
  /\ l.pc = "eval" /\ l.next # NULL => Protected(t, l.next) /\ 0 < height[l.next]

(* A reader step that ends on a protected cell keeps the invariant.        *)
LEMMA ReaderLocal ==
  ASSUME Inv, NEW t \in Reader, NEW l \in ReaderType, Moves(t, l),
         l.pc # "idle", Standing(t, l),
         r[t].pc # "idle" \/ w.pc \notin {"sync", "free", "down"}
  PROVE  Inv'
<1>1. UNCHANGED <<level, key, pid, height, forward, tree, allocated, dying, gp,
                  linked, reserved, bound, lost, shared, w>>
  BY DEF Moves, heapVars, rcuVars, callVars
<1>2. r' = [r EXCEPT ![t] = l] /\ r' \in [Reader -> ReaderType]
  BY DEF Moves, Inv, TypeOK
<1>3. Active \subseteq Active' /\ Active' \subseteq Active \cup {t}
  BY <1>2 DEF Active, Inv, TypeOK
<1>4. w.pc \in {"sync", "free", "down"} => Active' = Active
  BY <1>3 DEF Active
<1>5. w.pc \notin {"free", "down"}
  BY DEF Inv, WriterInv, Active
<1>0. pos' = pos
  BY <1>1, SameOrder
<1>6. TypeOK'
  BY <1>1, <1>2 DEF Inv, TypeOK
<1>7. HeapInv' /\ LevelInv' /\ TreeInv' /\ ChainInv'
  BY <1>0, <1>1 DEF Inv, HeapInv, LevelInv, TreeInv, ChainInv, IsSuccessor, InHand
<1>8. WriterInv'
  BY <1>0, <1>1, <1>4, <1>5 DEF Inv, WriterInv, IsPredecessor, place
<1>9. RcuInv'
  BY <1>1, <1>3 DEF Inv, RcuInv, Protected
<1>10. ReaderInv'
  BY <1>1, <1>2 DEF Inv, ReaderInv, Protected, Standing, TypeOK
<1>11. QED
  BY <1>6, <1>7, <1>8, <1>9, <1>10 DEF Inv

(* A cell a protected cell points to is protected, at the same index.      *)
LEMMA Closure ==
  ASSUME Inv, NEW t \in Reader, r[t].pc # "idle", NEW c \in Cell,
         Protected(t, c), NEW i \in Lvl, forward[c][i] # NULL
  PROVE  Protected(t, forward[c][i]) /\ i < height[forward[c][i]]
<1>1. w.pc # "free"
  BY DEF Inv, WriterInv, Active
<1>2. c \in (allocated \ dying) \cup {Header} \/ (c \in dying /\ t \in gp[c])
  BY DEF Protected
<1>3. QED
  BY <1>1, <1>2 DEF Inv, RcuInv, Protected

(* The cell a walking reader stands on, and the one it loads, are          *)
(* protected.                                                              *)
LEMMA ReaderX ==
  ASSUME Inv, NEW t \in Reader, r[t].pc \in {"walk", "last"}
  PROVE  /\ r[t].x \in Cell /\ Protected(t, r[t].x) /\ r[t].i < height[r[t].x]
         /\ r[t].i \in Lvl /\ r[t] \in ReaderType /\ r[t].cand = {}
         /\ Loaded(t) \in Ptr
         /\ Loaded(t) # NULL => Protected(t, Loaded(t)) /\ r[t].i < height[Loaded(t)]
<1>1. Protected(t, r[t].x) /\ r[t].i < height[r[t].x] /\ r[t].cand = {}
  BY DEF Inv, ReaderInv
<1>2. r[t].x \in Cell /\ r[t].i \in Lvl /\ r[t] \in ReaderType
  BY <1>1, ReaderFields, Pointers DEF Inv, TypeOK, Protected
<1>3. Loaded(t) \in Ptr
  BY <1>2 DEF Inv, TypeOK, Loaded
<1>4. QED
  BY <1>1, <1>2, <1>3, Closure DEF Loaded

(* A reader that enters is handed the tree as it is.                       *)
LEMMA ReadBeginStep ==
  ASSUME Inv, NEW t \in Reader, NEW c \in ReadCalls, ReadBegin(t, c[2])
  PROVE  Inv'
<1> DEFINE seen == Binding(c[2])
           stable == {j \in Key : j >= c[2] /\ Binding(j) # {}}
           l == [IdleReader EXCEPT !.pc = "tree", !.key = c[2], !.cand = tree,
                                   !.seen = seen, !.stable = stable]
<1>1. c[2] \in Number /\ tree \in SUBSET Node
  BY CallAssumption, Pointers DEF Inv, TypeOK
<1>2. seen \in SUBSET Pid /\ stable \in SUBSET Key
  BY Bounds, Pointers DEF Binding, Findable, Inv, TypeOK, Value
<1>3. Moves(t, l) /\ w.pc \notin {"sync", "free", "down"}
  BY DEF ReadBegin
<1> HIDE DEF seen, stable
<1>4. l \in ReaderType
  BY <1>1, <1>2, IdleTypes, Pointers DEF ReaderType
<1>5. l.pc = "tree" /\ l.cand = tree
  BY DEF IdleReader
<1> HIDE DEF l
<1>6. Standing(t, l)
  BY <1>5 DEF Standing
<1>7. QED
  BY <1>3, <1>4, <1>5, <1>6, ReaderLocal

(* Whatever node a search of the tree ends on, torn or not, it is a node   *)
(* of the tree, which stands on every level, or the header.                *)
LEMMA ReadTreeStep == ASSUME Inv, NEW t \in Reader, ReadTree(t) PROVE Inv'
<1>1. /\ r[t].pc = "tree" /\ r[t].cand \subseteq tree /\ r[t] \in ReaderType
      /\ r[t].key \in Number /\ w.pc \notin {"free", "down"}
  BY ReaderFields DEF ReadTree, Inv, ReaderInv, WriterInv, Active
<1>2. PICK x \in IF r[t].torn THEN AtOrBelow(r[t].cand, r[t].key) \cup {Header}
                 ELSE {rb_find_le(r[t].key)} :
        Moves(t, [r[t] EXCEPT !.pc = "walk", !.x = x, !.i = level - 1,
                              !.cand = {}])
  BY DEF ReadTree
<1>3. x \in tree \cup {Header}
  <2>1. rb_find_le(r[t].key) \in tree \cup {Header}
    BY <1>1, FindLe DEF Inv
  <2>2. QED
    BY <1>1, <1>2, <2>1 DEF AtOrBelow
<1>4. level - 1 \in Lvl /\ x \in Ptr /\ level \in Int
  <2>1. level \in Height /\ level >= 1
    BY <1>1 DEF Inv, TypeOK, LevelInv
  <2>2. x \in Ptr
    BY <1>3, Pointers DEF Inv, TypeOK
  <2>3. QED
    BY <2>1, <2>2, IndexSteps, Bounds
<1>5. height[x] = PID_SL_MAX_LEVEL /\ Protected(t, x)
  <2>1. CASE x = Header
    BY <2>1 DEF Inv, HeapInv, Protected
  <2>2. CASE x \in tree
    BY <2>2, Bounds DEF Inv, HeapInv, TreeInv, Protected
  <2>3. QED
    BY <1>3, <2>1, <2>2
<1> DEFINE l == [r[t] EXCEPT !.pc = "walk", !.x = x, !.i = level - 1, !.cand = {}]
<1>6. l \in ReaderType
  BY <1>1, <1>4 DEF ReaderType
<1>7. l.pc = "walk" /\ l.x = x /\ l.i = level - 1 /\ l.cand = {}
  BY <1>1 DEF ReaderType
<1>8. Moves(t, l)
  BY <1>2
<1> HIDE DEF l
<1>9. Standing(t, l)
  BY <1>4, <1>5, <1>7, Bounds DEF Standing
<1>10. QED
  BY <1>1, <1>6, <1>7, <1>8, <1>9, ReaderLocal

(* x = next in the descent of a reader keeps the invariant.                *)
LEMMA ReadAdvanceStep == ASSUME Inv, NEW t \in Reader, ReadAdvance(t) PROVE Inv'
<1> DEFINE l == [r[t] EXCEPT !.x = Loaded(t)]
<1>1. r[t].pc = "walk" /\ Loaded(t) # NULL
  BY DEF ReadAdvance, Before
<1>2. l \in ReaderType
  BY <1>1, ReaderX DEF ReaderType
<1>3. l.pc = "walk" /\ l.x = Loaded(t) /\ l.i = r[t].i /\ l.cand = {}
  BY <1>1, ReaderX DEF ReaderType
<1>4. Standing(t, l)
  BY <1>1, <1>3, ReaderX DEF Standing
<1> HIDE DEF l
<1>5. Moves(t, l)
  BY DEF ReadAdvance, l
<1>6. QED
  BY <1>1, <1>2, <1>3, <1>4, <1>5, ReaderLocal

(* Going down a level in the descent of a reader keeps the invariant.      *)
LEMMA ReadDescendStep == ASSUME Inv, NEW t \in Reader, ReadDescend(t) PROVE Inv'
<1> DEFINE l == IF r[t].i > 0 THEN [r[t] EXCEPT !.i = @ - 1]
                              ELSE [r[t] EXCEPT !.pc = "last"]
<1>1. r[t].pc = "walk"
  BY DEF ReadDescend
<1>0. /\ r[t].i \in Lvl /\ r[t].i \in Int /\ r[t].i >= 0
      /\ height[r[t].x] \in Int /\ r[t].i < height[r[t].x]
  <2>1. r[t].x \in Cell /\ r[t].i \in Lvl /\ r[t].i < height[r[t].x]
    BY <1>1, ReaderX
  <2>2. QED
    BY <2>1, Bounds DEF Inv, TypeOK
<1>2. CASE r[t].i > 0
  <2>1. r[t].i - 1 \in Lvl /\ r[t].i - 1 < height[r[t].x]
    BY <1>0, <1>2, IndexSteps
  <2>2. l \in ReaderType
    BY <1>1, <1>2, <2>1, ReaderX DEF ReaderType
  <2>3. l.pc = "walk" /\ l.x = r[t].x /\ l.i = r[t].i - 1 /\ l.cand = {}
    BY <1>1, <1>2, ReaderX DEF ReaderType
  <2> HIDE DEF l
  <2>4. Standing(t, l)
    BY <1>1, <2>1, <2>3, ReaderX DEF Standing
  <2>5. Moves(t, l)
    BY <1>2 DEF ReadDescend, l
  <2>6. QED
    BY <1>1, <2>2, <2>3, <2>4, <2>5, ReaderLocal
<1>3. CASE ~(r[t].i > 0)
  <2>1. r[t].i = 0
    BY <1>0, <1>3
  <2>2. l \in ReaderType
    BY <1>1, <1>3, ReaderX DEF ReaderType
  <2>3. l.pc = "last" /\ l.x = r[t].x /\ l.i = r[t].i /\ l.cand = {}
    BY <1>1, <1>3, ReaderX DEF ReaderType
  <2> HIDE DEF l
  <2>4. Standing(t, l)
    BY <1>1, <2>1, <2>3, ReaderX DEF Standing
  <2>5. Moves(t, l)
    BY <1>3 DEF ReadDescend, l
  <2>6. QED
    BY <1>1, <2>2, <2>3, <2>4, <2>5, ReaderLocal
<1>4. QED
  BY <1>2, <1>3

(* The second load of x->forward[0] keeps the invariant.                   *)
LEMMA ReadLastStep == ASSUME Inv, NEW t \in Reader, ReadLast(t) PROVE Inv'
<1> DEFINE l == [r[t] EXCEPT !.next = Loaded(t), !.pc = "eval"]
<1>1. r[t].pc = "last" /\ r[t].i = 0
  BY DEF ReadLast, Inv, ReaderInv
<1>2. l \in ReaderType
  <2>1. r[t] \in ReaderType /\ Loaded(t) \in Ptr
    BY <1>1, ReaderX
  <2>2. QED
    BY <2>1 DEF ReaderType
<1>3. l.pc = "eval" /\ l.next = Loaded(t) /\ l.i = 0 /\ l.cand = {}
  BY <1>1, ReaderX DEF ReaderType
<1>4. Standing(t, l)
  BY <1>1, <1>3, ReaderX DEF Standing
<1> HIDE DEF l
<1>5. Moves(t, l)
  BY DEF ReadLast, l
<1>6. QED
  BY <1>1, <1>2, <1>3, <1>4, <1>5, ReaderLocal

(* The node a reader evaluates is allocated and protected for it.          *)
LEMMA ReaderNext ==
  ASSUME Inv, NEW t \in Reader, r[t].pc = "eval"
  PROVE  /\ r[t] \in ReaderType /\ r[t].next \in Ptr /\ r[t].i = 0
         /\ r[t].cand = {}
         /\ r[t].next # NULL =>
              /\ r[t].next \in Cell /\ Protected(t, r[t].next)
              /\ 0 < height[r[t].next]
              /\ pid[r[t].next] \in Value /\ key[r[t].next] \in Number
BY ReaderFields, Pointers DEF Inv, ReaderInv, TypeOK

(* A read operation that returns keeps the invariant.                      *)
LEMMA ReturnsStep ==
  ASSUME Inv, NEW t \in Reader, r[t].pc = "eval", NEW op \in ReaderOp,
         NEW res \in Value, Returns(t, op, res)
  PROVE  Inv'
<1> DEFINE e == IF op = "lookup" THEN r[t] ELSE IdleReader
           l == [IdleReader EXCEPT !.pc = "done", !.op = op, !.key = r[t].key,
                   !.res = res, !.seen = e.seen, !.raced = e.raced, !.torn = e.torn,
                   !.stable = e.stable \cap {r[t].key}]
<1>1. Moves(t, l)
  BY DEF Returns
<1>2. e \in ReaderType /\ r[t].key \in Number
  BY ReaderNext, ReaderFields, IdleTypes DEF Inv
<1> HIDE DEF e
<1>3. /\ e.seen \in SUBSET Pid /\ e.raced \in BOOLEAN /\ e.torn \in BOOLEAN
      /\ e.stable \cap {r[t].key} \in SUBSET Key
  BY <1>2 DEF ReaderType
<1> DEFINE stable == e.stable \cap {r[t].key}
<1> HIDE DEF stable
<1>4. l \in ReaderType
  BY <1>2, <1>3, IdleTypes DEF ReaderType, stable
<1>5. l.pc = "done" /\ l.cand = {}
  BY DEF IdleReader
<1> HIDE DEF l
<1>6. Standing(t, l)
  BY <1>5 DEF Standing
<1>7. QED
  BY <1>1, <1>4, <1>5, <1>6, ReaderLocal

(* The return of pid_rb_skiplist_lookup_rcu() keeps the invariant.         *)
LEMMA LookupStep ==
  ASSUME Inv, NEW t \in Reader, pid_rb_skiplist_lookup_rcu(t) PROVE Inv'
<1> DEFINE res == IF KeyAt(r[t].next) = {r[t].key} THEN pid[r[t].next] ELSE NULL
<1>1. r[t].pc = "eval" /\ Returns(t, "lookup", res)
  BY DEF pid_rb_skiplist_lookup_rcu, AtEnd
<1>2. res \in Value
  BY <1>1, ReaderNext, Pointers DEF KeyAt
<1> HIDE DEF res
<1>3. QED
  BY <1>1, <1>2, ReturnsStep DEF ReaderOp

(* The return of pid_rb_skiplist_find_ge_rcu() keeps the invariant.        *)
LEMMA FindGeStep ==
  ASSUME Inv, NEW t \in Reader, pid_rb_skiplist_find_ge_rcu(t) PROVE Inv'
<1> DEFINE res == IF r[t].next = NULL THEN NULL ELSE pid[r[t].next]
<1>1. r[t].pc = "eval" /\ Returns(t, "find_ge", res)
  BY DEF pid_rb_skiplist_find_ge_rcu, AtEnd
<1>2. res \in Value
  BY <1>1, ReaderNext, Pointers
<1> HIDE DEF res
<1>3. QED
  BY <1>1, <1>2, ReturnsStep DEF ReaderOp

(* A round of pid_rb_skiplist_iter_next_rcu() keeps the invariant.         *)
LEMMA IterNextStep ==
  ASSUME Inv, NEW t \in Reader, pid_rb_skiplist_iter_next_rcu(t) PROVE Inv'
<1>1. r[t].pc = "eval"
  BY DEF pid_rb_skiplist_iter_next_rcu, AtEnd
<1>0. /\ r[t] \in ReaderType /\ r[t].next \in Ptr /\ r[t].cand = {}
      /\ NULL \in Ptr /\ NULL \in Value /\ "iter" \in {"none"} \cup ReaderOp
  BY <1>1, ReaderNext, Pointers DEF ReaderOp
<1>2. CASE IterEnds(t) \/ pid[r[t].next] = NULL
  <2> DEFINE hole == ~IterEnds(t)
  <2> DEFINE l == [r[t] EXCEPT !.op = "iter", !.hole = hole, !.res = NULL,
                               !.x = NULL, !.next = NULL, !.pc = "done"]
  <2>0. hole \in BOOLEAN
    OBVIOUS
  <2> HIDE DEF hole
  <2>1. l \in ReaderType
    BY <1>0, <2>0 DEF ReaderType
  <2>2. l.pc = "done" /\ l.cand = {}
    BY <1>0, <1>1, ReaderNext DEF ReaderType
  <2> HIDE DEF l
  <2>3. Standing(t, l)
    BY <2>2 DEF Standing
  <2>4. Moves(t, l)
    BY <1>2 DEF pid_rb_skiplist_iter_next_rcu, l, hole
  <2>5. QED
    BY <1>1, <2>1, <2>2, <2>3, <2>4, ReaderLocal
<1>3. CASE ~(IterEnds(t) \/ pid[r[t].next] = NULL)
  <2> DEFINE visited == r[t].visited \cup {key[r[t].next]}
             l == [r[t] EXCEPT !.op = "iter", !.visited = visited,
                               !.res = pid[r[t].next],
                               !.x = r[t].next, !.next = NULL, !.pc = "last"]
  <2>1. r[t].next # NULL
    BY <1>3 DEF IterEnds
  <2>0. visited \in SUBSET Number /\ pid[r[t].next] \in Value
    BY <1>1, <2>1, ReaderNext, ReaderFields DEF Inv
  <2> HIDE DEF visited
  <2>2. l \in ReaderType
    BY <1>0, <2>0 DEF ReaderType
  <2>3. l.pc = "last" /\ l.x = r[t].next /\ l.i = r[t].i /\ l.cand = {}
    BY <1>0, <1>1, ReaderNext DEF ReaderType
  <2> HIDE DEF l
  <2>4. Standing(t, l)
    BY <1>1, <2>1, <2>3, ReaderNext DEF Standing
  <2>5. Moves(t, l)
    BY <1>3 DEF pid_rb_skiplist_iter_next_rcu, l, visited
  <2>6. QED
    BY <1>1, <2>2, <2>3, <2>4, <2>5, ReaderLocal
<1>4. QED
  BY <1>2, <1>3

(* rcu_read_unlock() releases the grace periods and keeps the invariant.   *)
LEMMA UnlockStep == ASSUME Inv, NEW t \in Reader, rcu_read_unlock(t) PROVE Inv'
<1>1. UNCHANGED <<level, key, pid, height, forward, tree, allocated, dying, linked,
                  reserved, bound, lost, shared>>
  BY DEF rcu_read_unlock, heapVars, callVars
<1>2. r' = [r EXCEPT ![t] = IdleReader] /\ r' \in [Reader -> ReaderType]
  BY IdleTypes DEF rcu_read_unlock, Inv, TypeOK
<1>3. /\ w' \in WriterType
      /\ w'.pc = w.pc /\ w'.op = w.op /\ w'.key = w.key /\ w'.pid = w.pid
      /\ w'.x = w.x /\ w'.i = w.i /\ w'.lvl = w.lvl /\ w'.update = w.update
      /\ w'.wait = w.wait \ {t} /\ w'.own = w.own
  BY DEF rcu_read_unlock, WriterType, Inv, TypeOK
<1>4. gp' \in [Node -> SUBSET Reader] /\ \A n \in Node : gp'[n] = gp[n] \ {t}
  BY DEF rcu_read_unlock, Inv, TypeOK
<1>5. Active' = Active \ {t}
  BY <1>2 DEF Active, IdleReader, Inv, TypeOK
<1>0. pos' = pos /\ place' = place
  BY <1>1, <1>3, SameOrder DEF place
<1>6. TypeOK'
  BY <1>1, <1>2, <1>3, <1>4 DEF Inv, TypeOK
<1>7. HeapInv' /\ LevelInv' /\ TreeInv' /\ ChainInv'
  BY <1>0, <1>1, <1>3
     DEF Inv, HeapInv, LevelInv, TreeInv, ChainInv, IsSuccessor, InHand
<1>8. WriterInv'
  BY <1>0, <1>1, <1>3, <1>5 DEF Inv, WriterInv, IsPredecessor, IsSuccessor
<1>9. RcuInv'
  BY <1>1, <1>3, <1>4, <1>5 DEF Inv, RcuInv, Protected, TypeOK
<1>10. ReaderInv'
  BY <1>1, <1>2, <1>4 DEF Inv, ReaderInv, Protected, TypeOK, IdleReader
<1>11. QED
  BY <1>6, <1>7, <1>8, <1>9, <1>10 DEF Inv

-----------------------------------------------------------------------------
(* Steps of the writer that change the list or the tree.                   *)

(* The history a reader keeps of a store is no part of its locals.         *)
LEMMA ObserveFrame ==
  ASSUME TypeOK, NEW k \in Key, NEW v \in Value, NEW b \in BOOLEAN,
         Observe(k, v, b)
  PROVE  /\ r' \in [Reader -> ReaderType]
         /\ \A t \in Reader :
              /\ r'[t].pc = r[t].pc /\ r'[t].x = r[t].x /\ r'[t].cand = r[t].cand
              /\ r'[t].next = r[t].next /\ r'[t].i = r[t].i
<1> DEFINE seen(t) == IF k = r[t].key /\ v \in Pid THEN r[t].seen \cup {v}
                      ELSE r[t].seen
           stable(t) == IF v \in Pid THEN r[t].stable ELSE r[t].stable \ {k}
           raced(t) == r[t].raced \/ (b /\ k < r[t].key /\ InWindow(t))
           new(t) == [r[t] EXCEPT !.seen = seen(t), !.stable = stable(t),
                                  !.raced = raced(t)]
<1>1. r' = [t \in Reader |-> IF r[t].pc \in {"idle", "done"} THEN r[t] ELSE new(t)]
  BY DEF Observe
<1>2. ASSUME NEW t \in Reader
      PROVE  /\ new(t) \in ReaderType
             /\ new(t).pc = r[t].pc /\ new(t).x = r[t].x
             /\ new(t).cand = r[t].cand
             /\ new(t).next = r[t].next /\ new(t).i = r[t].i
  <2>1. r[t] \in ReaderType
    BY DEF TypeOK
  <2>2. seen(t) \in SUBSET Pid /\ stable(t) \in SUBSET Key
    BY <2>1 DEF ReaderType
  <2>3. raced(t) \in BOOLEAN
    OBVIOUS
  <2> HIDE DEF seen, stable, raced
  <2>4. QED
    BY <2>1, <2>2, <2>3 DEF ReaderType
<1>3. \A t \in Reader : r[t] \in ReaderType
  BY DEF TypeOK
<1> HIDE DEF new
<1>4. QED
  BY <1>1, <1>2, <1>3

(* Readers keep their standing when nothing they stand on is freed and no  *)
(* node leaves the tree.                                                   *)
LEMMA ReadersStand ==
  ASSUME Inv, tree \subseteq tree',
         \A t \in Reader : /\ r'[t].pc = r[t].pc /\ r'[t].x = r[t].x
                           /\ r'[t].cand = r[t].cand
                           /\ r'[t].next = r[t].next /\ r'[t].i = r[t].i,
         \A t \in Reader, c \in Cell : r[t].pc # "idle" /\ Protected(t, c) =>
                           Protected(t, c)' /\ height'[c] = height[c]
  PROVE  ReaderInv' /\ Active' = Active
<1>1. Active' = Active
  BY DEF Active
<1>2. ReaderInv'
  <2> SUFFICES ASSUME NEW t \in Reader
               PROVE  /\ r'[t].pc = "tree" => r'[t].cand \subseteq tree'
                      /\ r'[t].pc # "tree" => r'[t].cand = {}
                      /\ r'[t].pc \in {"walk", "last"} =>
                            Protected(t, r[t].x)' /\ r'[t].i < height'[r'[t].x]
                      /\ r'[t].pc \in {"last", "eval"} => r'[t].i = 0
                      /\ r'[t].pc = "eval" /\ r'[t].next # NULL =>
                            Protected(t, r[t].next)' /\ 0 < height'[r'[t].next]
    BY DEF ReaderInv
  <2>0. /\ r[t].pc = "tree" => r[t].cand \subseteq tree
        /\ r[t].pc # "tree" => r[t].cand = {}
    BY DEF Inv, ReaderInv
  <2>1. CASE r[t].pc \in {"walk", "last"}
    <3>1. r[t].x \in Cell /\ Protected(t, r[t].x) /\ r[t].i < height[r[t].x]
      BY <2>1, ReaderX
    <3>2. r[t].pc = "last" => r[t].i = 0
      BY DEF Inv, ReaderInv
    <3>3. QED
      BY <2>0, <2>1, <3>1, <3>2 DEF Protected
  <2>2. CASE r[t].pc = "eval"
    BY <2>0, <2>2, ReaderNext DEF Protected
  <2>3. CASE r[t].pc \notin {"walk", "last", "eval"}
    BY <2>0, <2>3
  <2>4. QED
    BY <2>1, <2>2, <2>3
<1>3. QED
  BY <1>1, <1>2

(* With no node on level 0 there is none on any level, and none in the     *)
(* tree.                                                                   *)
LEMMA AllEmpty ==
  ASSUME Inv, linked[0] = {}, InHand = {}
  PROVE  tree = {} /\ \A i \in Lvl : linked[i] = {}
<1>1. ASSUME NEW i \in Lvl, NEW n \in linked[i] PROVE FALSE
  <2>1. i < height[n] /\ height[n] \in Int /\ i \in Int /\ i >= 0
    BY Bounds, Pointers DEF Inv, LevelInv, TypeOK
  <2>2. n \in linked[0]
    BY <2>1, Bounds DEF Inv, LevelInv
  <2>3. QED
    BY <2>2
<1>2. QED
  BY <1>1, Bounds DEF Inv, TreeInv

(* pid_rb_skiplist_init() sets up an empty list and an empty tree.         *)
LEMMA InitStep == ASSUME Inv, pid_rb_skiplist_init PROVE Inv'
<1>1. /\ UNCHANGED <<key, pid, height, allocated, dying, gp, linked, reserved,
                     bound, r>>
      /\ lost' = {} /\ shared' = {}
  BY DEF pid_rb_skiplist_init, heapVars, rcuVars, callVars
<1>2. w' \in WriterType /\ w'.pc = "idle"
  BY IdleTypes DEF pid_rb_skiplist_init, IdleWriter
<1>3. /\ forward' \in [Cell -> [Lvl -> Ptr]]
      /\ \A i \in Lvl : forward'[Header][i] = NULL
      /\ \A n \in Node : forward'[n] = forward[n]
  BY Pointers DEF pid_rb_skiplist_init, Inv, TypeOK
<1>4. Active = {} /\ InHand = {} /\ tree = {} /\ \A i \in Lvl : linked[i] = {}
  BY AllEmpty, Bounds DEF pid_rb_skiplist_init, Inv, WriterInv, LevelInv, InHand
<1>5. level' = 1 /\ tree' = {}
  BY DEF pid_rb_skiplist_init
<1>6. TypeOK'
  BY <1>1, <1>2, <1>3, <1>5, Bounds DEF Inv, TypeOK
<1>7. HeapInv'
  BY <1>1, <1>2, <1>3 DEF Inv, HeapInv, InHand, pid_rb_skiplist_init, TypeOK
<1>8. LevelInv' /\ TreeInv'
  BY <1>1, <1>2, <1>4, <1>5, Bounds DEF LevelInv, TreeInv
<1>9. ChainInv'
  BY <1>1, <1>3, <1>4 DEF ChainInv, IsSuccessor
<1>10. WriterInv'
  BY <1>2 DEF WriterInv
<1>11. allocated = dying
  BY <1>4, Bounds DEF Inv, HeapInv
<1>12. RcuInv'
  BY <1>1, <1>3, <1>4, <1>11 DEF Inv, RcuInv, Active, TypeOK
<1>13. ReaderInv'
  BY <1>1, <1>4 DEF Inv, ReaderInv, Active
<1>14. QED
  BY <1>6, <1>7, <1>8, <1>9, <1>10, <1>12, <1>13 DEF Inv

(* Replacing the struct pid pointer of a number that was found keeps the   *)
(* invariant.                                                              *)
LEMMA InsertReplaceStep == ASSUME Inv, InsertReplace PROVE Inv'
<1>1. UNCHANGED <<level, key, height, forward, tree, allocated, dying, gp,
                  linked, lost>>
  BY DEF InsertReplace, rcuVars
<1>2. w' \in WriterType /\ w'.pc = "idle"
  BY IdleTypes DEF InsertReplace, IdleWriter
<1>3. w.pc = "search" /\ w.key \in Key /\ w.pid \in Value /\ w.own \in Pid
  BY WriterFields DEF InsertReplace, SearchDone, Inv, WriterInv
<1>4. r' \in [Reader -> ReaderType]
      /\ \A t \in Reader : /\ r'[t].pc = r[t].pc /\ r'[t].x = r[t].x
                           /\ r'[t].cand = r[t].cand
                           /\ r'[t].next = r[t].next /\ r'[t].i = r[t].i
  <2>1. Observe(w.key, w.pid, FALSE)
    BY DEF InsertReplace
  <2>2. QED
    BY <1>3, <2>1, ObserveFrame DEF Inv
<1>5. pid' \in [Cell -> Value] /\ CallTypeOK'
  BY <1>1, <1>3, BindTypes DEF InsertReplace, Inv, TypeOK
<1>0. pos' = pos
  BY <1>1, SameOrder
<1>6. TypeOK'
  BY <1>1, <1>2, <1>4, <1>5 DEF Inv, TypeOK
<1>7. HeapInv' /\ LevelInv' /\ TreeInv' /\ ChainInv'
  BY <1>0, <1>1, <1>2, <1>3
     DEF Inv, HeapInv, LevelInv, TreeInv, ChainInv, IsSuccessor, InHand
<1>8. WriterInv'
  BY <1>2 DEF WriterInv
<1>9. ReaderInv' /\ Active' = Active
  BY <1>1, <1>4, ReadersStand DEF Protected
<1>10. RcuInv'
  BY <1>1, <1>3, <1>9 DEF Inv, RcuInv, Protected
<1>11. QED
  BY <1>6, <1>7, <1>8, <1>9, <1>10 DEF Inv

(* A freshly allocated node is private to the writer; the predecessors on  *)
(* the levels the list has been raised by are the header.                  *)
LEMMA InsertAllocStep == ASSUME Inv, InsertAlloc PROVE Inv'
<1>1. UNCHANGED <<tree, dying, gp, linked, reserved, bound, lost, shared, r>>
  BY DEF InsertAlloc, rcuVars, callVars
<1>2. PICK lvl \in 1 .. PID_SL_MAX_LEVEL, n \in Node \ allocated :
       /\ Raise(lvl)
       /\ allocated' = allocated \cup {n}
       /\ key' = [key EXCEPT ![n] = w.key]
       /\ pid' = [pid EXCEPT ![n] = w.pid]
       /\ height' = [height EXCEPT ![n] = lvl]
       /\ forward' = [forward EXCEPT ![n] = Empty]
       /\ w' = [w EXCEPT !.pc = "link", !.lvl = lvl, !.x = n, !.i = 0,
                         !.update = [i \in Lvl |-> IF i \in level .. lvl - 1
                                                   THEN Header ELSE @[i]]]
  BY DEF InsertAlloc
<1>3. /\ level' \in Height /\ level' \in Int /\ lvl \in Int /\ level \in Int
      /\ lvl >= 1 /\ lvl <= level' /\ level <= level' /\ lvl \in Height
      /\ level' = level \/ level' = lvl
  BY <1>2, RaiseLevel DEF Inv
<1> DEFINE update == [i \in Lvl |-> IF i \in level .. lvl - 1
                                    THEN Header ELSE w.update[i]]
<1>4. update \in [Lvl -> Ptr]
  BY WriterFields, Pointers DEF Inv
<1>5. w' = [w EXCEPT !.pc = "link", !.lvl = lvl, !.x = n, !.i = 0,
                     !.update = update]
  BY <1>2
<1> HIDE DEF update
<1>6. /\ w' \in WriterType
      /\ w'.pc = "link" /\ w'.key = w.key /\ w'.pid = w.pid /\ w'.x = n
      /\ w'.i = 0 /\ w'.lvl = lvl /\ w'.update = update /\ w'.own = w.own
  BY <1>3, <1>4, <1>5, Bounds, Pointers DEF WriterType, Inv, TypeOK
<1>7. /\ key' \in [Cell -> Number] /\ pid' \in [Cell -> Value]
      /\ height' \in [Cell -> Height] /\ forward' \in [Cell -> [Lvl -> Ptr]]
      /\ key'[n] = w.key /\ pid'[n] = w.pid /\ height'[n] = lvl
      /\ \A i \in Lvl : forward'[n][i] = NULL
      /\ \A c \in Cell : c # n => /\ key'[c] = key[c] /\ pid'[c] = pid[c]
                                  /\ height'[c] = height[c]
                                  /\ forward'[c] = forward[c]
  BY <1>2, <1>3, WriterFields, Pointers DEF Inv, TypeOK
<1>8. TypeOK'
  BY <1>1, <1>2, <1>3, <1>6, <1>7 DEF Inv, TypeOK
<1>9. /\ w.pc = "search" /\ w.key \in Key /\ w.own \in Pid
      /\ \A j \in Lvl : j < level => IsPredecessor(w.update[j], j)
      /\ \A o \in linked[0] : pos[o] # place
  BY AtCandidate DEF InsertAlloc, SearchDone, Inv, WriterInv
<1>10. /\ n # Header /\ n \notin dying /\ n \in Cell
       /\ \A i \in Lvl : n \notin linked[i]
       /\ \A i \in Lvl : linked[i] \subseteq Cell
       /\ n \notin tree
  BY <1>2, Bounds, Pointers DEF Inv, HeapInv, TypeOK, TreeInv
<1>11. \A c \in Cell : c # n => pos'[c] = pos[c]
  BY <1>1, <1>7 DEF pos, Late
<1>12. place' = place
  BY <1>6 DEF place
<1>13. HeapInv'
  BY <1>1, <1>2, <1>6, <1>7, <1>9, <1>10, Pointers
     DEF Inv, HeapInv, InHand, TypeOK
<1>14. \A i \in Lvl : \A c \in linked[i] \cup {Header} :
         /\ key'[c] = key[c] /\ pos'[c] = pos[c]
         /\ height'[c] = height[c] /\ forward'[c] = forward[c]
  BY <1>7, <1>10, <1>11, Pointers
<1>15. linked' = linked /\ tree' = tree
  BY <1>1
<1>16. LevelInv'
  <2>1. InHand = {} /\ w.pc # "down" /\ w'.pc # "down"
    BY <1>6, <1>9 DEF InHand
  <2>2. LevelInv
    BY DEF Inv
  <2>3. level' >= 1
    BY <1>3
  <2>4. \A i \in Lvl : level' <= i => level <= i
    BY <1>3, Bounds
  <2>5. QED
    BY <1>14, <1>15, <2>1, <2>2, <2>3, <2>4 DEF LevelInv
<1>17. TreeInv'
  <2>1. tree # {} => level' = PID_SL_MAX_LEVEL
    BY <1>3, Bounds DEF Inv, TreeInv
  <2>2. TreeInv
    BY DEF Inv
  <2>3. \A c \in tree : height'[c] = height[c]
    BY <1>14, <2>2, Bounds DEF TreeInv
  <2>4. \A c \in linked[0] : key'[c] = key[c]
    BY <1>14, Bounds
  <2>5. QED
    BY <1>15, <2>1, <2>2, <2>3, <2>4 DEF TreeInv
<1>18. ChainInv'
  <2>1. \A i \in Lvl : \A m \in linked[i] \cup {Header} :
          IsSuccessor(m, i, forward[m][i])
    BY <1>9 DEF Inv, ChainInv
  <2>2. \A i \in Lvl : \A m \in linked[i] \cup {Header} :
          IsSuccessor(m, i, forward[m][i])'
    BY <1>14, <1>15, <2>1 DEF IsSuccessor
  <2>3. QED
    BY <1>15, <2>2 DEF ChainInv
<1>19. ASSUME NEW j \in Lvl, j < level' PROVE IsPredecessor(w.update[j], j)'
  <2>1. CASE j < level
    <3>1. update[j] = w.update[j]
      BY <2>1, <1>3, Bounds DEF update
    <3>2. IsPredecessor(w.update[j], j)
      BY <2>1, <1>9
    <3>3. QED
      BY <1>6, <1>12, <1>14, <1>15, <3>1, <3>2 DEF IsPredecessor
  <2>2. CASE ~(j < level)
    <3>0. j \in Int /\ level <= j /\ j < lvl
      BY <2>2, <1>3, <1>19, Bounds
    <3>1. update[j] = Header
      BY <3>0, <1>3 DEF update
    <3>2. linked[j] = {}
      BY <3>0 DEF Inv, LevelInv
    <3>3. pos[Header] < place
      BY <1>9, HeaderFirst DEF Inv
    <3>4. QED
      BY <1>6, <1>12, <1>14, <1>15, <3>1, <3>2, <3>3 DEF IsPredecessor
  <2>3. QED
    BY <2>1, <2>2
<1>20. WriterInv'
  <2>1. \A o \in linked'[0] : pos'[o] # place'
    BY <1>9, <1>12, <1>14, <1>15, Bounds
  <2>2. \A j \in Lvl : n \notin linked'[j] /\ ~(j < 0)
    <3>1. \A j \in Lvl : n \notin linked'[j]
      BY <1>10, <1>15
    <3>2. \A j \in Lvl : ~(j < 0)
      BY Bounds
    <3>3. QED
      BY <3>1, <3>2
  <2>3. \A j \in Lvl : j < lvl => j < level'
    BY <1>3, Bounds
  <2>4. n \in allocated' \ dying' /\ n \notin tree'
    BY <1>1, <1>2, <1>10
  <2>5. QED
    BY <1>3, <1>6, <1>7, <1>9, <1>19, <2>1, <2>2, <2>3, <2>4 DEF WriterInv
<1>21. RcuInv'
  BY <1>1, <1>2, <1>6, <1>7, <1>9, <1>10, Pointers
     DEF Inv, RcuInv, HeapInv, Active, Protected, TypeOK
<1>22. ReaderInv'
  BY <1>1, <1>2, <1>7, <1>10, ReadersStand DEF Protected, Inv, HeapInv
<1>23. QED
  BY <1>8, <1>13, <1>16, <1>17, <1>18, <1>20, <1>21, <1>22 DEF Inv

(* Linking a node on one level keeps that level sorted and every other     *)
(* level as it was.                                                        *)
LEMMA InsertLinkStep == ASSUME Inv, InsertLink PROVE Inv'
<1> DEFINE x == w.x
           i == w.i
           u == w.update[w.i]
           next == forward[u][i]
<1>1. UNCHANGED <<level, key, pid, height, tree, allocated, dying, gp, reserved, bound, lost, shared>>
  BY DEF InsertLink, rcuVars, callVars
<1>0. pos' = pos /\ key' = key /\ tree' = tree
  BY <1>1, SameOrder
<1>2. /\ w.pc = "link" /\ w.key \in Key /\ w.own \in Pid
      /\ x \in allocated \ dying /\ x \notin tree
      /\ key[x] = w.key /\ height[x] = w.lvl /\ pid[x] = w.pid
      /\ i >= 0 /\ i < w.lvl /\ w.lvl >= 1 /\ w.lvl <= level
      /\ \A j \in Lvl : x \in linked[j] <=> j < i
      /\ \A j \in Lvl : i <= j /\ j < w.lvl => IsPredecessor(w.update[j], j)
      /\ \A j \in Lvl : i <= j => forward[x][j] = NULL
      /\ \A o \in linked[0] : o # x => pos[o] # place
  BY DEF InsertLink, Inv, WriterInv
<1>3. /\ i \in Lvl /\ i \in Int /\ i + 1 \in Index /\ w.lvl \in Int
      /\ level \in Int /\ w.lvl \in Height /\ w.pid \in Value
  BY <1>2, WriterFields, IndexSteps, Bounds DEF Inv, TypeOK
<1>4. IsPredecessor(u, i)
  BY <1>2, <1>3
<1>5. /\ u \in linked[i] \cup {Header} /\ x \notin linked[i] /\ x # Header
      /\ u # x /\ u \in Cell /\ x \in Cell /\ x \in Node
  BY <1>2, <1>3, <1>4, Pointers DEF IsPredecessor, Inv, TypeOK
<1>21. pos[x] = place /\ \A c \in Cell : pos[c] \in Int
  BY <1>2, <1>5, Order DEF Inv
<1>6. next \in Ptr /\ IsSuccessor(u, i, next)
  BY <1>2, <1>3, <1>5 DEF Inv, TypeOK, ChainInv
<1>7. /\ forward' \in [Cell -> [Lvl -> Ptr]]
      /\ forward'[x][i] = next /\ forward'[u][i] = x
      /\ \A c \in Cell, j \in Lvl :
           ((c = x \/ c = u) /\ j = i) \/ forward'[c][j] = forward[c][j]
  <2>1. forward' = [forward EXCEPT ![x][i] = next, ![u][i] = x]
    BY DEF InsertLink
  <2>2. forward \in [Cell -> [Lvl -> Ptr]] /\ x \in Ptr
    BY <1>5, Pointers DEF Inv, TypeOK
  <2> HIDE DEF next, x, u, i
  <2>3. QED
    BY <2>1, <2>2, <1>3, <1>5, <1>6
<1>8. /\ linked' \in [Lvl -> SUBSET Node]
      /\ linked'[i] = linked[i] \cup {x}
      /\ \A j \in Lvl : j # i => linked'[j] = linked[j]
  BY <1>3, <1>5 DEF InsertLink, Inv, TypeOK
<1>9. /\ w' \in WriterType
      /\ w'.pc = "link" /\ w'.key = w.key /\ w'.pid = w.pid /\ w'.x = x
      /\ w'.i = i + 1 /\ w'.lvl = w.lvl /\ w'.update = w.update /\ w'.own = w.own
  <2>1. w' = [w EXCEPT !.i = w.i + 1]
    BY DEF InsertLink
  <2>2. QED
    BY <2>1, <1>2, <1>3 DEF WriterType, Inv, TypeOK
<1>10. /\ r' \in [Reader -> ReaderType]
       /\ \A t \in Reader : /\ r'[t].pc = r[t].pc /\ r'[t].x = r[t].x
                            /\ r'[t].cand = r[t].cand
                            /\ r'[t].next = r[t].next /\ r'[t].i = r[t].i
  <2>1. CASE i = 0
    <3>1. Observe(w.key, w.pid, TRUE)
      BY <2>1 DEF InsertLink
    <3>2. QED
      BY <1>2, <1>3, <3>1, ObserveFrame DEF Inv
  <2>2. CASE i # 0
    BY <2>2 DEF InsertLink, Inv, TypeOK
  <2>3. QED
    BY <2>1, <2>2
<1> HIDE DEF x, i, u, next
<1>11. TypeOK'
  BY <1>1, <1>7, <1>8, <1>9, <1>10 DEF Inv, TypeOK
<1>12. InHand = {x} /\ InHand' = {x} /\ place' = place
  BY <1>2, <1>9 DEF InHand, place, x
<1>13. \A j \in Lvl : \A o \in linked[j] : o # x => o \in linked[0]
  <2> SUFFICES ASSUME NEW j \in Lvl, NEW o \in linked[j], o # x
               PROVE  o \in linked[0]
    OBVIOUS
  <2>1. j < height[o] /\ j >= 0 /\ j \in Int /\ height[o] \in Int
    BY Bounds, Pointers DEF Inv, LevelInv, TypeOK
  <2>2. QED
    BY <2>1, <1>12, Bounds DEF Inv, LevelInv
<1>14. HeapInv'
  <2>2. ASSUME NEW n \in allocated, NEW j \in Lvl, height[n] <= j
        PROVE  forward'[n][j] = NULL
    <3>2. n \in Cell /\ n # Header /\ height[n] \in Int /\ j \in Int
      BY Pointers, Bounds DEF Inv, TypeOK
    <3>4. n = u => i < height[n]
      BY <3>2, <1>3, <1>5 DEF Inv, LevelInv
    <3>5. n = x => i < height[n]
      BY <1>2
    <3>1. ~(j = i /\ (n = x \/ n = u))
      BY <2>2, <3>2, <3>4, <3>5
    <3>3. QED
      BY <3>1, <3>2, <2>2, <1>7 DEF Inv, HeapInv
  <2>3. allocated' = linked'[0] \cup dying' \cup InHand'
    BY <1>1, <1>2, <1>8, <1>12, Bounds DEF Inv, HeapInv
  <2>4. \A j \in Lvl : linked'[j] \subseteq allocated' \ dying'
    BY <1>1, <1>2, <1>8 DEF Inv, HeapInv
  <2>5. QED
    BY <2>2, <2>3, <2>4, <1>1 DEF Inv, HeapInv
<1>15. LevelInv'
  <2>1. \A j \in Lvl : level <= j => linked'[j] = {}
    BY <1>2, <1>3, <1>8, Bounds DEF Inv, LevelInv
  <2>2. \A j \in Lvl : \A n \in linked'[j] : j < height[n]
    BY <1>2, <1>3, <1>8 DEF Inv, LevelInv
  <2>3. ASSUME NEW j \in Lvl, NEW n \in linked'[j] \ InHand',
               NEW k \in Lvl, k < height[n]
        PROVE  n \in linked'[k]
    BY <2>3, <1>8, <1>12 DEF Inv, LevelInv
  <2>4. ASSUME NEW j \in Lvl, NEW m \in linked'[j], NEW n \in linked'[j],
               pos[m] = pos[n]
        PROVE  m = n
    BY <2>4, <1>2, <1>8, <1>13, <1>21 DEF Inv, LevelInv
  <2>5. w'.pc # "down" /\ level >= 1
    BY <1>2, <1>3, <1>9
  <2>6. QED
    BY <2>1, <2>2, <2>3, <2>4, <2>5, <1>0, <1>1 DEF LevelInv
<1>22. TreeInv'
  <2>1. \A n \in tree : \A j \in Lvl : n \in linked'[j]
    BY <1>8 DEF Inv, TreeInv
  <2>2. ASSUME NEW m \in linked'[0], NEW n \in linked'[0], key[m] = key[n], m # n
        PROVE  (m \in tree) # (n \in tree)
    <3>1. CASE m # x /\ n # x
      BY <2>2, <3>1, <1>8, Bounds DEF Inv, TreeInv
    <3>2. \A o \in linked'[0] : o # x /\ key[o] = w.key => o \in tree
      <4>1. \A o \in linked'[0] : o # x => o \in linked[0] /\ o \in Cell
        BY <1>8, Bounds, Pointers DEF Inv, TypeOK
      <4>2. QED
        BY <4>1, <1>2, Order DEF Inv
    <3>3. QED
      BY <2>2, <3>1, <3>2, <1>2
  <2>3. QED
    BY <2>1, <2>2, <1>1 DEF Inv, TreeInv
<1>16. ChainInv'
  <2> SUFFICES ASSUME NEW j \in Lvl, NEW m \in linked'[j] \cup {Header}
               PROVE  IsSuccessor(m, j, forward[m][j])'
    BY DEF ChainInv
  <2>1. CASE j # i
    <3>1. m \in linked[j] \cup {Header} /\ linked'[j] = linked[j] /\ m \in Cell
      BY <2>1, <1>8, Pointers DEF Inv, TypeOK
    <3>2. forward'[m][j] = forward[m][j]
      BY <2>1, <3>1, <1>7
    <3>3. IsSuccessor(m, j, forward[m][j])
      BY <3>1, <1>2 DEF Inv, ChainInv
    <3>4. QED
      BY <3>1, <3>2, <3>3, <1>0 DEF IsSuccessor
  <2>2. CASE j = i
    <3>1. /\ pos[u] < pos[x] /\ \A o \in linked[i] : pos[o] \in Int
          /\ pos[u] \in Int /\ pos[x] \in Int
          /\ \A o \in linked[i] : pos[o] # pos[x]
          /\ \A o \in linked[i] : pos[o] < pos[x] => ~(pos[u] < pos[o])
      <4>1. \A o \in linked[i] : o # x
        BY <1>5
      <4>2. \A o \in linked[i] : pos[o] # pos[x]
        BY <4>1, <1>2, <1>3, <1>13, <1>21
      <4>3. \A o \in linked[i] \cup {x, u} : pos[o] \in Int
        BY <1>3, <1>5, <1>21, Pointers DEF Inv, TypeOK
      <4>4. QED
        BY <4>2, <4>3, <1>2, <1>4, <1>21 DEF IsPredecessor
    <3>6. pos' = pos /\ linked'[i] = linked[i] \cup {x}
          /\ forward'[x][i] = next /\ forward'[u][i] = x /\ x # NULL
      BY <1>0, <1>5, <1>7, <1>8, Pointers
    <3>2. CASE m = u
      <4>1. \A o \in linked'[i] : pos[u] < pos[o] => o = x \/ pos[x] < pos[o]
        BY <3>1, <3>6
      <4>2. QED
        BY <4>1, <3>1, <3>2, <3>6, <2>2 DEF IsSuccessor
    <3>3. CASE m = x
      <4>1. CASE next = NULL
        BY <4>1, <3>1, <3>3, <3>6, <2>2, <1>6 DEF IsSuccessor
      <4>2. CASE next # NULL
        <5>1. /\ next \in linked[i] /\ pos[u] < pos[next]
              /\ \A o \in linked[i] :
                   pos[u] < pos[o] => o = next \/ pos[next] < pos[o]
          BY <4>2, <1>6 DEF IsSuccessor
        <5>2. pos[x] < pos[next]
          BY <5>1, <3>1
        <5>3. \A o \in linked'[i] :
                pos[x] < pos[o] => o = next \/ pos[next] < pos[o]
          BY <5>1, <3>1, <3>6
        <5>4. QED
          BY <5>1, <5>2, <5>3, <4>2, <3>3, <3>6, <2>2 DEF IsSuccessor
      <4>3. QED
        BY <4>1, <4>2
    <3>4. CASE m # u /\ m # x
      <4> DEFINE s == forward[m][i]
      <4>1. m \in linked[i] \cup {Header} /\ m \in Cell
        BY <3>4, <2>2, <1>3, <1>8, Pointers DEF Inv, TypeOK
      <4>2. forward'[m][j] = s
        BY <4>1, <3>4, <2>2, <1>3, <1>7
      <4>3. IsSuccessor(m, i, s)
        BY <4>1, <1>2, <1>3 DEF Inv, ChainInv
      <4>4. pos[m] \in Int /\ pos[Header] \in Int
            /\ \A o \in linked[i] : pos[Header] < pos[o]
        BY <4>1, <1>3, <1>21, Pointers, HeaderFirst DEF Inv, HeapInv
      <4>5. \A o \in linked[i] : pos[o] = pos[m] => o = m
        BY <4>1, <4>4, <1>3 DEF Inv, LevelInv
      <4>6. ASSUME pos[m] < pos[x]
            PROVE  u \in linked[i] /\ pos[m] < pos[u]
        <5>1. CASE m = Header
          BY <5>1, <3>4, <4>4, <1>5
        <5>2. CASE m \in linked[i]
          <6>1. ~(pos[u] < pos[m])
            BY <5>2, <4>6, <3>1
          <6>2. u # Header
            BY <5>2, <6>1, <4>4
          <6>3. QED
            BY <6>1, <6>2, <3>1, <3>4, <4>4, <4>5, <1>5
        <5>3. QED
          BY <4>1, <5>1, <5>2
      <4>7. CASE s = NULL
        BY <4>2, <4>3, <4>6, <4>7, <2>2, <1>0, <1>8 DEF IsSuccessor
      <4>8. CASE s # NULL
        <5>1. s \in linked[i] /\ pos[m] < pos[s] /\ pos[s] \in Int
              /\ \A o \in linked[i] : pos[m] < pos[o] => o = s \/ pos[s] < pos[o]
          BY <4>3, <4>8, <3>1 DEF IsSuccessor
        <5>2. pos[m] < pos[x] => pos[s] < pos[x]
          BY <5>1, <4>6, <3>1
        <5>3. QED
          BY <5>1, <5>2, <4>2, <4>8, <2>2, <1>0, <1>8 DEF IsSuccessor
      <4>9. QED
        BY <4>7, <4>8
    <3>5. QED
      BY <3>2, <3>3, <3>4
  <2>3. QED
    BY <2>1, <2>2
<1>17. WriterInv'
  <2>0. \A j \in Lvl : j < i + 1 <=> j < i \/ j = i
    <3>1. i \in Int /\ Lvl \subseteq Int
      BY <1>3, Bounds
    <3>2. QED
      BY <3>1
  <2>1. \A j \in Lvl : x \in linked'[j] <=> j < i + 1
    BY <1>2, <1>8, <2>0
  <2>2. ASSUME NEW j \in Lvl, i + 1 <= j, j < w.lvl
        PROVE  IsPredecessor(w.update[j], j)'
    <3>1. j # i /\ i <= j
      BY <2>2, <1>3, Bounds
    <3>2. IsPredecessor(w.update[j], j) /\ linked'[j] = linked[j]
      BY <2>2, <3>1, <1>2, <1>8
    <3>3. QED
      BY <3>2, <1>0, <1>9, <1>12 DEF IsPredecessor
  <2>3. ASSUME NEW j \in Lvl, i + 1 <= j PROVE forward'[x][j] = NULL
    <3>1. j # i /\ i <= j
      BY <2>3, <1>3, Bounds
    <3>2. QED
      BY <3>1, <1>2, <1>5, <1>7
  <2>4. \A o \in linked'[0] : o # x => pos'[o] # place'
    BY <1>0, <1>2, <1>3, <1>8, <1>12, Bounds
  <2>5. i + 1 >= 0 /\ i + 1 <= w.lvl
    BY <1>2, <1>3
  <2>6. QED
    BY <2>1, <2>2, <2>3, <2>4, <2>5, <1>1, <1>2, <1>9 DEF WriterInv
<1>18. ReaderInv' /\ Active' = Active
  BY <1>1, <1>10, ReadersStand DEF Protected
<1>19. RcuInv'
  <2>1. ASSUME NEW n \in (allocated \ dying) \cup {Header}, NEW j \in Lvl,
               forward'[n][j] # NULL
        PROVE  forward'[n][j] \in allocated \ dying /\ j < height[forward'[n][j]]
    <3>1. n \in Cell /\ u \in (allocated \ dying) \cup {Header}
      BY <1>3, <1>5, Pointers DEF Inv, TypeOK, HeapInv
    <3>2. CASE n = u /\ j = i
      BY <3>2, <1>2, <1>7
    <3>3. CASE n = x /\ j = i
      BY <3>1, <3>3, <2>1, <1>2, <1>3, <1>7 DEF Inv, RcuInv, next
    <3>4. CASE ~((n = x \/ n = u) /\ j = i)
      BY <3>1, <3>4, <2>1, <1>2, <1>7 DEF Inv, RcuInv
    <3>5. QED
      BY <3>2, <3>3, <3>4
  <2>2. ASSUME NEW n \in dying, NEW j \in Lvl
        PROVE  forward'[n][j] = forward[n][j]
    <3>1. n # x /\ n \in Cell /\ n # Header
      BY <1>2, Pointers DEF Inv, TypeOK
    <3>2. n # u
      BY <3>1, <1>3, <1>5 DEF Inv, HeapInv
    <3>3. QED
      BY <3>1, <3>2, <1>7
  <2>3. QED
    BY <2>1, <2>2, <1>1, <1>18 DEF Inv, RcuInv, Protected
<1>20. QED
  BY <1>11, <1>14, <1>15, <1>16, <1>17, <1>18, <1>19, <1>22 DEF Inv

(* rb_insert_node() on the node that is linked on every level keeps the    *)
(* invariant.  The node moves before its own position by one, to which no  *)
(* other node is closer: the number has no other node outside the tree,    *)
(* and the node is added only if it has none in the tree.                  *)
LEMMA RbInsertStep == ASSUME Inv, rb_insert_node PROVE Inv'
<1> DEFINE x == w.x
           added == IF OnTopLevel /\ \A n \in tree : key[n] # w.key THEN {w.x} ELSE {}
<1>1. /\ UNCHANGED <<level, key, pid, height, forward, allocated, dying, gp,
                     linked, lost>>
      /\ tree' = tree \cup added /\ w' = IdleWriter /\ Bind
      /\ r' = [t \in Reader |->
                 IF r[t].pc \in {"idle", "done"} \/ added = {} THEN r[t]
                 ELSE [r[t] EXCEPT
                         !.cand   = IF r[t].pc = "tree" THEN @ \cup added ELSE @,
                         !.torn   = @ \/ r[t].pc = "tree",
                         !.stable = @ \ {w.key}]]
  BY DEF rb_insert_node, heapVars, rcuVars
<1>2. /\ w.pc = "link" /\ w.key \in Key /\ w.i = w.lvl /\ w.own \in Pid
      /\ x \in allocated \ dying /\ x \notin tree
      /\ key[x] = w.key /\ height[x] = w.lvl
      /\ w.lvl >= 1 /\ w.lvl <= level
      /\ \A j \in Lvl : x \in linked[j] <=> j < w.lvl
      /\ \A o \in linked[0] : o # x => pos[o] # place
  BY DEF rb_insert_node, Inv, WriterInv
<1>3. /\ x \in Node /\ x \in Cell /\ x # Header /\ x \in linked[0]
      /\ w.lvl \in Int /\ level \in Int /\ w.pid \in Value
  <2>1. w.lvl \in Height /\ level \in Height /\ x \in Node
    BY <1>2, WriterFields DEF Inv, TypeOK
  <2>2. w.lvl \in Int /\ 0 < w.lvl
    <3>1. w.lvl \in Int /\ w.lvl >= 1
      BY <1>2, <2>1, Bounds
    <3>2. QED
      BY <3>1
  <2>3. QED
    BY <1>2, <2>1, <2>2, WriterFields, Bounds, Pointers DEF Inv, TypeOK
<1>4. added \subseteq {x}
  OBVIOUS
<1>5. ASSUME added # {}
      PROVE  /\ added = {x} /\ w.lvl = PID_SL_MAX_LEVEL /\ level = PID_SL_MAX_LEVEL
             /\ \A j \in Lvl : x \in linked[j]
             /\ \A o \in linked[0] : o # x => key[o] # w.key
  <2>1. OnTopLevel /\ added = {x} /\ \A n \in tree : key[n] # w.key
    BY <1>5
  <2>2. w.lvl = PID_SL_MAX_LEVEL /\ level = PID_SL_MAX_LEVEL
    BY <2>1 DEF OnTopLevel, Inv, HeapInv
  <2>3. \A j \in Lvl : x \in linked[j]
    BY <1>2, <2>2, Bounds
  <2>4. ASSUME NEW o \in linked[0], o # x PROVE key[o] # w.key
    <3>1. o \in Cell /\ pos[o] # place
      BY <1>2, <2>4, Bounds, Pointers DEF Inv, TypeOK
    <3>2. QED
      BY <2>1, <3>1, Order DEF Inv
  <2>5. QED
    BY <2>1, <2>2, <2>3, <2>4
<1> HIDE DEF added
<1>6. InHand = {x} /\ InHand' = {} /\ w' \in WriterType /\ w'.pc = "idle"
  BY <1>1, <1>2, IdleTypes DEF InHand, IdleWriter
<1> HIDE DEF x
<1>7. \A j \in Lvl : \A o \in linked[j] : o # x => o \in linked[0]
  <2> SUFFICES ASSUME NEW j \in Lvl, NEW o \in linked[j], o # x
               PROVE  o \in linked[0]
    OBVIOUS
  <2>1. j < height[o] /\ j >= 0 /\ j \in Int /\ height[o] \in Int
    BY Bounds, Pointers DEF Inv, LevelInv, TypeOK
  <2>2. QED
    BY <2>1, <1>6, Bounds DEF Inv, LevelInv
<1>8. ASSUME NEW j \in Lvl, NEW a \in linked[j] \cup {Header},
             NEW b \in linked[j] \cup {Header}
      PROVE  /\ pos'[a] < pos'[b] <=> pos[a] < pos[b]
             /\ pos'[a] = pos'[b] <=> pos[a] = pos[b]
  <2>1. \A c \in Cell : pos'[c] = IF c \in added THEN pos[c] - 1 ELSE pos[c]
    <3>1. ASSUME NEW c \in Cell
          PROVE  pos'[c] = IF c \in added THEN pos[c] - 1 ELSE pos[c]
      <4>1. key'[c] = key[c] /\ key[c] \in Int
        BY <1>1, Pointers DEF Inv, TypeOK
      <4>2. CASE c \in added
        <5>1. c \in tree' /\ c \notin tree
          BY <4>2, <1>1, <1>2, <1>4
        <5>2. pos'[c] = 2 * key[c] /\ pos[c] = 2 * key[c] + 1
          BY <4>1, <5>1 DEF pos, Late
        <5>3. QED
          BY <4>1, <4>2, <5>2
      <4>3. CASE c \notin added
        <5>1. c \in tree' <=> c \in tree
          BY <4>3, <1>1
        <5>2. pos'[c] = pos[c]
          BY <4>1, <5>1 DEF pos, Late
        <5>3. QED
          BY <4>3, <5>2
      <4>4. QED
        BY <4>2, <4>3
    <3>2. QED
      BY <3>1
  <2>2. a \in Cell /\ b \in Cell /\ pos[a] \in Int /\ pos[b] \in Int
    BY Pointers, Order DEF Inv, TypeOK
  <2>3. CASE added = {}
    BY <2>1, <2>2, <2>3
  <2>4. CASE added # {}
    <3>1. added = {x} /\ \A o \in linked[0] : o # x => key[o] # w.key
      BY <1>5, <2>4
    <3>2. ASSUME NEW c \in linked[j] \cup {Header}, c # x
          PROVE  /\ pos'[c] = pos[c] /\ pos[c] \in Int
                 /\ pos[c] # 2 * w.key /\ pos[c] # 2 * w.key + 1
      <4>1. c \in Cell /\ key[c] \in Int /\ key[c] # w.key /\ w.key \in Int
        <5>1. c \in Cell /\ w.key \in Int
          BY <1>2, Pointers DEF Inv, TypeOK
        <5>2. key[c] # w.key
          BY <1>2, <1>7, <3>1, <3>2, KeyAssumption DEF Inv, HeapInv
        <5>3. QED
          BY <5>1, <5>2, Pointers DEF Inv, TypeOK
      <4>2. pos[c] = 2 * key[c] \/ pos[c] = 2 * key[c] + 1
        BY <4>1 DEF pos, Late
      <4>3. QED
        BY <2>1, <3>1, <3>2, <4>1, <4>2
    <3>3. pos[x] = 2 * w.key + 1 /\ pos'[x] = 2 * w.key /\ w.key \in Int
      <4>1. pos[x] = place /\ w.key \in Int
        BY <1>2, <1>3, Order, Pointers DEF Inv
      <4>2. QED
        BY <2>1, <3>1, <4>1, <1>3 DEF place
    <3>4. QED
      BY <2>2, <3>2, <3>3
  <2>5. QED
    BY <2>3, <2>4
<1>9. /\ r' \in [Reader -> ReaderType]
      /\ \A t \in Reader :
           /\ r'[t].pc = r[t].pc /\ r'[t].x = r[t].x
           /\ r'[t].next = r[t].next /\ r'[t].i = r[t].i
           /\ r'[t].cand = IF r[t].pc = "tree" THEN r[t].cand \cup added
                           ELSE r[t].cand
  <2>1. ASSUME NEW t \in Reader
        PROVE  /\ r'[t] \in ReaderType
               /\ r'[t].pc = r[t].pc /\ r'[t].x = r[t].x
               /\ r'[t].next = r[t].next /\ r'[t].i = r[t].i
               /\ r'[t].cand = IF r[t].pc = "tree" THEN r[t].cand \cup added
                               ELSE r[t].cand
    <3>1. r[t] \in ReaderType /\ added \subseteq Node
      BY <1>3, <1>4 DEF Inv, TypeOK
    <3>2. CASE r[t].pc \notin {"idle", "done"} /\ added # {}
      <4> DEFINE cand == IF r[t].pc = "tree" THEN r[t].cand \cup added
                         ELSE r[t].cand
                 torn == r[t].torn \/ r[t].pc = "tree"
                 stable == r[t].stable \ {w.key}
      <4>1. cand \in SUBSET Node /\ stable \in SUBSET Key
        BY <3>1 DEF ReaderType
      <4>2. torn \in BOOLEAN
        BY <3>1 DEF ReaderType
      <4>3. r'[t] = [r[t] EXCEPT !.cand = cand, !.torn = torn, !.stable = stable]
        BY <1>1, <3>2
      <4> HIDE DEF cand, torn, stable
      <4>4. /\ r'[t] \in ReaderType
            /\ r'[t].pc = r[t].pc /\ r'[t].x = r[t].x
            /\ r'[t].next = r[t].next /\ r'[t].i = r[t].i
            /\ r'[t].cand = cand
        BY <3>1, <4>1, <4>2, <4>3 DEF ReaderType
      <4>5. QED
        BY <3>2, <4>4 DEF cand
    <3>3. CASE ~(r[t].pc \notin {"idle", "done"} /\ added # {})
      BY <1>1, <3>1, <3>3
    <3>4. QED
      BY <3>2, <3>3
  <2>2. QED
    BY <2>1, <1>1
<1>10. TypeOK'
  <2>1. CallTypeOK'
    BY <1>1, <1>2, BindTypes DEF Inv, TypeOK
  <2>2. QED
    BY <2>1, <1>1, <1>2, <1>3, <1>4, <1>6, <1>9 DEF Inv, TypeOK
<1>11. HeapInv'
  BY <1>1, <1>3, <1>6 DEF Inv, HeapInv
<1>12. LevelInv'
  <2>1. \A j \in Lvl : \A m, n \in linked[j] : pos'[m] = pos'[n] => m = n
    BY <1>8 DEF Inv, LevelInv
  <2>2. ASSUME NEW j \in Lvl, NEW n \in linked[j], NEW k \in Lvl, k < height[n]
        PROVE  n \in linked[k]
    <3>1. CASE n = x
      BY <2>2, <3>1, <1>2
    <3>2. CASE n # x
      BY <2>2, <3>2, <1>6 DEF Inv, LevelInv
    <3>3. QED
      BY <3>1, <3>2
  <2>3. level >= 1
    BY <1>2, <1>3
  <2>4. QED
    BY <2>1, <2>2, <2>3, <1>1, <1>6 DEF Inv, LevelInv
<1>13. TreeInv'
  <2>1. CASE added = {}
    BY <2>1, <1>1 DEF Inv, TreeInv
  <2>2. CASE added # {}
    <3>1. /\ tree' = tree \cup {x} /\ level = PID_SL_MAX_LEVEL
          /\ height[x] = PID_SL_MAX_LEVEL /\ \A j \in Lvl : x \in linked[j]
      BY <2>2, <1>1, <1>2, <1>5
    <3>2. ASSUME NEW m \in linked[0], NEW n \in linked[0], key[m] = key[n], m # n
          PROVE  (m \in tree') # (n \in tree')
      <4>1. m # x /\ n # x
        BY <2>2, <3>2, <1>2, <1>5
      <4>2. QED
        BY <3>1, <3>2, <4>1 DEF Inv, TreeInv
    <3>3. QED
      BY <3>1, <3>2, <1>1 DEF Inv, TreeInv
  <2>3. QED
    BY <2>1, <2>2
<1>14. ChainInv'
  <2> SUFFICES ASSUME NEW j \in Lvl, NEW m \in linked[j] \cup {Header}
               PROVE  IsSuccessor(m, j, forward[m][j])'
    BY <1>1 DEF ChainInv
  <2>1. IsSuccessor(m, j, forward[m][j])
    BY <1>2 DEF Inv, ChainInv
  <2>2. \A a, b \in linked[j] \cup {Header} : pos'[a] < pos'[b] <=> pos[a] < pos[b]
    BY <1>8
  <2>3. QED
    BY <2>1, <2>2, <1>1 DEF IsSuccessor
<1>15. WriterInv'
  BY <1>6 DEF WriterInv
<1>16. RcuInv'
  <2>1. Active' = Active
    BY <1>9 DEF Active
  <2>2. w.pc # "free" /\ RcuInv
    BY <1>2 DEF Inv
  <2>3. (\A n \in Node : gp[n] \subseteq Active)'
    BY <2>1, <2>2, <1>1 DEF RcuInv
  <2>4. \A n \in (allocated \ dying) \cup {Header}, i \in Lvl :
          forward[n][i] # NULL => /\ forward[n][i] \in allocated \ dying
                                  /\ i < height[forward[n][i]]
    BY <2>2 DEF RcuInv
  <2>5. \A n \in dying, i \in Lvl : \A t \in gp[n] :
          forward[n][i] # NULL => /\ Protected(t, forward[n][i])
                                  /\ i < height[forward[n][i]]
    BY <2>2 DEF RcuInv
  <2>6. /\ allocated' = allocated /\ dying' = dying /\ gp' = gp
        /\ forward' = forward /\ height' = height
    BY <1>1
  <2>7. (\A n \in (allocated \ dying) \cup {Header}, i \in Lvl :
           forward[n][i] # NULL => /\ forward[n][i] \in allocated \ dying
                                   /\ i < height[forward[n][i]])'
    BY <2>4, <2>6
  <2>8. (\A n \in dying, i \in Lvl : \A t \in gp[n] :
           forward[n][i] # NULL => /\ Protected(t, forward[n][i])
                                   /\ i < height[forward[n][i]])'
    BY <2>5, <2>6 DEF Protected
  <2>9. QED
    BY <2>3, <2>7, <2>8 DEF RcuInv
<1>17. ReaderInv'
  <2>1. \A t \in Reader, c \in Cell : Protected(t, c)' <=> Protected(t, c)
    BY <1>1 DEF Protected
  <2> SUFFICES ASSUME NEW t \in Reader
               PROVE  /\ r'[t].pc = "tree" => r'[t].cand \subseteq tree'
                      /\ r'[t].pc # "tree" => r'[t].cand = {}
                      /\ r'[t].pc \in {"walk", "last"} =>
                            Protected(t, r[t].x)' /\ r'[t].i < height'[r'[t].x]
                      /\ r'[t].pc \in {"last", "eval"} => r'[t].i = 0
                      /\ r'[t].pc = "eval" /\ r'[t].next # NULL =>
                            Protected(t, r[t].next)' /\ 0 < height'[r'[t].next]
    BY DEF ReaderInv
  <2>2. /\ r[t].pc = "tree" => r[t].cand \subseteq tree
        /\ r[t].pc # "tree" => r[t].cand = {}
    BY DEF Inv, ReaderInv
  <2>3. CASE r[t].pc = "tree"
    <3>1. r'[t].pc = "tree" /\ r'[t].cand = r[t].cand \cup added
      BY <1>9, <2>3
    <3>2. r'[t].cand \subseteq tree'
      BY <1>1, <2>2, <2>3, <3>1
    <3>3. QED
      BY <3>1, <3>2
  <2>4. CASE r[t].pc # "tree"
    <3>1. /\ r'[t].pc = r[t].pc /\ r'[t].x = r[t].x /\ r'[t].i = r[t].i
          /\ r'[t].next = r[t].next /\ r'[t].cand = {} /\ height' = height
          /\ UNCHANGED <<allocated, dying, gp>>
      BY <1>1, <1>9, <2>2, <2>4
    <3>2. Protected(t, r[t].x) => Protected(t, r[t].x)'
      BY <3>1 DEF Protected
    <3>3. Protected(t, r[t].next) => Protected(t, r[t].next)'
      BY <3>1 DEF Protected
    <3>4. QED
      BY <2>4, <3>1, <3>2, <3>3 DEF Inv, ReaderInv
  <2>5. QED
    BY <2>3, <2>4
<1>18. QED
  BY <1>10, <1>11, <1>12, <1>13, <1>14, <1>15, <1>16, <1>17 DEF Inv

(* Unlinking a node on one level keeps that level sorted and its readers   *)
(* protected.                                                              *)
LEMMA RemoveUnlinkStep == ASSUME Inv, RemoveUnlink PROVE Inv'
<1> DEFINE x == w.x
           i == w.i
           u == w.update[w.i]
           next == forward[x][i]
<1>1. UNCHANGED <<level, key, pid, height, tree, allocated, dying, gp, reserved, bound, lost, shared>>
  BY DEF RemoveUnlink, rcuVars, callVars
<1>0. pos' = pos /\ key' = key /\ tree' = tree
  BY <1>1, SameOrder
<1>2. /\ w.pc = "unlink"
      /\ x \in allocated \ dying /\ x \notin tree /\ key[x] = w.key
      /\ i >= 0 /\ i < level
      /\ \A j \in Lvl : x \in linked[j] <=> i <= j /\ j < height[x]
      /\ \A j \in Lvl : i <= j /\ j < level => IsPredecessor(w.update[j], j)
  BY DEF RemoveUnlink, Unlinking, Inv, WriterInv
<1>3. /\ i \in Lvl /\ i \in Int /\ i + 1 \in Index /\ level \in Int
      /\ x \in Node /\ x \in Cell /\ x # Header /\ x # NULL /\ w.key \in Key
      /\ height[x] \in Int
  <2>1. x \in Node /\ key[x] \in Key
    BY <1>2 DEF Inv, TypeOK, HeapInv
  <2>2. QED
    BY <2>1, <1>2, WriterFields, IndexSteps, Bounds, Pointers DEF Inv, TypeOK
<1>23. pos[x] = place /\ \A c \in Cell : pos[c] \in Int
  BY <1>2, <1>3, Order DEF Inv
<1>4. IsPredecessor(u, i) /\ forward[u][i] = x
  BY <1>2, <1>3 DEF RemoveUnlink, Unlinking
<1>5. u \in linked[i] \cup {Header} /\ u \in Cell
  BY <1>3, <1>4, Pointers DEF IsPredecessor, Inv, TypeOK
<1>6. x \in linked[i] /\ pos[u] < pos[x]
      /\ \A o \in linked[i] : pos[u] < pos[o] => o = x \/ pos[x] < pos[o]
  BY <1>2, <1>3, <1>4, <1>5 DEF Inv, ChainInv, IsSuccessor
<1>7. next \in Ptr /\ IsSuccessor(x, i, next)
  BY <1>2, <1>3, <1>6 DEF Inv, TypeOK, ChainInv
<1>8. \A c \in linked[i] \cup {x, u, Header} : pos[c] \in Int
  BY <1>3, <1>5, <1>23, Pointers DEF Inv, TypeOK
<1>9. u # x
  BY <1>6, <1>8
<1>10. /\ forward' \in [Cell -> [Lvl -> Ptr]]
       /\ forward'[u][i] = next
       /\ \A c \in Cell, j \in Lvl :
            (c = u /\ j = i) \/ forward'[c][j] = forward[c][j]
  <2>1. forward' = [forward EXCEPT ![u][i] = next]
    BY DEF RemoveUnlink
  <2>2. forward \in [Cell -> [Lvl -> Ptr]]
    BY DEF Inv, TypeOK
  <2> HIDE DEF next, x, u, i
  <2>3. QED
    BY <2>1, <2>2, <1>3, <1>5, <1>7
<1>11. /\ linked' \in [Lvl -> SUBSET Node]
       /\ linked'[i] = linked[i] \ {x}
       /\ \A j \in Lvl : j # i => linked'[j] = linked[j]
  BY <1>3 DEF RemoveUnlink, Inv, TypeOK
<1>12. /\ w' \in WriterType
       /\ w'.pc = "unlink" /\ w'.key = w.key /\ w'.x = x /\ w'.i = i + 1
       /\ w'.update = w.update
  <2>1. w' = [w EXCEPT !.i = w.i + 1]
    BY DEF RemoveUnlink
  <2>2. QED
    BY <2>1, <1>2, <1>3 DEF WriterType, Inv, TypeOK
<1>13. /\ r' \in [Reader -> ReaderType]
       /\ \A t \in Reader : /\ r'[t].pc = r[t].pc /\ r'[t].x = r[t].x
                            /\ r'[t].cand = r[t].cand
                            /\ r'[t].next = r[t].next /\ r'[t].i = r[t].i
  <2>1. CASE i = 0
    <3>1. Observe(w.key, NULL, FALSE)
      BY <2>1 DEF RemoveUnlink
    <3>2. NULL \in Value
      BY Pointers
    <3>3. QED
      BY <1>3, <3>1, <3>2, ObserveFrame DEF Inv
  <2>2. CASE i # 0
    BY <2>2 DEF RemoveUnlink, Inv, TypeOK
  <2>3. QED
    BY <2>1, <2>2
<1>14. InHand = {x} /\ InHand' = {x} /\ place' = place
  BY <1>2, <1>12 DEF InHand, place, x
<1> HIDE DEF x, i, u, next
<1>15. TypeOK'
  BY <1>1, <1>10, <1>11, <1>12, <1>13 DEF Inv, TypeOK
<1>16. HeapInv'
  <2>1. ASSUME NEW n \in allocated, NEW j \in Lvl, height[n] <= j
        PROVE  forward'[n][j] = NULL
    <3>1. n \in Cell /\ n # Header /\ height[n] \in Int /\ j \in Int
      BY Pointers, Bounds DEF Inv, TypeOK
    <3>2. n = u => i < height[n]
      BY <3>1, <1>3, <1>5 DEF Inv, LevelInv
    <3>3. QED
      BY <2>1, <3>1, <3>2, <1>10 DEF Inv, HeapInv
  <2>2. allocated' = linked'[0] \cup dying' \cup InHand'
    BY <1>1, <1>11, <1>14, Bounds DEF Inv, HeapInv
  <2>3. \A j \in Lvl : linked'[j] \subseteq allocated' \ dying'
    BY <1>1, <1>11 DEF Inv, HeapInv
  <2>4. QED
    BY <2>1, <2>2, <2>3, <1>1 DEF Inv, HeapInv
<1>17. LevelInv'
  <2>1. \A j \in Lvl : linked'[j] \subseteq linked[j]
    BY <1>11
  <2>2. \A j \in Lvl : \A n \in linked[j] : n # x => n \in linked'[j]
    BY <1>11
  <2>3. w'.pc # "down" /\ level >= 1
    BY <1>2, <1>3, <1>12
  <2>4. QED
    BY <2>1, <2>2, <2>3, <1>0, <1>1, <1>14 DEF Inv, LevelInv
<1>24. TreeInv'
  <2>1. \A j \in Lvl : \A n \in linked[j] : n # x => n \in linked'[j]
    BY <1>11
  <2>2. linked'[0] \subseteq linked[0]
    BY <1>11, Bounds
  <2>3. QED
    BY <2>1, <2>2, <1>1, <1>2 DEF Inv, TreeInv
<1>18. ChainInv'
  <2> SUFFICES ASSUME NEW j \in Lvl, NEW m \in linked'[j] \cup {Header}
               PROVE  IsSuccessor(m, j, forward[m][j])'
    BY DEF ChainInv
  <2>1. CASE j # i
    <3>1. m \in linked[j] \cup {Header} /\ linked'[j] = linked[j] /\ m \in Cell
      BY <2>1, <1>11, Pointers DEF Inv, TypeOK
    <3>2. forward'[m][j] = forward[m][j]
      BY <2>1, <3>1, <1>10
    <3>3. IsSuccessor(m, j, forward[m][j])
      BY <3>1, <1>2 DEF Inv, ChainInv
    <3>4. QED
      BY <3>1, <3>2, <3>3, <1>0 DEF IsSuccessor
  <2>2. CASE j = i
    <3>1. pos' = pos /\ linked'[i] = linked[i] \ {x} /\ forward'[u][i] = next
      BY <1>0, <1>10, <1>11
    <3>2. CASE m = u
      <4>1. CASE next = NULL
        BY <4>1, <3>1, <3>2, <2>2, <1>6, <1>7 DEF IsSuccessor
      <4>2. CASE next # NULL
        <5>1. /\ next \in linked[i] /\ pos[x] < pos[next]
              /\ \A o \in linked[i] :
                   pos[x] < pos[o] => o = next \/ pos[next] < pos[o]
          BY <4>2, <1>7 DEF IsSuccessor
        <5>2. next # x /\ pos[u] < pos[next]
          BY <5>1, <1>6, <1>8
        <5>3. QED
          BY <5>1, <5>2, <4>2, <3>1, <3>2, <2>2, <1>6 DEF IsSuccessor
      <4>3. QED
        BY <4>1, <4>2
    <3>3. CASE m # u
      <4> DEFINE s == forward[m][i]
      <4>1. m \in linked[i] \cup {Header} /\ m \in Cell /\ m # x
        BY <2>2, <3>1, <1>3, Pointers DEF Inv, TypeOK
      <4>2. forward'[m][j] = s
        BY <4>1, <3>3, <2>2, <1>3, <1>10
      <4>3. IsSuccessor(m, i, s)
        BY <4>1, <1>2, <1>3 DEF Inv, ChainInv
      <4>4. \A o \in linked[i] : pos[Header] < pos[o]
        BY <1>3, HeaderFirst DEF Inv, HeapInv
      <4>5. s # x
        <5> SUFFICES ASSUME s = x PROVE FALSE
          OBVIOUS
        <5>1. /\ pos[m] < pos[x]
              /\ \A o \in linked[i] : pos[m] < pos[o] => o = x \/ pos[x] < pos[o]
          BY <4>3, <1>3 DEF IsSuccessor
        <5>2. CASE u = Header
          <6>1. m \in linked[i] /\ ~(pos[u] < pos[m])
            BY <5>1, <5>2, <4>1, <3>3, <1>2, <1>4, <1>23 DEF IsPredecessor
          <6>2. QED
            BY <5>2, <6>1, <4>4
        <5>3. CASE u \in linked[i]
          <6>1. ~(pos[m] < pos[u])
            BY <5>1, <5>3, <1>6, <1>8, <1>9
          <6>2. m \in linked[i]
            BY <6>1, <5>3, <4>1, <4>4
          <6>3. ~(pos[u] < pos[m])
            BY <6>2, <5>1, <1>2, <1>4, <1>23 DEF IsPredecessor
          <6>4. pos[m] = pos[u]
            BY <6>1, <6>2, <6>3, <5>3, <1>8
          <6>5. QED
            BY <6>2, <6>4, <5>3, <3>3, <1>3 DEF Inv, LevelInv
        <5>4. QED
          BY <1>5, <5>2, <5>3
      <4>6. QED
        BY <4>2, <4>3, <4>5, <3>1, <2>2 DEF IsSuccessor
    <3>4. QED
      BY <3>2, <3>3
  <2>3. QED
    BY <2>1, <2>2
<1>19. WriterInv'
  <2>0. \A j \in Lvl : j \in Int /\ (i + 1 <= j <=> i <= j /\ j # i)
    <3>1. i \in Int /\ Lvl \subseteq Int
      BY <1>3, Bounds
    <3>2. QED
      BY <3>1
  <2>1. \A j \in Lvl : x \in linked'[j] <=> i + 1 <= j /\ j < height[x]
    BY <1>2, <1>11, <2>0
  <2>2. \A j \in Lvl : i + 1 <= j /\ j < level => IsPredecessor(w.update[j], j)'
    <3>1. \A j \in Lvl : i + 1 <= j => i <= j /\ linked'[j] = linked[j]
      BY <1>11, <2>0
    <3>2. QED
      BY <3>1, <1>0, <1>2, <1>12, <1>14 DEF IsPredecessor
  <2>3. i + 1 >= 0 /\ i + 1 <= level
    BY <1>2, <1>3
  <2>4. QED
    BY <2>1, <2>2, <2>3, <1>1, <1>2, <1>12 DEF WriterInv
<1>20. ReaderInv' /\ Active' = Active
  BY <1>1, <1>13, ReadersStand DEF Protected
<1>21. RcuInv'
  <2>1. ASSUME NEW n \in (allocated \ dying) \cup {Header}, NEW j \in Lvl,
               forward'[n][j] # NULL
        PROVE  forward'[n][j] \in allocated \ dying /\ j < height[forward'[n][j]]
    <3>1. n \in Cell
      BY Pointers DEF Inv, TypeOK
    <3>2. CASE n = u /\ j = i
      BY <3>2, <2>1, <1>2, <1>3, <1>10 DEF Inv, RcuInv, next
    <3>3. CASE ~(n = u /\ j = i)
      BY <3>1, <3>3, <2>1, <1>2, <1>10 DEF Inv, RcuInv
    <3>4. QED
      BY <3>2, <3>3
  <2>2. \A n \in dying, j \in Lvl : forward'[n][j] = forward[n][j]
    BY <1>3, <1>5, <1>10, Pointers DEF Inv, HeapInv, TypeOK
  <2>3. QED
    BY <2>1, <2>2, <1>1, <1>20 DEF Inv, RcuInv, Protected
<1>22. QED
  BY <1>15, <1>16, <1>17, <1>18, <1>19, <1>20, <1>21, <1>24 DEF Inv

(* Dropping empty levels from the top leaves no list above sl->level.      *)
LEMMA RemoveShrinkStep == ASSUME Inv, RemoveShrink PROVE Inv'
<1>1. UNCHANGED <<key, pid, height, forward, tree, allocated, dying, gp, linked,
                  reserved, bound, lost, shared, r>>
  BY DEF RemoveShrink, heapVars, rcuVars, callVars
<1>2. PICK l \in Height : ShrinksTo(l) /\ level' = l /\ l \in 1 .. level
  BY DEF RemoveShrink, ShrinksTo
<1>0. pos' = pos
  BY <1>1, SameOrder
<1>3. /\ w.pc = "unlink" /\ ~Unlinking
      /\ w.x \in allocated \ dying /\ w.x \notin tree /\ key[w.x] = w.key
      /\ w.i >= 0 /\ w.i <= level
      /\ \A j \in Lvl : w.x \in linked[j] <=> w.i <= j /\ j < height[w.x]
      /\ \A j \in Lvl : w.i <= j /\ j < level => IsPredecessor(w.update[j], j)
  BY DEF RemoveShrink, Inv, WriterInv
<1>4. /\ level \in Height /\ level \in Int /\ l \in Height /\ l \in Int
      /\ 1 <= l /\ l <= level
      /\ w.i \in Int /\ w.i \in Index /\ w.x \in Node /\ height[w.x] \in Int
  <2>1. level \in Height /\ l \in Height
    BY DEF Inv, TypeOK
  <2>2. level \in Int /\ l \in Int /\ 1 <= l /\ l <= level
    BY <2>1, <1>2, Bounds
  <2>3. w.x \in Node /\ w.x \in Cell /\ w.i \in Index
    BY <1>3, WriterFields, Pointers DEF Inv, TypeOK
  <2>4. w.i \in Int /\ height[w.x] \in Int
    BY <2>3, Bounds DEF Inv, TypeOK
  <2>5. QED
    BY <2>1, <2>2, <2>3, <2>4
<1>5. /\ w' \in WriterType /\ w'.pc = "call_rcu" /\ w'.x = w.x
  BY Bounds, Pointers DEF RemoveShrink, WriterType, Inv, TypeOK
<1>6. \A j \in Lvl : w.x \notin linked[j]
  <2>1. CASE w.i < level
    <3> DEFINE u == w.update[w.i]
               s == forward[u][w.i]
    <3>1. w.i \in Lvl /\ s # w.x
      BY <2>1, <1>3, <1>4, IndexSteps DEF Unlinking
    <3>2. IsPredecessor(u, w.i)
      BY <2>1, <3>1, <1>3, <1>4
    <3>3. IsSuccessor(u, w.i, s)
      BY <3>1, <3>2, <1>3 DEF IsPredecessor, Inv, ChainInv
    <3>4. ASSUME w.x \in linked[w.i] PROVE FALSE
      <4>0. pos[w.x] = place
        BY <1>3, <1>4, Order, Pointers DEF Inv
      <4>1. pos[u] < pos[w.x]
        BY <3>2, <4>0 DEF IsPredecessor
      <4>2. s \in linked[w.i] /\ pos[u] < pos[s] /\ pos[s] < pos[w.x]
        BY <3>1, <3>3, <3>4, <4>1 DEF IsSuccessor
      <4>3. QED
        BY <4>2, <3>2, <4>0 DEF IsPredecessor
    <3>5. ~(w.i < height[w.x])
      BY <3>1, <3>4, <1>3, <1>4
    <3>6. QED
      BY <3>5, <1>3, <1>4, Bounds
  <2>2. CASE ~(w.i < level)
    <3>1. \A j \in Lvl : w.i <= j => linked[j] = {}
      BY <2>2, <1>4, Bounds DEF Inv, LevelInv
    <3>2. QED
      BY <3>1, <1>3
  <2>3. QED
    BY <2>1, <2>2
<1>7. \A j \in Lvl : l <= j => linked[j] = {}
  <2> SUFFICES ASSUME NEW j \in Lvl, l <= j, NEW o \in linked[j] PROVE FALSE
    OBVIOUS
  <2>1. j < level /\ j \in Int
    BY <1>4, Bounds DEF Inv, LevelInv
  <2>2. forward[Header][j] = NULL
    <3>1. j + 1 \in l + 1 .. level /\ (j + 1) - 1 = j
      BY <2>1, <1>4
    <3>2. QED
      BY <3>1, <1>2 DEF ShrinksTo
  <2>3. pos[Header] < pos[o]
    BY HeaderFirst DEF Inv, HeapInv
  <2>4. QED
    BY <2>2, <2>3, <1>3 DEF Inv, ChainInv, IsSuccessor
<1>8. InHand = {w.x} /\ InHand' = {w.x}
  BY <1>3, <1>5 DEF InHand
<1>9. TypeOK'
  BY <1>1, <1>2, <1>4, <1>5 DEF Inv, TypeOK
<1>10. HeapInv' /\ ChainInv'
  BY <1>0, <1>1, <1>3, <1>8 DEF Inv, HeapInv, ChainInv, IsSuccessor
<1>11. LevelInv'
  BY <1>0, <1>1, <1>2, <1>4, <1>5, <1>7, <1>8 DEF Inv, LevelInv
<1>15. TreeInv'
  <2>1. ASSUME tree # {} PROVE level' = PID_SL_MAX_LEVEL
    <3>1. PICK n \in tree : TRUE
      BY <2>1
    <3>2. PID_SL_MAX_LEVEL - 1 \in Lvl /\ PID_SL_MAX_LEVEL \in Int
      BY IndexSteps, Bounds
    <3>3. n \in linked[PID_SL_MAX_LEVEL - 1]
      BY <3>2 DEF Inv, TreeInv
    <3>4. ~(l <= PID_SL_MAX_LEVEL - 1)
      BY <3>2, <3>3, <1>7
    <3>5. level = PID_SL_MAX_LEVEL
      BY <2>1 DEF Inv, TreeInv
    <3>6. QED
      BY <3>2, <3>4, <3>5, <1>2, <1>4
  <2>2. QED
    BY <2>1, <1>1 DEF Inv, TreeInv
<1>12. WriterInv'
  BY <1>1, <1>3, <1>5, <1>6 DEF WriterInv
<1>13. RcuInv' /\ ReaderInv'
  BY <1>1, <1>3 DEF Inv, RcuInv, ReaderInv, Active, Protected
<1>14. QED
  BY <1>9, <1>10, <1>11, <1>12, <1>13, <1>15 DEF Inv

(* call_rcu() on an unlinked node protects it for every active reader.     *)
LEMMA RemoveCallRcuStep == ASSUME Inv, RemoveCallRcu PROVE Inv'
<1>1. UNCHANGED <<level, key, pid, height, forward, tree, allocated, linked, r>>
  BY DEF RemoveCallRcu, heapVars
<1>0. /\ pos' = pos
      /\ CallTypeOK'
  BY <1>1, SameOrder, UnbindTypes DEF RemoveCallRcu, Inv
<1>2. w.pc = "call_rcu" /\ w.x \in allocated \ dying
      /\ \A j \in Lvl : w.x \notin linked[j]
  BY DEF RemoveCallRcu, Inv, WriterInv
<1>3. w.x \in Node /\ w.x # Header /\ w.x \in Cell
  BY <1>2, Pointers DEF Inv, TypeOK
<1>4. dying' = dying \cup {w.x}
  BY DEF RemoveCallRcu
<1>5. /\ gp' \in [Node -> SUBSET Reader] /\ gp'[w.x] = Active
      /\ \A n \in Node : n # w.x => gp'[n] = gp[n]
  BY <1>3 DEF RemoveCallRcu, Inv, TypeOK, Active
<1>6. w' \in WriterType /\ w'.pc = "idle"
  BY IdleTypes DEF RemoveCallRcu, IdleWriter
<1>7. InHand = {w.x} /\ InHand' = {}
  BY <1>2, <1>6 DEF InHand
<1>8. TypeOK'
  BY <1>0, <1>1, <1>3, <1>4, <1>5, <1>6 DEF Inv, TypeOK
<1>9. HeapInv'
  BY <1>1, <1>2, <1>4, <1>7 DEF Inv, HeapInv
<1>10. LevelInv' /\ TreeInv'
  BY <1>0, <1>1, <1>2, <1>6, <1>7 DEF Inv, LevelInv, TreeInv
<1>11. ChainInv'
  BY <1>0, <1>1, <1>2 DEF Inv, ChainInv, IsSuccessor
<1>12. WriterInv'
  BY <1>6 DEF WriterInv
<1>13. Active' = Active
  BY <1>1 DEF Active
<1>14. ReaderInv'
  <2>1. \A t \in Reader, c \in Cell : r[t].pc # "idle" /\ Protected(t, c) =>
                           Protected(t, c)' /\ height'[c] = height[c]
    BY <1>1, <1>2, <1>3, <1>4, <1>5 DEF Protected, Active, Inv, TypeOK
  <2>2. QED
    BY <1>1, <2>1, ReadersStand
<1>15. RcuInv'
  <2>1. \A n \in Node : gp'[n] \subseteq Active
    BY <1>5 DEF Inv, RcuInv
  <2>2. ASSUME NEW n \in (allocated \ dying') \cup {Header}, NEW j \in Lvl,
               forward[n][j] # NULL
        PROVE  forward[n][j] \in allocated \ dying' /\ j < height[forward[n][j]]
    <3>1. forward[n][j] \in linked[j]
      <4>1. CASE n = Header
        BY <4>1, <2>2, <1>2 DEF Inv, ChainInv, IsSuccessor
      <4>2. CASE n # Header
        <5>1. n \in allocated /\ n \in linked[0] /\ n # w.x
          BY <4>2, <1>4, <1>7 DEF Inv, HeapInv
        <5>2. j < height[n]
          <6>1. height[n] \in Int /\ j \in Int
            BY <5>1, Bounds, Pointers DEF Inv, TypeOK
          <6>2. QED
            BY <5>1, <6>1, <2>2 DEF Inv, HeapInv
        <5>3. n \in linked[j]
          BY <5>1, <5>2, <1>7, Bounds DEF Inv, LevelInv
        <5>4. QED
          BY <5>3, <2>2, <1>2 DEF Inv, ChainInv, IsSuccessor
      <4>3. QED
        BY <4>1, <4>2
    <3>2. QED
      BY <3>1, <1>2, <1>4 DEF Inv, HeapInv, LevelInv
  <2>3. ASSUME NEW n \in dying', NEW j \in Lvl, NEW t \in gp'[n],
               forward[n][j] # NULL
        PROVE  Protected(t, forward[n][j])' /\ j < height[forward[n][j]]
    <3>1. t \in Active /\ t \in Reader /\ n \in Node
      BY <1>3, <1>4, <2>1 DEF Active, Inv, TypeOK
    <3>2. Protected(t, forward[n][j]) /\ j < height[forward[n][j]]
      <4>1. CASE n = w.x
        BY <4>1, <2>3, <1>2 DEF Inv, RcuInv, Protected
      <4>2. CASE n # w.x
        BY <4>2, <3>1, <2>3, <1>4, <1>5 DEF Inv, RcuInv
      <4>3. QED
        BY <4>1, <4>2
    <3>3. QED
      BY <3>1, <3>2, <1>1, <1>2, <1>4, <1>5 DEF Protected, Inv, TypeOK
  <2>4. QED
    BY <2>1, <2>2, <2>3, <1>1, <1>13 DEF RcuInv
<1>16. QED
  BY <1>8, <1>9, <1>10, <1>11, <1>12, <1>14, <1>15 DEF Inv

(* kfree() of a node leaves every other cell alone.                        *)
LEMMA KfreeFrame ==
  ASSUME TypeOK, NEW n \in Node, Kfree(n)
  PROVE  /\ key' \in [Cell -> Number] /\ pid' \in [Cell -> Value]
         /\ height' \in [Cell -> Height] /\ forward' \in [Cell -> [Lvl -> Ptr]]
         /\ allocated' = allocated \ {n}
         /\ \A c \in Cell : c # n => /\ key'[c] = key[c]
                                     /\ height'[c] = height[c]
                                     /\ forward'[c] = forward[c]
BY Bounds, Pointers DEF Kfree, TypeOK

(* Freeing a node after its grace period takes nothing from any reader.    *)
LEMMA RcuFreeStep ==
  ASSUME Inv, NEW n \in Node, pid_sl_node_rcu_free(n) PROVE Inv'
<1>1. UNCHANGED <<level, tree, gp, linked, reserved, bound, lost, shared, w, r>>
  BY DEF pid_sl_node_rcu_free, callVars
<1>2. n \in dying /\ gp[n] = {} /\ dying' = dying \ {n} /\ Kfree(n)
  BY DEF pid_sl_node_rcu_free
<1>3. /\ key' \in [Cell -> Number] /\ pid' \in [Cell -> Value]
      /\ height' \in [Cell -> Height] /\ forward' \in [Cell -> [Lvl -> Ptr]]
      /\ allocated' = allocated \ {n}
      /\ \A c \in Cell : c # n => /\ key'[c] = key[c]
                                  /\ height'[c] = height[c]
                                  /\ forward'[c] = forward[c]
  BY <1>2, KfreeFrame DEF Inv
<1>4. n # Header /\ \A i \in Lvl : n \notin linked[i]
  BY <1>2, Pointers DEF Inv, HeapInv
<1>0. place' = place /\ \A c \in Cell : c # n => pos'[c] = pos[c]
  BY <1>1, <1>3 DEF pos, Late, place
<1>5. \A i \in Lvl : \A c \in linked[i] \cup {Header} :
        /\ key'[c] = key[c] /\ pos'[c] = pos[c]
        /\ height'[c] = height[c] /\ forward'[c] = forward[c]
  BY <1>0, <1>3, <1>4, Pointers DEF Inv, TypeOK
<1>6. InHand' = InHand /\ n \notin InHand
  BY <1>1, <1>2 DEF InHand, Inv, WriterInv
<1>7. TypeOK'
  BY <1>1, <1>2, <1>3 DEF Inv, TypeOK
<1>8. HeapInv'
  <2>1. \A m \in allocated' : /\ m \in allocated /\ key'[m] = key[m]
                              /\ height'[m] = height[m] /\ forward'[m] = forward[m]
    BY <1>3, Pointers DEF Inv, TypeOK
  <2>2. key'[Header] = key[Header] /\ height'[Header] = height[Header]
    BY <1>3, <1>4, Pointers
  <2>3. allocated' = linked'[0] \cup dying' \cup InHand'
    BY <1>1, <1>2, <1>3, <1>4, <1>6, Bounds DEF Inv, HeapInv
  <2>4. dying' \subseteq allocated' /\ \A i \in Lvl : linked'[i] \subseteq allocated' \ dying'
    BY <1>1, <1>2, <1>3, <1>4 DEF Inv, HeapInv
  <2>5. QED
    BY <2>1, <2>2, <2>3, <2>4 DEF Inv, HeapInv
<1>9. LevelInv'
  <2>1. LevelInv
    BY DEF Inv
  <2>2. QED
    BY <1>1, <1>5, <1>6, <2>1 DEF LevelInv
<1>16. TreeInv'
  <2>1. TreeInv /\ 0 \in Lvl
    BY Bounds DEF Inv
  <2>2. \A c \in tree : height'[c] = height[c]
    BY <1>5, <2>1 DEF TreeInv
  <2>3. QED
    BY <1>1, <1>5, <2>1, <2>2 DEF TreeInv
<1>10. ChainInv'
  <2>1. w.pc # "free" => \A i \in Lvl : \A m \in linked[i] \cup {Header} :
          IsSuccessor(m, i, forward[m][i])
    BY DEF Inv, ChainInv
  <2>2. w.pc # "free" => \A i \in Lvl : \A m \in linked[i] \cup {Header} :
          IsSuccessor(m, i, forward[m][i])'
    BY <1>1, <1>5, <2>1 DEF IsSuccessor
  <2>3. QED
    BY <1>1, <2>2 DEF ChainInv
<1>11. WriterInv'
  <2>1. \A j \in Lvl : IsPredecessor(w.update[j], j) => IsPredecessor(w.update[j], j)'
    BY <1>0, <1>1, <1>5 DEF IsPredecessor
  <2>2. w.pc \in {"link", "unlink", "call_rcu"} =>
          /\ w.x \in allocated \ dying /\ w.x \in allocated' \ dying'
          /\ key'[w.x] = key[w.x] /\ height'[w.x] = height[w.x]
          /\ forward'[w.x] = forward[w.x] /\ pid'[w.x] = pid[w.x]
    <3> SUFFICES ASSUME w.pc \in {"link", "unlink", "call_rcu"}
                 PROVE  /\ w.x \in allocated \ dying /\ w.x \in allocated' \ dying'
                        /\ key'[w.x] = key[w.x] /\ height'[w.x] = height[w.x]
                        /\ forward'[w.x] = forward[w.x] /\ pid'[w.x] = pid[w.x]
      OBVIOUS
    <3>1. w.x \in allocated \ dying
      BY DEF Inv, WriterInv
    <3>2. w.x \in Cell /\ w.x # n
      BY <3>1, <1>2, Pointers DEF Inv, TypeOK
    <3>3. pid'[w.x] = pid[w.x]
      BY <3>2, <1>2 DEF Kfree, Inv, TypeOK
    <3>4. QED
      BY <3>1, <3>2, <3>3, <1>2, <1>3
  <2>3. w.pc = "free" => \A m \in linked[0] :
          pos'[m] = pos[m] /\ IsSuccessor(m, 0, forward[m][0])'
    BY <1>1, <1>5, Bounds DEF IsSuccessor, Inv, WriterInv
  <2>4. Active' = Active
    BY <1>1 DEF Active
  <2>5. w.pc = "search" /\ w.i >= 0 => w.i \in Lvl /\ pos'[w.x] = pos[w.x]
    BY <1>5, IndexSteps, WriterFields DEF Inv, WriterInv, TypeOK
  <2>6. \A o \in linked[0] : key'[o] = key[o] /\ pos'[o] = pos[o]
    BY <1>5, Bounds
  <2>9. \A o \in tree : key'[o] = key[o]
    BY <2>6, Bounds DEF Inv, TreeInv
  <2>7. WriterInv
    BY DEF Inv
  <2>8. QED
    BY <1>0, <1>1, <2>1, <2>2, <2>3, <2>4, <2>5, <2>6, <2>7, <2>9 DEF WriterInv
<1>12. \A t \in Reader, c \in Cell : Protected(t, c) =>
          c # n /\ Protected(t, c)' /\ height'[c] = height[c]
  BY <1>1, <1>2, <1>3, <1>4 DEF Protected, Inv, HeapInv
<1>13. ReaderInv' /\ Active' = Active
  BY <1>1, <1>12, ReadersStand
<1>14. RcuInv'
  <2>1. ASSUME w.pc # "free",
               NEW m \in (allocated' \ dying') \cup {Header}, NEW j \in Lvl,
               forward'[m][j] # NULL
        PROVE  /\ forward'[m][j] \in allocated' \ dying'
               /\ j < height'[forward'[m][j]]
    <3>1. m \in (allocated \ dying) \cup {Header} /\ m \in Cell /\ m # n
      BY <1>2, <1>3, <1>4, Pointers DEF Inv, TypeOK
    <3>2. /\ forward'[m][j] = forward[m][j]
          /\ forward[m][j] \in allocated \ dying /\ j < height[forward[m][j]]
      BY <3>1, <2>1, <1>3 DEF Inv, RcuInv
    <3>3. forward[m][j] \in Cell /\ forward[m][j] # n
      BY <3>2, <1>2, Pointers DEF Inv, TypeOK
    <3>4. QED
      BY <3>2, <3>3, <1>2, <1>3
  <2>2. ASSUME NEW m \in dying', NEW j \in Lvl, NEW t \in gp'[m],
               forward'[m][j] # NULL
        PROVE  Protected(t, forward[m][j])' /\ j < height'[forward'[m][j]]
    <3>1. m \in dying /\ m # n /\ m \in Cell /\ t \in Reader /\ t \in gp[m]
      BY <1>1, <1>2, Pointers DEF Inv, TypeOK
    <3>2. /\ forward'[m][j] = forward[m][j]
          /\ Protected(t, forward[m][j]) /\ j < height[forward[m][j]]
      BY <3>1, <2>2, <1>3 DEF Inv, RcuInv
    <3>3. forward[m][j] \in Cell
      BY <3>2, Pointers DEF Protected, Inv, TypeOK
    <3>4. QED
      BY <3>1, <3>2, <3>3, <1>12 DEF Protected
  <2>3. QED
    BY <2>1, <2>2, <1>1, <1>13 DEF Inv, RcuInv
<1>15. QED
  BY <1>7, <1>8, <1>9, <1>10, <1>11, <1>13, <1>14, <1>16 DEF Inv

(* pid_rb_skiplist_destroy() frees the first node and goes on to its       *)
(* successor.                                                              *)
LEMMA DestroyNodeStep == ASSUME Inv, DestroyNode PROVE Inv'
<1> DEFINE x == w.x
           next == forward[x][0]
<1>1. UNCHANGED <<level, dying, gp, reserved, bound, lost, shared, r>> /\ tree' = tree \ {x}
  BY DEF DestroyNode, rcuVars, callVars
<1>2. /\ w.pc = "free" /\ x # NULL /\ x \in linked[0] /\ Active = {}
      /\ \A o \in linked[0] : o = x \/ pos[x] < pos[o]
      /\ \A m \in linked[0] : IsSuccessor(m, 0, forward[m][0])
      /\ InHand = {}
  BY DEF DestroyNode, Inv, WriterInv, InHand
<1>3. x \in Node /\ x \in Cell /\ x # Header /\ x \in allocated \ dying
  BY <1>2, Bounds, Pointers DEF Inv, TypeOK, HeapInv
<1>4. /\ key' \in [Cell -> Number] /\ pid' \in [Cell -> Value]
      /\ height' \in [Cell -> Height] /\ forward' \in [Cell -> [Lvl -> Ptr]]
      /\ allocated' = allocated \ {x}
      /\ \A c \in Cell : c # x => /\ key'[c] = key[c]
                                  /\ height'[c] = height[c]
                                  /\ forward'[c] = forward[c]
  BY <1>3, KfreeFrame DEF DestroyNode, Inv
<1>5. next \in Ptr
  BY <1>3, Bounds DEF Inv, TypeOK
<1>6. w' \in WriterType /\ w'.pc = "free" /\ w'.x = next
  BY <1>2, <1>5 DEF DestroyNode, WriterType, Inv, TypeOK
<1>7. /\ linked' \in [Lvl -> SUBSET Node]
      /\ \A i \in Lvl : linked'[i] = linked[i] \ {x}
  BY DEF DestroyNode, Inv, TypeOK
<1>8. InHand' = {}
  BY <1>6 DEF InHand
<1> HIDE DEF x, next
<1>9. TypeOK'
  BY <1>1, <1>4, <1>6, <1>7 DEF Inv, TypeOK
<1>10. HeapInv'
  <2>1. \A m \in allocated' : /\ m \in allocated /\ key'[m] = key[m]
                              /\ height'[m] = height[m] /\ forward'[m] = forward[m]
    BY <1>4, Pointers DEF Inv, TypeOK
  <2>2. key'[Header] = key[Header] /\ height'[Header] = height[Header]
    BY <1>3, <1>4, Pointers
  <2>3. allocated' = linked'[0] \cup dying' \cup InHand'
    BY <1>1, <1>2, <1>3, <1>4, <1>7, <1>8, Bounds DEF Inv, HeapInv
  <2>4. dying' \subseteq allocated' /\ \A i \in Lvl : linked'[i] \subseteq allocated' \ dying'
    BY <1>1, <1>3, <1>4, <1>7 DEF Inv, HeapInv
  <2>5. QED
    BY <2>1, <2>2, <2>3, <2>4 DEF Inv, HeapInv
<1>0. \A c \in Cell : c # x => pos'[c] = pos[c]
  BY <1>1, <1>4 DEF pos, Late
<1>11. \A i \in Lvl : \A c \in linked'[i] :
         /\ c \in linked[i] /\ c # x /\ key'[c] = key[c] /\ pos'[c] = pos[c]
         /\ height'[c] = height[c] /\ forward'[c] = forward[c]
  BY <1>0, <1>4, <1>7, Pointers DEF Inv, TypeOK
<1>12. LevelInv'
  <2>1. LevelInv /\ w.pc # "down" /\ w'.pc # "down"
    BY <1>2, <1>6 DEF Inv
  <2>2. \A i \in Lvl : \A c \in linked[i] : c # x => c \in linked'[i]
    BY <1>7
  <2>3. QED
    BY <1>1, <1>2, <1>8, <1>11, <2>1, <2>2 DEF LevelInv
<1>18. TreeInv'
  <2>1. TreeInv /\ 0 \in Lvl
    BY Bounds DEF Inv
  <2>2. ASSUME NEW n \in tree'
        PROVE  /\ height'[n] = PID_SL_MAX_LEVEL
               /\ \A i \in Lvl : n \in linked'[i]
    <3>1. n \in tree /\ n # x
      BY <1>1
    <3>2. \A i \in Lvl : n \in linked'[i]
      BY <2>1, <3>1, <1>7 DEF TreeInv
    <3>3. QED
      BY <2>1, <3>1, <3>2, <1>11 DEF TreeInv
  <2>3. ASSUME NEW m \in linked'[0], NEW n \in linked'[0],
               key'[m] = key'[n], m # n
        PROVE  (m \in tree') # (n \in tree')
    <3>1. /\ m \in linked[0] /\ n \in linked[0] /\ key[m] = key[n]
          /\ m # x /\ n # x
      BY <2>1, <2>3, <1>11
    <3>2. QED
      BY <2>1, <2>3, <3>1, <1>1 DEF TreeInv
  <2>4. tree' # {} => level' = PID_SL_MAX_LEVEL
    BY <2>1, <1>1 DEF TreeInv
  <2>5. QED
    BY <2>2, <2>3, <2>4 DEF TreeInv
<1>13. ChainInv'
  BY <1>6 DEF ChainInv
<1>14. WriterInv'
  <2>1. IsSuccessor(x, 0, next)
    BY <1>2 DEF next
  <2>2. 0 \in Lvl /\ linked'[0] = linked[0] \ {x}
        /\ \A o \in linked[0] : pos[o] \in Int
    BY <1>7, Bounds, Pointers, Order DEF Inv, TypeOK
  <2>3. ASSUME NEW m \in linked'[0] PROVE IsSuccessor(m, 0, forward[m][0])'
    <3>1. m \in linked[0] /\ m # x /\ pos[x] < pos[m] /\ forward'[m] = forward[m]
      BY <2>2, <1>2, <1>11
    <3>2. IsSuccessor(m, 0, forward[m][0])
      BY <3>1, <1>2
    <3>3. forward[m][0] # x
      BY <3>1, <3>2, <2>2, <1>2 DEF IsSuccessor
    <3>4. QED
      BY <3>1, <3>2, <3>3, <2>2, <1>11 DEF IsSuccessor
  <2>4. next = NULL => linked'[0] = {}
    BY <2>1, <2>2, <1>2 DEF IsSuccessor
  <2>5. next # NULL => /\ next \in linked'[0]
                       /\ \A o \in linked'[0] : o = next \/ pos'[next] < pos'[o]
    <3> SUFFICES ASSUME next # NULL
                 PROVE  /\ next \in linked'[0]
                        /\ \A o \in linked'[0] : o = next \/ pos'[next] < pos'[o]
      OBVIOUS
    <3>1. next \in linked[0] /\ pos[x] < pos[next]
      BY <2>1 DEF IsSuccessor
    <3>2. next # x /\ next \in linked'[0]
      BY <3>1, <2>2, <1>2
    <3>3. \A o \in linked'[0] : o = next \/ pos[next] < pos[o]
      BY <2>1, <2>2, <1>2 DEF IsSuccessor
    <3>4. QED
      BY <3>2, <3>3, <2>2, <1>11
  <2>6. Active' = {}
    BY <1>1, <1>2 DEF Active
  <2>7. QED
    BY <1>6, <2>3, <2>4, <2>5, <2>6 DEF WriterInv
<1>15. RcuInv'
  BY <1>1, <1>2, <1>6 DEF Inv, RcuInv, Active, TypeOK
<1>16. ReaderInv'
  BY <1>1, <1>2 DEF Inv, ReaderInv, Active
<1>17. QED
  BY <1>9, <1>10, <1>12, <1>13, <1>14, <1>15, <1>16, <1>18 DEF Inv

(* pid_rb_skiplist_destroy() frees the header once no node is left.        *)
LEMMA DestroyHeaderStep == ASSUME Inv, DestroyHeader PROVE Inv'
<1>1. UNCHANGED <<key, pid, height, tree, allocated, dying, gp, linked, reserved, bound, lost,
                  shared, r>>
  BY DEF DestroyHeader, rcuVars, callVars
<1>2. w' \in WriterType /\ w'.pc = "down"
  BY IdleTypes DEF DestroyHeader, IdleWriter, WriterType
<1>3. /\ forward' \in [Cell -> [Lvl -> Ptr]]
      /\ \A i \in Lvl : forward'[Header][i] = NULL
      /\ \A n \in Node : forward'[n] = forward[n]
  BY Pointers DEF DestroyHeader, Inv, TypeOK
<1>4. /\ Active = {} /\ InHand = {} /\ InHand' = {} /\ tree = {}
      /\ \A i \in Lvl : linked[i] = {}
  BY <1>2, AllEmpty DEF DestroyHeader, Inv, WriterInv, InHand
<1>5. level' = 0
  BY DEF DestroyHeader
<1>6. TypeOK'
  BY <1>1, <1>2, <1>3, <1>5, Bounds DEF Inv, TypeOK
<1>7. HeapInv'
  BY <1>1, <1>3, <1>4 DEF Inv, HeapInv, TypeOK
<1>8. LevelInv' /\ TreeInv'
  BY <1>1, <1>2, <1>4, <1>5, Bounds DEF LevelInv, TreeInv
<1>9. ChainInv'
  BY <1>1, <1>3, <1>4 DEF ChainInv, IsSuccessor
<1>10. WriterInv'
  BY <1>1, <1>2, <1>4 DEF WriterInv, Active
<1>11. allocated = dying
  BY <1>4, Bounds DEF Inv, HeapInv
<1>12. RcuInv'
  BY <1>1, <1>3, <1>4, <1>11 DEF Inv, RcuInv, Active, TypeOK
<1>13. ReaderInv'
  BY <1>1, <1>4 DEF Inv, ReaderInv, Active
<1>14. QED
  BY <1>6, <1>7, <1>8, <1>9, <1>10, <1>12, <1>13 DEF Inv
-----------------------------------------------------------------------------
(* The invariant.                                                          *)

(* The invariant holds before pid_rb_skiplist_init().                      *)
LEMMA InitInv == Init => Inv
<1> SUFFICES ASSUME Init PROVE Inv
  OBVIOUS
<1>1. w \in WriterType /\ w.pc = "down"
  BY IdleTypes DEF Init, IdleWriter, WriterType
<1>2. r \in [Reader -> ReaderType] /\ Active = {}
      /\ \A t \in Reader : r[t].pc = "idle" /\ r[t].cand = {}
  BY IdleTypes DEF Init, Active, IdleReader
<1>3. /\ level = 0 /\ tree = {} /\ allocated = {} /\ dying = {} /\ lost = {}
      /\ shared = {} /\ reserved = [k \in Key |-> {}]
      /\ key = [n \in Cell |-> INT_MIN] /\ pid = [n \in Cell |-> NULL]
      /\ height = [n \in Cell |-> IF n = Header THEN PID_SL_MAX_LEVEL ELSE 0]
      /\ forward = [n \in Cell |-> Empty] /\ gp = [n \in Node |-> {}]
      /\ linked = [i \in Lvl |-> {}] /\ bound = [k \in Key |-> {}]
  BY DEF Init
<1>4. TypeOK
  BY <1>1, <1>2, <1>3, Bounds, Pointers DEF TypeOK
<1>5. InHand = {}
  BY <1>1 DEF InHand
<1>6. HeapInv
  BY <1>3, <1>5, Bounds, Pointers DEF HeapInv
<1>7. LevelInv /\ TreeInv
  BY <1>1, <1>3, Bounds DEF LevelInv, TreeInv
<1>8. ChainInv
  BY <1>3, Pointers DEF ChainInv, IsSuccessor
<1>9. WriterInv
  BY <1>1, <1>2 DEF WriterInv
<1>10. RcuInv
  BY <1>3, Pointers DEF RcuInv
<1>11. ReaderInv
  BY <1>2 DEF ReaderInv
<1>12. QED
  BY <1>4, <1>6, <1>7, <1>8, <1>9, <1>10, <1>11 DEF Inv

(* Every step of the writer, of a reader and of RCU keeps the invariant.   *)
LEMMA NextInv == Inv /\ [Next]_vars => Inv'
<1> SUFFICES ASSUME Inv, [Next]_vars PROVE Inv'
  OBVIOUS
<1>1. CASE pid_rb_skiplist_init
  BY <1>1, InitStep
<1>2. ASSUME NEW k \in Key, NEW p \in Pid, Reserve(k, p) PROVE Inv'
  <2>1. shared' \subseteq Key
    BY <1>2 DEF Reserve, Inv, TypeOK
  <2>2. QED
    BY <1>2, <2>1, BeginWriteStep, Pointers DEF Reserve
<1>3. ASSUME NEW k \in Key, NEW p \in Pid, Publish(k, p) \/ GiveBack(k, p)
      PROVE  Inv'
  <2>1. shared' \subseteq Key
    BY <1>3 DEF Publish, GiveBack, Inv, TypeOK
  <2>2. QED
    BY <1>3, <2>1, BeginWriteStep, Pointers DEF Publish, GiveBack
<1>4. CASE DestroySync
  BY <1>4, DestroySyncStep
<1>5. CASE WriterStep
  BY <1>5, SearchAdvanceStep, SearchDescendStep, InsertReplaceStep,
     InsertAllocStep, InsertNoMemoryStep, InsertLinkStep, RbInsertStep,
     RemoveAbsentStep, RemoveFoundStep, RemoveUnlinkStep, RemoveShrinkStep,
     RemoveCallRcuStep, DestroyWalkStep, DestroyNodeStep, DestroyHeaderStep
     DEF WriterStep
<1>6. ASSUME NEW n \in Node, pid_sl_node_rcu_free(n) PROVE Inv'
  BY <1>6, RcuFreeStep
<1>7. ASSUME NEW t \in Reader, NEW c \in ReadCalls, ReadBegin(t, c[2]) PROVE Inv'
  BY <1>7, ReadBeginStep
<1>8. ASSUME NEW t \in Reader, ReaderStep(t) PROVE Inv'
  BY <1>8, ReadTreeStep, ReadAdvanceStep, ReadDescendStep, ReadLastStep,
     LookupStep, FindGeStep, IterNextStep, UnlockStep DEF ReaderStep
<1>9. CASE UNCHANGED vars
  <2>1. pos' = pos /\ place' = place
    BY <1>9, SameOrder DEF vars, place
  <2>2. TypeOK' /\ HeapInv' /\ LevelInv' /\ TreeInv'
    BY <1>9, <2>1 DEF vars, Inv, TypeOK, HeapInv, LevelInv, TreeInv, InHand
  <2>3. QED
    BY <1>9, <2>1, <2>2 DEF vars, Inv, ChainInv,
       WriterInv, RcuInv, ReaderInv, InHand, IsSuccessor, IsPredecessor,
       Protected, Active
<1>10. QED
  BY <1>1, <1>2, <1>3, <1>4, <1>5, <1>6, <1>7, <1>8, <1>9 DEF Next

(* The inductive invariant holds in every reachable state of the list and  *)
(* the tree, for any number of readers, keys, cells and levels.            *)
THEOREM Invariance == Spec => []Inv
BY InitInv, NextInv, PTL DEF Spec

(* Between any two stores of pid_rb_skiplist_insert(), remove() and        *)
(* destroy() every forward pointer is the true successor, the tree holds   *)
(* nodes of full height only and at most one of a number's two, and no     *)
(* node is leaked.                                                         *)
THEOREM Structure == Spec => []StructureOK
<1>1. ASSUME Inv PROVE StructureOK
  <2>1. ChainOK
    <3> SUFFICES ASSUME w.pc # "free", NEW i \in Lvl,
                        NEW m \in linked[i] \cup {Header}
                 PROVE  LET n == forward[m][i]
                            After == {o \in linked[i] : Precedes(m, o)}
                        IN IF n = NULL THEN After = {}
                           ELSE n \in After /\ \A o \in After \ {n} : Precedes(n, o)
      BY DEF ChainOK
    <3>1. IsSuccessor(m, i, forward[m][i])
      BY <1>1 DEF Inv, ChainInv
    <3>2. m \in Cell /\ \A o \in linked[i] : o \in Cell
      BY <1>1, Pointers DEF Inv, TypeOK
    <3>3. \A a, b \in Cell : pos[a] < pos[b] <=> Precedes(a, b)
      BY <1>1, Order DEF Inv
    <3>4. CASE forward[m][i] = NULL
      BY <3>1, <3>2, <3>3, <3>4 DEF IsSuccessor
    <3>5. CASE forward[m][i] # NULL
      BY <3>1, <3>2, <3>3, <3>5 DEF IsSuccessor
    <3>6. QED
      BY <3>4, <3>5
  <2>2. TreeOK
    BY <1>1 DEF Inv, TreeInv, TreeOK
  <2>3. NoLeak
    <3>1. w.pc \in {"idle", "search"} => allocated = linked[0] \cup dying
      BY <1>1 DEF Inv, HeapInv, InHand
    <3>2. w.pc = "down" => allocated = dying
      BY <1>1 DEF Inv, HeapInv, LevelInv, InHand
    <3>3. \A i \in Lvl : linked[i] \cap dying = {}
      BY <1>1 DEF Inv, HeapInv
    <3>4. QED
      BY <3>1, <3>2, <3>3 DEF NoLeak
  <2>4. QED
    BY <1>1, <2>1, <2>2, <2>3 DEF StructureOK, Inv
<1>2. QED
  BY <1>1, Invariance, PTL

(* No reader dereferences a freed node or runs off a forward array, even   *)
(* after a search of the tree that rb_insert_node() disturbs: call_rcu()   *)
(* in remove and synchronize_rcu() in destroy are enough.                  *)
THEOREM MemorySafe == Spec => []NoUseAfterFree
<1>1. ASSUME Inv PROVE NoUseAfterFree
  <2> SUFFICES ASSUME NEW t \in Reader
               PROVE  /\ \A n \in r[t].cand : Protected(t, n)
                      /\ r[t].pc \in {"walk", "last"} =>
                           Protected(t, r[t].x) /\ r[t].i < height[r[t].x]
                      /\ r[t].pc = "eval" =>
                           r[t].next = NULL \/ Protected(t, r[t].next)
                      /\ w.pc \in {"down", "free"} => r[t].pc = "idle"
    BY DEF NoUseAfterFree
  <2>1. w.pc \in {"down", "free"} => r[t].pc = "idle"
    BY <1>1 DEF Inv, WriterInv, Active
  <2>2. \A n \in r[t].cand : Protected(t, n)
    <3>1. r[t].cand \subseteq tree
      BY <1>1 DEF Inv, ReaderInv
    <3>2. \A n \in tree : n \in allocated \ dying
      BY <1>1, Bounds DEF Inv, TreeInv, HeapInv
    <3>3. QED
      BY <3>1, <3>2 DEF Protected
  <2>3. QED
    BY <1>1, <2>1, <2>2 DEF Inv, ReaderInv
<1>2. QED
  BY <1>1, Invariance, PTL
=============================================================================
