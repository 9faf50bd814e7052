------------------------- MODULE PidSkiplistProofs -------------------------
(***************************************************************************)
(* Proofs about PidSkiplist, for every number of keys, cells, levels,      *)
(* struct pids and readers.  One lemma per action shows that it preserves  *)
(* Inv (PidSkiplistInv); the properties follow from Inv, and the second    *)
(* part maps every step to a step of PidMap.  The third part is about what *)
(* the readers are promised: what a read returns was there, and what was   *)
(* there throughout is returned, but for the race between the two loads of *)
(* forward[0].  It rests on ReadInv, which is inductive given Inv.         *)
(***************************************************************************)
EXTENDS PidSkiplistInv, TLAPS

-----------------------------------------------------------------------------
(* The ranges of the indices and the pointers.                             *)

(* The level indices are integers within the height of the header          *)
(* (PID_SL_MAX_LEVEL).                                                     *)
LEMMA Bounds ==
  /\ Index \subseteq Int /\ Height \subseteq Int /\ Lvl \subseteq Int
  /\ 0 \in Index /\ 0 \in Height /\ 0 \in Lvl /\ 1 \in Height
  /\ PID_SL_MAX_LEVEL \in Height /\ PID_SL_MAX_LEVEL >= 1
  /\ \A i \in Lvl : i >= 0 /\ i < PID_SL_MAX_LEVEL
  /\ \A l \in Height : l >= 0 /\ l <= PID_SL_MAX_LEVEL
BY LevelAssumption DEF Index, Height, Lvl

(* One step up or down from a valid index is a valid index, as in the      *)
(* loops over sl->level.                                                   *)
LEMMA IndexSteps ==
  /\ \A l \in Height : l >= 1 => l - 1 \in Lvl /\ l - 1 \in Index
  /\ \A i \in Index : i >= 0 => i - 1 \in Index
  /\ \A i \in Lvl : i > 0 => i - 1 \in Lvl
  /\ \A i \in Index, l \in Height : i < l => i + 1 \in Index
  /\ \A i \in Index, l \in Height : 0 <= i /\ i < l => i \in Lvl
  /\ \A l \in Height : \A m \in 1 .. l : m \in Height
  /\ \A l \in pid_sl_random_level : l \in Height
BY LevelAssumption DEF Index, Height, Lvl, pid_sl_random_level

(* Cells, the header, NULL and the numbers are what the pointer fields of  *)
(* a node range over.                                                      *)
LEMMA Pointers ==
  /\ INT_MIN \in Number /\ Key \subseteq Number /\ Number \subseteq Int
  /\ NULL \in Ptr /\ Header \in Ptr /\ Header \in Cell /\ Node \subseteq Cell
  /\ Cell \subseteq Ptr /\ \A p \in Ptr : p # NULL => p \in Cell
  /\ \A c \in Cell : c \in Node \/ c = Header
  /\ NULL \notin Cell /\ Header \notin Node
  /\ NULL \in Value /\ InsertPids \subseteq Value
  /\ Empty \in [Lvl -> Ptr] /\ \A i \in Lvl : Empty[i] = NULL
BY CallAssumption, CellAssumption, KeyAssumption DEF Number, Ptr, Cell, Value, Empty

(* A writer and a reader outside any operation are well typed.             *)
LEMMA IdleTypes == IdleWriter \in WriterType /\ IdleReader \in ReaderType
BY Bounds, Pointers DEF IdleWriter, IdleReader, WriterType, ReaderType

(* The types of the local variables of insert, remove and destroy.         *)
LEMMA WriterFields ==
  ASSUME TypeOK
  PROVE  /\ w.i \in Index /\ w.lvl \in Height /\ w.key \in Number
         /\ w.x \in Ptr /\ w.pid \in Value /\ w.update \in [Lvl -> Ptr]
         /\ w.wait \subseteq Reader
BY DEF TypeOK, WriterType

(* The types of the local variables of a read operation.                   *)
LEMMA ReaderFields ==
  ASSUME TypeOK, NEW t \in Reader
  PROVE  /\ r[t] \in ReaderType
         /\ r[t].i \in Lvl /\ r[t].key \in Number /\ r[t].x \in Ptr
         /\ r[t].next \in Ptr /\ r[t].visited \subseteq Number
BY DEF TypeOK, ReaderType
-----------------------------------------------------------------------------
(* Steps of the writer that store nothing but its own locals.              *)

(* A writer step that stores only locals leaves the list and the readers'  *)
(* standing alone.                                                         *)
LEMMA WriterLocal ==
  ASSUME Inv, UNCHANGED <<level, heapVars, rcuVars, linked, r>>,
         w' \in WriterType,
         w.pc \notin {"free", "down"}, w'.pc # "down",
         InHand \subseteq InHand', InHand' \subseteq InHand \cup linked[0]
  PROVE  TypeOK' /\ HeapInv' /\ LevelInv' /\ ChainOK' /\ RcuInv' /\ ReaderInv'
<1> USE DEF heapVars, rcuVars, Inv
<1>1. TypeOK'
  BY DEF TypeOK
<1>2. HeapInv'
  BY DEF HeapInv
<1>3. LevelInv'
  BY DEF LevelInv
<1>4. ChainOK'
  BY DEF ChainOK, IsSuccessor
<1>5. RcuInv'
  BY DEF RcuInv, Active, Protected
<1>6. ReaderInv'
  BY DEF ReaderInv, Protected
<1>7. QED
  BY <1>1, <1>2, <1>3, <1>4, <1>5, <1>6

(* Entering pid_skiplist_insert() or pid_skiplist_remove() keeps the       *)
(* invariant.                                                              *)
LEMMA BeginWriteStep ==
  ASSUME Inv, NEW op \in {"insert", "remove"}, NEW k \in Key, NEW p \in Value,
         BeginWrite(op, k, p)
  PROVE  Inv'
<1>1. level - 1 \in Index /\ level - 1 < level /\ level - 1 \in Lvl
  BY IndexSteps, Bounds DEF Inv, TypeOK, LevelInv, BeginWrite
<1>2. /\ w' \in WriterType
      /\ w'.pc = "search" /\ w'.op = op /\ w'.key = k /\ w'.x = Header
      /\ w'.i = level - 1
  BY <1>1, IdleTypes, Pointers DEF BeginWrite, WriterType, IdleWriter
<1>3. TypeOK' /\ HeapInv' /\ LevelInv' /\ ChainOK' /\ RcuInv' /\ ReaderInv'
  BY <1>2, WriterLocal DEF BeginWrite, InHand
<1>4. WriterInv'
  BY <1>1, <1>2, KeyAssumption, Bounds
     DEF WriterInv, BeginWrite, heapVars, Inv, HeapInv, TypeOK
<1>5. QED
  BY <1>3, <1>4 DEF Inv

(* x = x->forward[i] in the search loop keeps the invariant.               *)
LEMMA SearchAdvanceStep == ASSUME Inv, SearchAdvance PROVE Inv'
<1>1. w.i \in Lvl /\ w.x \in Cell /\ w.x \in linked[w.i] \cup {Header}
  BY IndexSteps, WriterFields, Pointers DEF SearchAdvance, WriterInv, Inv, TypeOK
<1>2. forward[w.x][w.i] \in linked[w.i]
  BY <1>1 DEF SearchAdvance, NextIsBelow, Inv, ChainOK, IsSuccessor
<1>3. forward[w.x][w.i] \in Ptr
  BY <1>1 DEF Inv, TypeOK
<1>4. /\ w' \in WriterType
      /\ w'.pc = w.pc /\ w'.op = w.op /\ w'.key = w.key
      /\ w'.x = forward[w.x][w.i] /\ w'.i = w.i /\ w'.update = w.update
  BY <1>3 DEF SearchAdvance, WriterType, Inv, TypeOK
<1>5. TypeOK' /\ HeapInv' /\ LevelInv' /\ ChainOK' /\ RcuInv' /\ ReaderInv'
  BY <1>4, WriterLocal DEF SearchAdvance, InHand
<1>6. WriterInv'
  <2>1. /\ w.pc = "search" /\ w.i >= 0 /\ key[forward[w.x][w.i]] < w.key
        /\ UNCHANGED <<level, heapVars, rcuVars, linked, r>>
    BY DEF SearchAdvance, NextIsBelow
  <2>2. /\ w.op \in {"insert", "remove"} /\ w.key \in Key /\ w.i < level
        /\ \A j \in Lvl : w.i < j /\ j < level => IsPredecessor(w.update[j], j)
    BY <2>1 DEF WriterInv, Inv
  <2>3. \A j \in Lvl : w.i < j /\ j < level => IsPredecessor(w.update[j], j)'
    BY <2>1, <2>2, <1>4 DEF IsPredecessor, heapVars
  <2>4. ~(w.i = -1)
    BY <2>1, <1>1, Bounds
  <2>5. QED
    BY <2>1, <2>2, <2>3, <2>4, <1>2, <1>4 DEF WriterInv, heapVars
<1>7. QED
  BY <1>5, <1>6 DEF Inv

(* update[i] = x records the last cell below the key: the search loop      *)
(* keeps the invariant.                                                    *)
LEMMA SearchDescendStep == ASSUME Inv, SearchDescend PROVE Inv'
<1>1. w.i \in Lvl /\ w.i - 1 \in Index /\ w.x \in Cell
  BY IndexSteps, WriterFields, Pointers DEF SearchDescend, WriterInv, Inv, TypeOK
<1>2. /\ w' \in WriterType
      /\ w'.pc = w.pc /\ w'.op = w.op /\ w'.key = w.key
      /\ w'.x = w.x /\ w'.i = w.i - 1
      /\ w'.update = [w.update EXCEPT ![w.i] = w.x]
  BY <1>1, Pointers DEF SearchDescend, WriterType, Inv, TypeOK
<1>3. TypeOK' /\ HeapInv' /\ LevelInv' /\ ChainOK' /\ RcuInv' /\ ReaderInv'
  BY <1>2, WriterLocal DEF SearchDescend, InHand
<1>4. IsPredecessor(w.x, w.i)
  <2>1. w.x \in linked[w.i] \cup {Header} /\ key[w.x] < w.key
    BY DEF SearchDescend, WriterInv, Inv
  <2>2. IsSuccessor(w.x, w.i, forward[w.x][w.i])
    BY <1>1, <2>1 DEF Inv, ChainOK, SearchDescend
  <2>3. ASSUME NEW o \in linked[w.i], key[o] < w.key, key[w.x] < key[o]
        PROVE  FALSE
    <3>1. CASE forward[w.x][w.i] = NULL
      BY <2>2, <2>3, <3>1 DEF IsSuccessor
    <3>2. CASE forward[w.x][w.i] # NULL
      <4>1. ~(key[forward[w.x][w.i]] < w.key)
        BY <3>2 DEF SearchDescend, NextIsBelow
      <4>2. /\ forward[w.x][w.i] \in linked[w.i]
            /\ o = forward[w.x][w.i] \/ key[forward[w.x][w.i]] < key[o]
        BY <2>2, <2>3, <3>2 DEF IsSuccessor
      <4>3. key[forward[w.x][w.i]] \in Int /\ key[o] \in Int /\ w.key \in Int
        BY <4>2, <1>1, Pointers, WriterFields DEF Inv, TypeOK
      <4>4. QED
        BY <2>3, <4>1, <4>2, <4>3
    <3>3. QED
      BY <3>1, <3>2
  <2>4. QED
    BY <2>1, <2>3 DEF IsPredecessor
<1>5. w.i - 1 >= 0 => w.x \in linked[w.i - 1] \cup {Header}
  <2> SUFFICES ASSUME w.i - 1 >= 0, w.x # Header PROVE w.x \in linked[w.i - 1]
    OBVIOUS
  <2>1. w.i - 1 \in Lvl /\ w.x \in linked[w.i] \ InHand
    BY <1>1, IndexSteps, Bounds DEF SearchDescend, WriterInv, Inv, InHand
  <2>2. w.i < height[w.x] /\ height[w.x] \in Int /\ w.i \in Int
    BY <2>1, <1>1, Bounds DEF Inv, LevelInv, TypeOK
  <2>3. QED
    BY <2>1, <2>2, <1>1 DEF Inv, LevelInv
<1>6. WriterInv'
  <2>1. w.update \in [Lvl -> Ptr]
    BY WriterFields DEF Inv
  <2>2. \A j \in Lvl : w.i - 1 < j /\ j < level =>
          IsPredecessor(w'.update[j], j)
    BY <1>1, <1>2, <1>4, <2>1, Bounds DEF SearchDescend, WriterInv, Inv
  <2>3. \A j \in Lvl : w'.i < j /\ j < level' => IsPredecessor(w.update[j], j)'
    <3>1. UNCHANGED <<level, key, linked>>
      BY DEF SearchDescend, heapVars
    <3>2. QED
      BY <1>2, <2>2, <3>1 DEF IsPredecessor
  <2>4. ASSUME w'.i = -1 PROVE w'.x = w'.update[0]
    <3>1. w.i = 0
      BY <1>1, <1>2, <2>4, Bounds
    <3>2. QED
      BY <1>1, <1>2, <2>1, <3>1
  <2>5. w.pc = "search" /\ w.op \in {"insert", "remove"} /\ w.key \in Key
        /\ w.i < level /\ key[w.x] < w.key /\ level \in Int
    BY Bounds DEF SearchDescend, WriterInv, Inv, TypeOK
  <2>6. QED
    BY <1>1, <1>2, <1>5, <2>3, <2>4, <2>5, Bounds
       DEF WriterInv, SearchDescend, heapVars
<1>7. QED
  BY <1>3, <1>6 DEF Inv

(* The search has found the last cell below the key at level 0.            *)
LEMMA AtCandidate ==
  ASSUME Inv, SearchDone
  PROVE  /\ w.x \in linked[0] \cup {Header} /\ w.x \in Cell
         /\ w.x = w.update[0]
         /\ IsPredecessor(w.x, 0)
         /\ Candidate \in Ptr
         /\ Candidate # NULL => Candidate \in linked[0]
         /\ ~Found => \A o \in linked[0] : key[o] # w.key
<1>1. w.x = w.update[0] /\ IsPredecessor(w.x, 0)
  BY Bounds DEF SearchDone, Inv, WriterInv, LevelInv, TypeOK
<1>2. w.x \in linked[0] \cup {Header} /\ w.x \in Cell
  BY <1>1, Bounds, Pointers DEF IsPredecessor, Inv, TypeOK
<1>3. IsSuccessor(w.x, 0, Candidate) /\ Candidate \in Ptr
  BY <1>2, Bounds DEF SearchDone, Inv, ChainOK, Candidate, TypeOK
<1>4. Candidate # NULL => Candidate \in linked[0]
  BY <1>3 DEF IsSuccessor
<1>5. ASSUME ~Found, NEW o \in linked[0], key[o] = w.key PROVE FALSE
  <2>1. key[w.x] < key[o]
    BY <1>1, <1>5 DEF IsPredecessor
  <2>2. Candidate # NULL /\ Candidate \in linked[0] /\ key[w.x] < key[Candidate]
        /\ (o = Candidate \/ key[Candidate] < key[o])
    BY <1>3, <2>1 DEF IsSuccessor
  <2>3. o # Candidate
    BY <1>5, <2>2 DEF Found
  <2>4. QED
    BY <1>1, <1>5, <2>2, <2>3 DEF IsPredecessor
<1>6. QED
  BY <1>1, <1>2, <1>3, <1>4, <1>5

(* A return from a search without any store keeps the invariant.           *)
LEMMA BackToIdle ==
  ASSUME Inv, w' = IdleWriter,
         UNCHANGED <<level, heapVars, rcuVars, linked, r>>,
         w.pc \in {"search", "alloc"}
  PROVE  Inv'
<1>1. w' \in WriterType /\ w'.pc = "idle"
  BY IdleTypes DEF IdleWriter
<1>2. TypeOK' /\ HeapInv' /\ LevelInv' /\ ChainOK' /\ RcuInv' /\ ReaderInv'
  BY <1>1, WriterLocal DEF InHand
<1>3. WriterInv'
  BY <1>1 DEF WriterInv
<1>4. QED
  BY <1>2, <1>3 DEF Inv

(* pid_skiplist_remove() with the node at hand: the towers tell which      *)
(* levels it stands on.                                                    *)
LEMMA RemoveFoundStep == ASSUME Inv, RemoveFound PROVE Inv'
<1>1. Candidate \in linked[0] /\ key[Candidate] = w.key /\ Candidate \in Node
  BY AtCandidate, Bounds DEF RemoveFound, Found, Inv, TypeOK
<1>2. /\ w' \in WriterType
      /\ w'.pc = "unlink" /\ w'.key = w.key /\ w'.x = Candidate /\ w'.i = 0
      /\ w'.update = w.update
  BY <1>1, Bounds, Pointers DEF RemoveFound, WriterType, Inv, TypeOK
<1>3. TypeOK' /\ HeapInv' /\ LevelInv' /\ ChainOK' /\ RcuInv' /\ ReaderInv'
  BY <1>1, <1>2, WriterLocal DEF RemoveFound, SearchDone, InHand
<1>4. /\ Candidate \in allocated \ dying
      /\ \A j \in Lvl : Candidate \in linked[j] <=> j < height[Candidate]
  BY <1>1, Bounds DEF RemoveFound, SearchDone, Inv, HeapInv, LevelInv, InHand
<1>5. \A j \in Lvl : j < level => IsPredecessor(w.update[j], j)
  BY Bounds DEF RemoveFound, SearchDone, Inv, WriterInv
<1>6. WriterInv'
  BY <1>1, <1>2, <1>4, <1>5, Bounds
     DEF WriterInv, IsPredecessor, RemoveFound, heapVars, rcuVars, Inv, TypeOK
<1>7. QED
  BY <1>3, <1>6 DEF Inv

(* synchronize_rcu() in pid_skiplist_destroy() starts waiting for the      *)
(* active readers.                                                         *)
LEMMA DestroySyncStep == ASSUME Inv, DestroySync PROVE Inv'
<1>1. w' \in WriterType /\ w'.pc = "sync" /\ w'.wait = Active
  BY IdleTypes DEF DestroySync, WriterType, IdleWriter, Active
<1>2. TypeOK' /\ HeapInv' /\ LevelInv' /\ ChainOK' /\ RcuInv' /\ ReaderInv'
  BY <1>1, WriterLocal DEF DestroySync, InHand
<1>3. WriterInv'
  BY <1>1 DEF WriterInv, DestroySync, Active
<1>4. QED
  BY <1>2, <1>3 DEF Inv

(* After synchronize_rcu() no reader is left and the walk starts at the    *)
(* first node.                                                             *)
LEMMA DestroyWalkStep == ASSUME Inv, DestroyWalk PROVE Inv'
<1>1. forward[Header][0] \in Ptr /\ IsSuccessor(Header, 0, forward[Header][0])
  BY Bounds, Pointers DEF Inv, TypeOK, ChainOK, DestroyWalk
<1>2. /\ w' \in WriterType /\ w'.pc = "free" /\ w'.x = forward[Header][0]
  BY <1>1 DEF DestroyWalk, WriterType, Inv, TypeOK
<1>3. TypeOK' /\ HeapInv' /\ LevelInv' /\ ChainOK' /\ RcuInv' /\ ReaderInv'
  BY <1>2, WriterLocal DEF DestroyWalk, InHand
<1>4. Active = {}
  BY DEF DestroyWalk, Inv, WriterInv
<1>5. \A m \in linked[0] : IsSuccessor(m, 0, forward[m][0])
  BY Bounds DEF Inv, ChainOK, DestroyWalk
<1>6. \A o \in linked[0] : key[Header] < key[o]
  BY Bounds, KeyAssumption DEF Inv, HeapInv
<1>7. WriterInv'
  BY <1>1, <1>2, <1>4, <1>5, <1>6
     DEF WriterInv, IsSuccessor, DestroyWalk, Active, heapVars
<1>8. QED
  BY <1>3, <1>7 DEF Inv

-----------------------------------------------------------------------------
(* Steps of a reader.                                                      *)

(* What ReaderInv says of reader t when its locals are l.                  *)
Standing(t, l) ==
  /\ l.pc \in {"walk", "last"} => Protected(t, l.x) /\ l.i < height[l.x]
  /\ l.pc \in {"last", "eval"} => l.i = 0
  /\ l.pc = "eval" /\ l.next # NULL => Protected(t, l.next) /\ 0 < height[l.next]

(* A reader step that ends on a protected cell keeps the invariant.        *)
LEMMA ReaderLocal ==
  ASSUME Inv, NEW t \in Reader, NEW l \in ReaderType, Moves(t, l),
         l.pc # "idle", Standing(t, l),
         r[t].pc # "idle" \/ w.pc \notin {"sync", "free", "down"}
  PROVE  Inv'
<1>1. UNCHANGED <<level, key, pid, height, forward, allocated, dying, gp, linked, w>>
  BY DEF Moves, heapVars, rcuVars
<1>2. r' = [r EXCEPT ![t] = l] /\ r' \in [Reader -> ReaderType]
  BY DEF Moves, Inv, TypeOK
<1>3. Active \subseteq Active' /\ Active' \subseteq Active \cup {t}
  BY <1>2 DEF Active, Inv, TypeOK
<1>4. w.pc \in {"sync", "free", "down"} => Active' = Active
  BY <1>3 DEF Active
<1>5. w.pc \notin {"free", "down"}
  BY DEF Inv, WriterInv, Active
<1>6. TypeOK'
  BY <1>1, <1>2 DEF Inv, TypeOK
<1>7. HeapInv' /\ LevelInv' /\ ChainOK'
  BY <1>1 DEF Inv, HeapInv, LevelInv, ChainOK, IsSuccessor, InHand
<1>8. WriterInv'
  BY <1>1, <1>4, <1>5 DEF Inv, WriterInv, IsPredecessor
<1>9. RcuInv'
  BY <1>1, <1>3 DEF Inv, RcuInv, Protected
<1>10. ReaderInv'
  BY <1>1, <1>2 DEF Inv, ReaderInv, Protected, Standing, TypeOK
<1>11. QED
  BY <1>6, <1>7, <1>8, <1>9, <1>10 DEF Inv

(* A cell a protected cell points to is protected, at the same index.      *)
LEMMA Closure ==
  ASSUME Inv, NEW t \in Reader, r[t].pc # "idle", NEW c \in Cell,
         Protected(t, c), NEW i \in Lvl, forward[c][i] # NULL
  PROVE  Protected(t, forward[c][i]) /\ i < height[forward[c][i]]
<1>1. w.pc # "free"
  BY DEF Inv, WriterInv, Active
<1>2. c \in (allocated \ dying) \cup {Header} \/ (c \in dying /\ t \in gp[c])
  BY DEF Protected
<1>3. QED
  BY <1>1, <1>2 DEF Inv, RcuInv, Protected

(* The cell a walking reader stands on, and the one it loads, are          *)
(* protected.                                                              *)
LEMMA ReaderX ==
  ASSUME Inv, NEW t \in Reader, r[t].pc \in {"walk", "last"}
  PROVE  /\ r[t].x \in Cell /\ Protected(t, r[t].x) /\ r[t].i < height[r[t].x]
         /\ r[t].i \in Lvl /\ r[t] \in ReaderType
         /\ Loaded(t) \in Ptr
         /\ Loaded(t) # NULL => Protected(t, Loaded(t)) /\ r[t].i < height[Loaded(t)]
<1>1. Protected(t, r[t].x) /\ r[t].i < height[r[t].x]
  BY DEF Inv, ReaderInv
<1>2. r[t].x \in Cell /\ r[t].i \in Lvl /\ r[t] \in ReaderType
  BY <1>1, ReaderFields, Pointers DEF Inv, TypeOK, Protected
<1>3. Loaded(t) \in Ptr
  BY <1>2 DEF Inv, TypeOK, Loaded
<1>4. QED
  BY <1>1, <1>2, <1>3, Closure DEF Loaded

(* A reader that enters starts on the header at a valid level.             *)
LEMMA ReadBeginStep ==
  ASSUME Inv, NEW t \in Reader, NEW c \in ReadCalls, ReadBegin(t, c[1], c[2])
  PROVE  Inv'
<1> DEFINE l == [IdleReader EXCEPT !.pc = "walk", !.op = c[1], !.key = c[2],
                                   !.x = Header, !.i = level - 1,
                                   !.seen = {Map[c[2]]} \cap Pid,
                                   !.stable = {j \in Key : Map[j] \in Pid}]
<1>1. level - 1 \in Lvl
  BY IndexSteps DEF Inv, TypeOK, LevelInv, ReadBegin
<1>2. c[1] \in ReaderOp /\ c[2] \in Number
  BY CallAssumption, Pointers
<1>3. l \in ReaderType
  BY <1>1, <1>2, IdleTypes, Pointers DEF ReaderType
<1>4. l.pc = "walk" /\ l.x = Header /\ l.i = level - 1
  BY DEF IdleReader
<1>5. level - 1 < height[Header]
  BY <1>1, Bounds DEF Inv, HeapInv
<1>6. Standing(t, l)
  BY <1>4, <1>5 DEF Standing, Protected
<1> HIDE DEF l
<1>7. Moves(t, l) /\ w.pc \notin {"sync", "free", "down"}
  BY DEF ReadBegin, l
<1>8. QED
  BY <1>3, <1>4, <1>6, <1>7, ReaderLocal

(* x = next in the descent of a reader keeps the invariant.                *)
LEMMA ReadAdvanceStep == ASSUME Inv, NEW t \in Reader, ReadAdvance(t) PROVE Inv'
<1> DEFINE l == [r[t] EXCEPT !.x = Loaded(t)]
<1>1. r[t].pc = "walk" /\ Loaded(t) # NULL
  BY DEF ReadAdvance, Before
<1>2. l \in ReaderType
  BY <1>1, ReaderX DEF ReaderType
<1>3. l.pc = "walk" /\ l.x = Loaded(t) /\ l.i = r[t].i
  BY <1>1, ReaderX DEF ReaderType
<1>4. Standing(t, l)
  BY <1>1, <1>3, ReaderX DEF Standing
<1> HIDE DEF l
<1>5. Moves(t, l)
  BY DEF ReadAdvance, l
<1>6. QED
  BY <1>1, <1>2, <1>3, <1>4, <1>5, ReaderLocal

(* Going down a level in the descent of a reader keeps the invariant.      *)
LEMMA ReadDescendStep == ASSUME Inv, NEW t \in Reader, ReadDescend(t) PROVE Inv'
<1> DEFINE l == IF r[t].i > 0 THEN [r[t] EXCEPT !.i = @ - 1]
                              ELSE [r[t] EXCEPT !.pc = "last"]
<1>1. r[t].pc = "walk"
  BY DEF ReadDescend
<1>0. /\ r[t].i \in Lvl /\ r[t].i \in Int /\ r[t].i >= 0
      /\ height[r[t].x] \in Int /\ r[t].i < height[r[t].x]
  <2>1. r[t].x \in Cell /\ r[t].i \in Lvl /\ r[t].i < height[r[t].x]
    BY <1>1, ReaderX
  <2>2. QED
    BY <2>1, Bounds DEF Inv, TypeOK
<1>2. CASE r[t].i > 0
  <2>1. r[t].i - 1 \in Lvl /\ r[t].i - 1 < height[r[t].x]
    BY <1>0, <1>2, IndexSteps
  <2>2. l \in ReaderType
    BY <1>1, <1>2, <2>1, ReaderX DEF ReaderType
  <2>3. l.pc = "walk" /\ l.x = r[t].x /\ l.i = r[t].i - 1
    BY <1>1, <1>2, ReaderX DEF ReaderType
  <2> HIDE DEF l
  <2>4. Standing(t, l)
    BY <1>1, <2>1, <2>3, ReaderX DEF Standing
  <2>5. Moves(t, l)
    BY <1>2 DEF ReadDescend, l
  <2>6. QED
    BY <1>1, <2>2, <2>3, <2>4, <2>5, ReaderLocal
<1>3. CASE ~(r[t].i > 0)
  <2>1. r[t].i = 0
    BY <1>0, <1>3
  <2>2. l \in ReaderType
    BY <1>1, <1>3, ReaderX DEF ReaderType
  <2>3. l.pc = "last" /\ l.x = r[t].x /\ l.i = r[t].i
    BY <1>1, <1>3, ReaderX DEF ReaderType
  <2> HIDE DEF l
  <2>4. Standing(t, l)
    BY <1>1, <2>1, <2>3, ReaderX DEF Standing
  <2>5. Moves(t, l)
    BY <1>3 DEF ReadDescend, l
  <2>6. QED
    BY <1>1, <2>2, <2>3, <2>4, <2>5, ReaderLocal
<1>4. QED
  BY <1>2, <1>3

(* The second load of x->forward[0] keeps the invariant.                   *)
LEMMA ReadLastStep == ASSUME Inv, NEW t \in Reader, ReadLast(t) PROVE Inv'
<1> DEFINE l == [r[t] EXCEPT !.next = Loaded(t), !.pc = "eval"]
<1>1. r[t].pc = "last" /\ r[t].i = 0
  BY DEF ReadLast, Inv, ReaderInv
<1>2. l \in ReaderType
  BY <1>1, ReaderX DEF ReaderType
<1>3. l.pc = "eval" /\ l.next = Loaded(t) /\ l.i = 0
  BY <1>1, ReaderX DEF ReaderType
<1>4. Standing(t, l)
  BY <1>1, <1>3, ReaderX DEF Standing
<1> HIDE DEF l
<1>5. Moves(t, l)
  BY DEF ReadLast, l
<1>6. QED
  BY <1>1, <1>2, <1>3, <1>4, <1>5, ReaderLocal

(* The node a reader evaluates is allocated and protected for it.          *)
LEMMA ReaderNext ==
  ASSUME Inv, NEW t \in Reader, r[t].pc = "eval"
  PROVE  /\ r[t] \in ReaderType /\ r[t].next \in Ptr /\ r[t].i = 0
         /\ r[t].next # NULL =>
              /\ r[t].next \in Cell /\ Protected(t, r[t].next)
              /\ 0 < height[r[t].next]
              /\ pid[r[t].next] \in Value /\ key[r[t].next] \in Number
BY ReaderFields, Pointers DEF Inv, ReaderInv, TypeOK

(* A read operation that returns keeps the invariant.                      *)
LEMMA ReturnsStep ==
  ASSUME Inv, NEW t \in Reader, r[t].pc = "eval", NEW res \in Value,
         NEW visited \in SUBSET Number, Returns(t, res, visited)
  PROVE  Inv'
<1> DEFINE l == [r[t] EXCEPT !.res = res, !.visited = visited, !.x = NULL,
                             !.next = NULL, !.pc = "done"]
<1>0. r[t] \in ReaderType /\ NULL \in Ptr
  BY ReaderNext, Pointers
<1>1. l \in ReaderType
  BY <1>0 DEF ReaderType
<1>2. l.pc = "done"
  BY <1>0 DEF ReaderType
<1> HIDE DEF l
<1>3. Standing(t, l)
  BY <1>2 DEF Standing
<1>4. Moves(t, l)
  BY DEF Returns, l
<1>5. QED
  BY <1>1, <1>2, <1>3, <1>4, ReaderLocal

(* The return of pid_skiplist_lookup_rcu() keeps the invariant.            *)
LEMMA LookupStep ==
  ASSUME Inv, NEW t \in Reader, pid_skiplist_lookup_rcu(t) PROVE Inv'
<1> DEFINE res == IF KeyAt(r[t].next) = {r[t].key} THEN pid[r[t].next] ELSE NULL
<1>1. res \in Value
  BY ReaderNext, Pointers DEF pid_skiplist_lookup_rcu, KeyAt
<1> HIDE DEF res
<1>2. Returns(t, res, {}) /\ r[t].pc = "eval"
  BY DEF pid_skiplist_lookup_rcu, res
<1>3. QED
  BY <1>1, <1>2, ReturnsStep

(* The return of pid_skiplist_find_ge_rcu() keeps the invariant.           *)
LEMMA FindGeStep ==
  ASSUME Inv, NEW t \in Reader, pid_skiplist_find_ge_rcu(t) PROVE Inv'
<1>1. PidAt(r[t].next) \in Value /\ KeyAt(r[t].next) \in SUBSET Number
  BY ReaderNext, Pointers DEF pid_skiplist_find_ge_rcu, KeyAt, PidAt
<1>2. QED
  BY <1>1, ReturnsStep DEF pid_skiplist_find_ge_rcu

(* A round of pid_skiplist_iter_next_rcu() keeps the invariant.            *)
LEMMA IterNextStep ==
  ASSUME Inv, NEW t \in Reader, pid_skiplist_iter_next_rcu(t) PROVE Inv'
<1>1. r[t].pc = "eval"
  BY DEF pid_skiplist_iter_next_rcu
<1>0. /\ r[t] \in ReaderType /\ r[t].next \in Ptr
      /\ NULL \in Ptr /\ NULL \in Value
  BY <1>1, ReaderNext, Pointers
<1>2. CASE IterEnds(t) \/ pid[r[t].next] = NULL
  <2> DEFINE hole == ~IterEnds(t)
  <2> DEFINE l == [r[t] EXCEPT !.hole = hole, !.res = NULL,
                               !.x = NULL, !.next = NULL, !.pc = "done"]
  <2>0. hole \in BOOLEAN
    OBVIOUS
  <2> HIDE DEF hole
  <2>1. l \in ReaderType
    BY <1>0, <2>0 DEF ReaderType
  <2>2. l.pc = "done"
    BY <1>1, ReaderNext DEF ReaderType
  <2> HIDE DEF l
  <2>3. Standing(t, l)
    BY <2>2 DEF Standing
  <2>4. Moves(t, l)
    BY <1>2 DEF pid_skiplist_iter_next_rcu, l, hole
  <2>5. QED
    BY <1>1, <2>1, <2>2, <2>3, <2>4, ReaderLocal
<1>3. CASE ~(IterEnds(t) \/ pid[r[t].next] = NULL)
  <2> DEFINE visited == r[t].visited \cup {key[r[t].next]}
             l == [r[t] EXCEPT !.visited = visited, !.res = pid[r[t].next],
                               !.x = r[t].next, !.next = NULL, !.pc = "last"]
  <2>1. r[t].next # NULL
    BY <1>3 DEF IterEnds
  <2>0. visited \in SUBSET Number /\ pid[r[t].next] \in Value
    BY <1>1, <2>1, ReaderNext, ReaderFields DEF Inv
  <2> HIDE DEF visited
  <2>2. l \in ReaderType
    BY <1>0, <2>0 DEF ReaderType
  <2>3. l.pc = "last" /\ l.x = r[t].next /\ l.i = r[t].i
    BY <1>1, ReaderNext DEF ReaderType
  <2> HIDE DEF l
  <2>4. Standing(t, l)
    BY <1>1, <2>1, <2>3, ReaderNext DEF Standing
  <2>5. Moves(t, l)
    BY <1>3 DEF pid_skiplist_iter_next_rcu, l, visited
  <2>6. QED
    BY <1>1, <2>2, <2>3, <2>4, <2>5, ReaderLocal
<1>4. QED
  BY <1>2, <1>3

(* rcu_read_unlock() releases the grace periods and keeps the invariant.   *)
LEMMA UnlockStep == ASSUME Inv, NEW t \in Reader, rcu_read_unlock(t) PROVE Inv'
<1>1. UNCHANGED <<level, key, pid, height, forward, allocated, dying, linked>>
  BY DEF rcu_read_unlock, heapVars
<1>2. r' = [r EXCEPT ![t] = IdleReader] /\ r' \in [Reader -> ReaderType]
  BY IdleTypes DEF rcu_read_unlock, Inv, TypeOK
<1>3. /\ w' \in WriterType
      /\ w'.pc = w.pc /\ w'.op = w.op /\ w'.key = w.key /\ w'.pid = w.pid
      /\ w'.x = w.x /\ w'.i = w.i /\ w'.lvl = w.lvl /\ w'.update = w.update
      /\ w'.wait = w.wait \ {t}
  BY DEF rcu_read_unlock, WriterType, Inv, TypeOK
<1>4. gp' \in [Node -> SUBSET Reader] /\ \A n \in Node : gp'[n] = gp[n] \ {t}
  BY DEF rcu_read_unlock, Inv, TypeOK
<1>5. Active' = Active \ {t}
  BY <1>2 DEF Active, IdleReader, Inv, TypeOK
<1>6. TypeOK'
  BY <1>1, <1>2, <1>3, <1>4 DEF Inv, TypeOK
<1>7. HeapInv' /\ LevelInv' /\ ChainOK'
  BY <1>1, <1>3 DEF Inv, HeapInv, LevelInv, ChainOK, IsSuccessor, InHand
<1>8. WriterInv'
  BY <1>1, <1>3, <1>5 DEF Inv, WriterInv, IsPredecessor, IsSuccessor
<1>9. RcuInv'
  BY <1>1, <1>3, <1>4, <1>5 DEF Inv, RcuInv, Protected, TypeOK
<1>10. ReaderInv'
  BY <1>1, <1>2, <1>4 DEF Inv, ReaderInv, Protected, TypeOK, IdleReader
<1>11. QED
  BY <1>6, <1>7, <1>8, <1>9, <1>10 DEF Inv

-----------------------------------------------------------------------------
(* Steps of the writer that change the list.                               *)

(* The history a reader keeps of a map update is no part of its locals.    *)
LEMMA ObserveFrame ==
  ASSUME TypeOK, NEW k \in Key, NEW v \in Value, NEW b \in BOOLEAN,
         Observe(k, v, b)
  PROVE  /\ r' \in [Reader -> ReaderType]
         /\ \A t \in Reader :
              /\ r'[t].pc = r[t].pc /\ r'[t].x = r[t].x
              /\ r'[t].next = r[t].next /\ r'[t].i = r[t].i
<1> DEFINE seen(t) == IF k = r[t].key /\ v \in Pid THEN r[t].seen \cup {v}
                      ELSE r[t].seen
           stable(t) == IF v \in Pid THEN r[t].stable ELSE r[t].stable \ {k}
           raced(t) == r[t].raced \/ (b /\ k < r[t].key /\ InWindow(t))
           new(t) == [r[t] EXCEPT !.seen = seen(t), !.stable = stable(t),
                                  !.raced = raced(t)]
<1>1. r' = [t \in Reader |-> IF t \notin Active THEN r[t] ELSE new(t)]
  BY DEF Observe
<1>2. ASSUME NEW t \in Reader
      PROVE  /\ new(t) \in ReaderType
             /\ new(t).pc = r[t].pc /\ new(t).x = r[t].x
             /\ new(t).next = r[t].next /\ new(t).i = r[t].i
  <2>1. r[t] \in ReaderType
    BY DEF TypeOK
  <2>2. seen(t) \in SUBSET Pid /\ stable(t) \in SUBSET Key
    BY <2>1 DEF ReaderType
  <2>3. raced(t) \in BOOLEAN
    OBVIOUS
  <2> HIDE DEF seen, stable, raced
  <2>4. QED
    BY <2>1, <2>2, <2>3 DEF ReaderType
<1>3. \A t \in Reader : r[t] \in ReaderType
  BY DEF TypeOK
<1> HIDE DEF new
<1>4. QED
  BY <1>1, <1>2, <1>3

(* Readers keep their standing when nothing they stand on is freed.        *)
LEMMA ReadersStand ==
  ASSUME Inv,
         \A t \in Reader : /\ r'[t].pc = r[t].pc /\ r'[t].x = r[t].x
                           /\ r'[t].next = r[t].next /\ r'[t].i = r[t].i,
         \A t \in Reader, c \in Cell : r[t].pc # "idle" /\ Protected(t, c) =>
                           Protected(t, c)' /\ height'[c] = height[c]
  PROVE  ReaderInv' /\ Active' = Active
<1>1. Active' = Active
  BY DEF Active
<1>2. ReaderInv'
  <2> SUFFICES ASSUME NEW t \in Reader
               PROVE  /\ r'[t].pc \in {"walk", "last"} =>
                            Protected(t, r[t].x)' /\ r'[t].i < height'[r'[t].x]
                      /\ r'[t].pc \in {"last", "eval"} => r'[t].i = 0
                      /\ r'[t].pc = "eval" /\ r'[t].next # NULL =>
                            Protected(t, r[t].next)' /\ 0 < height'[r'[t].next]
    BY DEF ReaderInv
  <2>1. CASE r[t].pc \in {"walk", "last"}
    <3>1. r[t].x \in Cell /\ Protected(t, r[t].x) /\ r[t].i < height[r[t].x]
      BY <2>1, ReaderX
    <3>2. r[t].pc = "last" => r[t].i = 0
      BY DEF Inv, ReaderInv
    <3>3. QED
      BY <2>1, <3>1, <3>2 DEF Protected
  <2>2. CASE r[t].pc = "eval"
    BY <2>2, ReaderNext DEF Protected
  <2>3. CASE r[t].pc \notin {"walk", "last", "eval"}
    BY <2>3
  <2>4. QED
    BY <2>1, <2>2, <2>3
<1>3. QED
  BY <1>1, <1>2

(* With no node on level 0 there is none on any level.                     *)
LEMMA AllEmpty ==
  ASSUME Inv, linked[0] = {}, InHand = {}, NEW i \in Lvl PROVE linked[i] = {}
<1>1. ASSUME NEW n \in linked[i] PROVE FALSE
  <2>1. i < height[n] /\ height[n] \in Int /\ i \in Int /\ i >= 0
    BY Bounds, Pointers DEF Inv, LevelInv, TypeOK
  <2>2. n \in linked[0]
    BY <2>1, Bounds DEF Inv, LevelInv
  <2>3. QED
    BY <2>2
<1>2. QED
  BY <1>1

(* pid_skiplist_init() sets up an empty list.                              *)
LEMMA InitStep == ASSUME Inv, pid_skiplist_init PROVE Inv'
<1>1. UNCHANGED <<key, pid, height, allocated, dying, gp, linked, r>>
  BY DEF pid_skiplist_init, heapVars, rcuVars
<1>2. w' \in WriterType /\ w'.pc = "idle"
  BY IdleTypes DEF pid_skiplist_init, IdleWriter
<1>3. /\ forward' \in [Cell -> [Lvl -> Ptr]]
      /\ \A i \in Lvl : forward'[Header][i] = NULL
      /\ \A n \in Node : forward'[n] = forward[n]
  BY Pointers DEF pid_skiplist_init, Inv, TypeOK
<1>4. Active = {} /\ \A i \in Lvl : linked[i] = {}
  BY AllEmpty, Bounds DEF pid_skiplist_init, Inv, WriterInv, LevelInv, InHand
<1>5. level' = 1
  BY DEF pid_skiplist_init
<1>6. TypeOK'
  BY <1>1, <1>2, <1>3, <1>5, Bounds DEF Inv, TypeOK
<1>7. HeapInv'
  BY <1>1, <1>2, <1>3 DEF Inv, HeapInv, InHand, pid_skiplist_init, TypeOK
<1>8. LevelInv'
  BY <1>1, <1>2, <1>4, <1>5, Bounds DEF LevelInv
<1>9. ChainOK'
  BY <1>1, <1>3, <1>4 DEF ChainOK, IsSuccessor
<1>10. WriterInv'
  BY <1>2 DEF WriterInv
<1>11. allocated = dying
  BY <1>4, Bounds DEF Inv, HeapInv, InHand, pid_skiplist_init
<1>12. RcuInv'
  BY <1>1, <1>3, <1>4, <1>11 DEF Inv, RcuInv, Active, TypeOK
<1>13. ReaderInv'
  BY <1>1, <1>4 DEF ReaderInv, Active
<1>14. QED
  BY <1>6, <1>7, <1>8, <1>9, <1>10, <1>12, <1>13 DEF Inv

(* Replacing the struct pid pointer of a present key keeps the invariant.  *)
LEMMA InsertReplaceStep == ASSUME Inv, InsertReplace PROVE Inv'
<1>1. UNCHANGED <<level, key, height, forward, allocated, dying, gp, linked>>
  BY DEF InsertReplace, rcuVars
<1>2. w' \in WriterType /\ w'.pc = "idle"
  BY IdleTypes DEF InsertReplace, IdleWriter
<1>3. w.pc = "search" /\ w.key \in Key /\ w.pid \in Value
  BY WriterFields DEF InsertReplace, SearchDone, Inv, WriterInv
<1>4. r' \in [Reader -> ReaderType]
      /\ \A t \in Reader : /\ r'[t].pc = r[t].pc /\ r'[t].x = r[t].x
                           /\ r'[t].next = r[t].next /\ r'[t].i = r[t].i
  <2>1. Observe(w.key, w.pid, FALSE)
    BY DEF InsertReplace
  <2>2. QED
    BY <1>3, <2>1, ObserveFrame DEF Inv
<1>5. pid' \in [Cell -> Value]
  BY <1>3 DEF InsertReplace, Inv, TypeOK
<1>6. TypeOK'
  BY <1>1, <1>2, <1>4, <1>5 DEF Inv, TypeOK
<1>7. HeapInv' /\ LevelInv' /\ ChainOK'
  BY <1>1, <1>2, <1>3 DEF Inv, HeapInv, LevelInv, ChainOK, IsSuccessor, InHand
<1>8. WriterInv'
  BY <1>2 DEF WriterInv
<1>9. ReaderInv' /\ Active' = Active
  BY <1>1, <1>4, ReadersStand DEF Protected
<1>10. RcuInv'
  BY <1>1, <1>3, <1>9 DEF Inv, RcuInv, Protected
<1>11. QED
  BY <1>6, <1>7, <1>8, <1>9, <1>10 DEF Inv

(* Raising sl->level with the header as predecessor on the new levels      *)
(* keeps the invariant.                                                    *)
LEMMA InsertRaiseStep == ASSUME Inv, InsertRaise PROVE Inv'
<1>1. UNCHANGED <<key, pid, height, forward, allocated, dying, gp, linked, r>>
  BY DEF InsertRaise, heapVars, rcuVars
<1>2. PICK l \in pid_sl_random_level :
        /\ w' = [w EXCEPT !.pc = "alloc", !.x = NULL, !.lvl = l,
                   !.update = [i \in Lvl |-> IF i \in level .. l - 1
                                             THEN Header ELSE @[i]]]
        /\ level' = IF l > level THEN l ELSE level
  BY DEF InsertRaise
<1>3. l \in Height /\ l \in Int /\ l >= 1 /\ level \in Height /\ level \in Int
  BY IndexSteps, Bounds DEF pid_sl_random_level, Inv, TypeOK
<1> DEFINE update == [i \in Lvl |-> IF i \in level .. l - 1
                                    THEN Header ELSE w.update[i]]
<1>4. update \in [Lvl -> Ptr]
  BY WriterFields, Pointers DEF Inv
<1> HIDE DEF update
<1>5. /\ w' \in WriterType
      /\ w'.pc = "alloc" /\ w'.key = w.key /\ w'.lvl = l /\ w'.update = update
  BY <1>2, <1>3, <1>4, Pointers DEF WriterType, Inv, TypeOK, update
<1>6. level' \in Height /\ level' >= level /\ level' >= l /\ level' \in Int
      /\ (level' = level \/ level' = l)
  BY <1>2, <1>3
<1>7. TypeOK'
  BY <1>1, <1>5, <1>6 DEF Inv, TypeOK
<1>8. w.pc = "search" /\ w.i = -1 /\ w.key \in Key
  BY DEF InsertRaise, SearchDone, Inv, WriterInv
<1>9. HeapInv' /\ ChainOK'
  BY <1>1, <1>5, <1>8 DEF Inv, HeapInv, ChainOK, IsSuccessor, InHand
<1>10. LevelInv'
  BY <1>1, <1>3, <1>5, <1>6, <1>8, Bounds DEF Inv, LevelInv, InHand
<1>11. ASSUME NEW j \in Lvl, j < level' PROVE IsPredecessor(w.update[j], j)'
  <2>1. CASE j < level
    <3>1. update[j] = w.update[j]
      BY <2>1, <1>3, Bounds DEF update
    <3>2. IsPredecessor(w.update[j], j)
      BY <2>1, <1>8, Bounds DEF Inv, WriterInv
    <3>3. QED
      BY <1>1, <1>5, <3>1, <3>2 DEF IsPredecessor
  <2>2. CASE ~(j < level)
    <3>1. update[j] = Header
      BY <2>2, <1>3, <1>6, <1>11, Bounds DEF update
    <3>2. linked[j] = {}
      BY <2>2, <1>3, Bounds DEF Inv, LevelInv
    <3>3. key[Header] < w.key
      BY <1>8, KeyAssumption DEF Inv, HeapInv
    <3>4. QED
      BY <1>1, <1>5, <3>1, <3>2, <3>3 DEF IsPredecessor
  <2>3. QED
    BY <2>1, <2>2
<1>12. \A o \in linked[0] : key[o] # w.key
  BY AtCandidate DEF InsertRaise
<1>13. WriterInv'
  BY <1>1, <1>3, <1>5, <1>6, <1>8, <1>11, <1>12 DEF WriterInv
<1>14. RcuInv' /\ ReaderInv'
  BY <1>1, <1>5, <1>8 DEF Inv, RcuInv, ReaderInv, Active, Protected
<1>15. QED
  BY <1>7, <1>9, <1>10, <1>13, <1>14 DEF Inv

(* A freshly allocated node is private to the writer.                      *)
LEMMA InsertAllocStep == ASSUME Inv, InsertAlloc PROVE Inv'
<1>1. UNCHANGED <<level, dying, gp, linked, r>>
  BY DEF InsertAlloc, rcuVars
<1>2. PICK n \in Node \ allocated :
       /\ allocated' = allocated \cup {n}
       /\ key'     = [key EXCEPT ![n] = w.key]
       /\ pid'     = [pid EXCEPT ![n] = w.pid]
       /\ height'  = [height EXCEPT ![n] = w.lvl]
       /\ forward' = [forward EXCEPT ![n] = Empty]
       /\ w' = [w EXCEPT !.pc = "link", !.x = n, !.i = 0]
  BY DEF InsertAlloc
<1>3. /\ w' \in WriterType
      /\ w'.pc = "link" /\ w'.key = w.key /\ w'.pid = w.pid /\ w'.x = n
      /\ w'.i = 0 /\ w'.lvl = w.lvl /\ w'.update = w.update
  BY <1>2, Bounds, Pointers DEF WriterType, Inv, TypeOK
<1>4. /\ key' \in [Cell -> Number] /\ pid' \in [Cell -> Value]
      /\ height' \in [Cell -> Height] /\ forward' \in [Cell -> [Lvl -> Ptr]]
      /\ key'[n] = w.key /\ pid'[n] = w.pid /\ height'[n] = w.lvl
      /\ \A i \in Lvl : forward'[n][i] = NULL
      /\ \A c \in Cell : c # n => /\ key'[c] = key[c] /\ pid'[c] = pid[c]
                                  /\ height'[c] = height[c]
                                  /\ forward'[c] = forward[c]
  BY <1>2, WriterFields, Pointers DEF Inv, TypeOK
<1>5. TypeOK'
  BY <1>1, <1>2, <1>3, <1>4 DEF Inv, TypeOK
<1>6. /\ w.pc = "alloc" /\ w.key \in Key /\ w.lvl >= 1 /\ w.lvl <= level
      /\ \A j \in Lvl : j < level => IsPredecessor(w.update[j], j)
      /\ \A o \in linked[0] : key[o] # w.key
      /\ w.lvl \in Int /\ level \in Int
  BY WriterFields, Bounds DEF InsertAlloc, Inv, WriterInv, TypeOK
<1>7. /\ n # Header /\ n \notin dying
      /\ \A i \in Lvl : n \notin linked[i]
      /\ \A i \in Lvl : linked[i] \subseteq Cell
  BY Pointers DEF Inv, HeapInv, TypeOK
<1>8. HeapInv'
  BY <1>1, <1>2, <1>3, <1>4, <1>6, <1>7, Pointers DEF Inv, HeapInv, InHand, TypeOK
<1>15. \A i \in Lvl : \A c \in linked[i] \cup {Header} :
         key'[c] = key[c] /\ height'[c] = height[c] /\ forward'[c] = forward[c]
  BY <1>4, <1>7, Pointers
<1>16. linked' = linked /\ level' = level
  BY <1>1
<1>9. LevelInv'
  <2>1. InHand = {} /\ w.pc # "down" /\ w'.pc # "down"
    BY <1>3, <1>6 DEF InHand
  <2>2. LevelInv
    BY DEF Inv
  <2>3. QED
    BY <1>15, <1>16, <2>1, <2>2 DEF LevelInv
<1>10. ChainOK'
  <2>1. \A i \in Lvl : \A m \in linked[i] \cup {Header} :
          IsSuccessor(m, i, forward[m][i])
    BY <1>6 DEF Inv, ChainOK
  <2>2. \A i \in Lvl : \A m \in linked[i] \cup {Header} :
          IsSuccessor(m, i, forward[m][i])'
    BY <1>15, <1>16, <2>1 DEF IsSuccessor
  <2>3. QED
    BY <1>16, <2>2 DEF ChainOK
<1>11. WriterInv'
  <2>1. \A j \in Lvl : j < level => IsPredecessor(w.update[j], j)'
    BY <1>3, <1>6, <1>15, <1>16 DEF IsPredecessor
  <2>2. \A o \in linked'[0] : key'[o] # w'.key
    BY <1>3, <1>6, <1>15, <1>16, Bounds
  <2>3. \A j \in Lvl : n \notin linked'[j] /\ ~(j < 0)
    BY <1>1, <1>7, Bounds
  <2>4. \A j \in Lvl : j < w.lvl => j < level
    <3>1. w.lvl \in Int /\ level \in Int /\ w.lvl <= level
      BY <1>6
    <3>2. QED
      BY <3>1, Bounds
  <2>5. QED
    BY <1>1, <1>2, <1>3, <1>4, <1>6, <1>7, <2>1, <2>2, <2>3, <2>4 DEF WriterInv
<1>12. RcuInv'
  BY <1>1, <1>2, <1>3, <1>4, <1>6, <1>7, Pointers
     DEF Inv, RcuInv, HeapInv, Active, Protected, TypeOK
<1>13. ReaderInv'
  BY <1>1, <1>2, <1>4, <1>7, ReadersStand DEF Protected, Inv, HeapInv
<1>14. QED
  BY <1>5, <1>8, <1>9, <1>10, <1>11, <1>12, <1>13 DEF Inv

(* Linking a node on one level keeps that level sorted and every other     *)
(* level as it was.                                                        *)
LEMMA InsertLinkStep == ASSUME Inv, InsertLink PROVE Inv'
<1> DEFINE x == w.x
           i == w.i
           u == w.update[w.i]
           next == forward[u][i]
<1>1. UNCHANGED <<level, key, pid, height, allocated, dying, gp>>
  BY DEF InsertLink, rcuVars
<1>2. /\ w.pc = "link" /\ w.key \in Key
      /\ x \in allocated \ dying
      /\ key[x] = w.key /\ height[x] = w.lvl /\ pid[x] = w.pid
      /\ i >= 0 /\ i < w.lvl /\ w.lvl <= level
      /\ \A j \in Lvl : x \in linked[j] <=> j < i
      /\ \A j \in Lvl : i <= j /\ j < w.lvl => IsPredecessor(w.update[j], j)
      /\ \A j \in Lvl : i <= j => forward[x][j] = NULL
      /\ \A o \in linked[0] : o # x => key[o] # w.key
  BY DEF InsertLink, Inv, WriterInv
<1>3. /\ i \in Lvl /\ i \in Int /\ i + 1 \in Index /\ w.lvl \in Int
      /\ level \in Int /\ w.lvl \in Height /\ w.pid \in Value
  BY <1>2, WriterFields, IndexSteps, Bounds DEF Inv, TypeOK
<1>4. IsPredecessor(u, i)
  BY <1>2, <1>3
<1>5. /\ u \in linked[i] \cup {Header} /\ x \notin linked[i] /\ x # Header
      /\ u # x /\ u \in Cell /\ x \in Cell /\ x \in Node
  BY <1>2, <1>3, <1>4, Pointers DEF IsPredecessor, Inv, TypeOK
<1>6. next \in Ptr /\ IsSuccessor(u, i, next)
  BY <1>2, <1>3, <1>5 DEF Inv, TypeOK, ChainOK
<1>7. /\ forward' \in [Cell -> [Lvl -> Ptr]]
      /\ forward'[x][i] = next /\ forward'[u][i] = x
      /\ \A c \in Cell, j \in Lvl :
           ((c = x \/ c = u) /\ j = i) \/ forward'[c][j] = forward[c][j]
  <2>1. forward' = [forward EXCEPT ![x][i] = next, ![u][i] = x]
    BY DEF InsertLink
  <2>2. forward \in [Cell -> [Lvl -> Ptr]] /\ x \in Ptr
    BY <1>5, Pointers DEF Inv, TypeOK
  <2> HIDE DEF next, x, u, i
  <2>3. QED
    BY <2>1, <2>2, <1>3, <1>5, <1>6
<1>8. /\ linked' \in [Lvl -> SUBSET Node]
      /\ linked'[i] = linked[i] \cup {x}
      /\ \A j \in Lvl : j # i => linked'[j] = linked[j]
  BY <1>3, <1>5 DEF InsertLink, Inv, TypeOK
<1>9. /\ w' \in WriterType
      /\ \/ /\ i + 1 < w.lvl /\ w'.pc = "link" /\ w'.key = w.key
            /\ w'.pid = w.pid /\ w'.x = x /\ w'.i = i + 1 /\ w'.lvl = w.lvl
            /\ w'.update = w.update
         \/ i + 1 = w.lvl /\ w'.pc = "idle"
  <2>1. CASE i + 1 < w.lvl
    <3>1. w' = [w EXCEPT !.i = w.i + 1]
      BY <2>1 DEF InsertLink
    <3>2. QED
      BY <2>1, <3>1, <1>2, <1>3 DEF WriterType, Inv, TypeOK
  <2>2. CASE ~(i + 1 < w.lvl)
    <3>1. w' = IdleWriter
      BY <2>2 DEF InsertLink
    <3>2. i + 1 = w.lvl
      BY <2>2, <1>2, <1>3
    <3>3. QED
      BY <3>1, <3>2, IdleTypes DEF IdleWriter
  <2>3. QED
    BY <2>1, <2>2
<1>10. /\ r' \in [Reader -> ReaderType]
       /\ \A t \in Reader : /\ r'[t].pc = r[t].pc /\ r'[t].x = r[t].x
                            /\ r'[t].next = r[t].next /\ r'[t].i = r[t].i
  <2>1. CASE i = 0
    <3>1. Observe(w.key, w.pid, TRUE)
      BY <2>1 DEF InsertLink
    <3>2. QED
      BY <1>2, <1>3, <3>1, ObserveFrame DEF Inv
  <2>2. CASE i # 0
    BY <2>2 DEF InsertLink, Inv, TypeOK
  <2>3. QED
    BY <2>1, <2>2
<1> HIDE DEF x, i, u, next
<1>11. TypeOK'
  BY <1>1, <1>7, <1>8, <1>9, <1>10 DEF Inv, TypeOK
<1>12. InHand = {x} /\ InHand' \subseteq {x}
       /\ (InHand' = {x} \/ (i + 1 = w.lvl /\ InHand' = {}))
  BY <1>2, <1>9 DEF InHand, x
<1>13. \A j \in Lvl : \A o \in linked[j] : o # x => o \in linked[0]
  <2> SUFFICES ASSUME NEW j \in Lvl, NEW o \in linked[j], o # x
               PROVE  o \in linked[0]
    OBVIOUS
  <2>1. j < height[o] /\ j >= 0 /\ j \in Int /\ height[o] \in Int
    BY Bounds, Pointers DEF Inv, LevelInv, TypeOK
  <2>2. QED
    BY <2>1, <1>12, Bounds DEF Inv, LevelInv
<1>14. HeapInv'
  <2>1. x \in linked'[0] \/ InHand' = {x}
    BY <1>2, <1>3, <1>8, <1>12, Bounds
  <2>2. ASSUME NEW n \in allocated, NEW j \in Lvl, height[n] <= j
        PROVE  forward'[n][j] = NULL
    <3>2. n \in Cell /\ n # Header /\ height[n] \in Int /\ j \in Int
      BY Pointers, Bounds DEF Inv, TypeOK
    <3>4. n = u => i < height[n]
      BY <3>2, <1>3, <1>5 DEF Inv, LevelInv
    <3>5. n = x => i < height[n]
      BY <1>2
    <3>1. ~(j = i /\ (n = x \/ n = u))
      BY <2>2, <3>2, <3>4, <3>5
    <3>3. QED
      BY <3>1, <3>2, <2>2, <1>7 DEF Inv, HeapInv
  <2>3. allocated' = linked'[0] \cup dying' \cup InHand'
    BY <2>1, <1>1, <1>2, <1>8, <1>12, Bounds DEF Inv, HeapInv
  <2>4. \A j \in Lvl : linked'[j] \subseteq allocated' \ dying'
    BY <1>1, <1>2, <1>8 DEF Inv, HeapInv
  <2>5. QED
    BY <2>2, <2>3, <2>4, <1>1 DEF Inv, HeapInv
<1>15. LevelInv'
  <2>1. \A j \in Lvl : level <= j => linked'[j] = {}
    BY <1>2, <1>3, <1>8, Bounds DEF Inv, LevelInv
  <2>2. \A j \in Lvl : \A n \in linked'[j] : j < height[n]
    BY <1>2, <1>3, <1>8 DEF Inv, LevelInv
  <2>3. ASSUME NEW j \in Lvl, NEW n \in linked'[j] \ InHand',
               NEW k \in Lvl, k < height[n]
        PROVE  n \in linked'[k]
    <3>1. CASE n = x
      <4>1. i + 1 = w.lvl /\ k < w.lvl /\ k \in Int
        BY <3>1, <2>3, <1>12, <1>2, Bounds
      <4>2. k < i \/ k = i
        BY <4>1, <1>3
      <4>3. QED
        BY <4>2, <3>1, <1>2, <1>8
    <3>2. CASE n # x
      BY <3>2, <2>3, <1>8, <1>12 DEF Inv, LevelInv
    <3>3. QED
      BY <3>1, <3>2
  <2>4. ASSUME NEW j \in Lvl, NEW m \in linked'[j], NEW n \in linked'[j],
               key[m] = key[n]
        PROVE  m = n
    BY <2>4, <1>2, <1>8, <1>13 DEF Inv, LevelInv
  <2>5. w'.pc # "down" /\ level >= 1
    BY <1>2, <1>3, <1>9
  <2>6. QED
    BY <2>1, <2>2, <2>3, <2>4, <2>5, <1>1 DEF LevelInv
<1>16. ChainOK'
  <2> SUFFICES ASSUME NEW j \in Lvl, NEW m \in linked'[j] \cup {Header}
               PROVE  IsSuccessor(m, j, forward[m][j])'
    BY DEF ChainOK
  <2>1. CASE j # i
    <3>1. m \in linked[j] \cup {Header} /\ linked'[j] = linked[j] /\ m \in Cell
      BY <2>1, <1>8, Pointers DEF Inv, TypeOK
    <3>2. forward'[m][j] = forward[m][j]
      BY <2>1, <3>1, <1>7
    <3>3. IsSuccessor(m, j, forward[m][j])
      BY <3>1, <1>2 DEF Inv, ChainOK
    <3>4. QED
      BY <3>1, <3>2, <3>3, <1>1 DEF IsSuccessor
  <2>2. CASE j = i
    <3>1. /\ key[u] < key[x] /\ \A o \in linked[i] : key[o] \in Int
          /\ key[u] \in Int /\ key[x] \in Int
          /\ \A o \in linked[i] : key[o] # key[x]
          /\ \A o \in linked[i] : key[o] < key[x] => ~(key[u] < key[o])
      <4>1. \A o \in linked[i] : o # x
        BY <1>5
      <4>2. \A o \in linked[i] : key[o] # key[x]
        BY <4>1, <1>2, <1>3, <1>13
      <4>3. \A o \in linked[i] \cup {x, u} : key[o] \in Int
        BY <1>3, <1>5, Pointers DEF Inv, TypeOK
      <4>4. QED
        BY <4>2, <4>3, <1>2, <1>4 DEF IsPredecessor
    <3>6. key' = key /\ linked'[i] = linked[i] \cup {x}
          /\ forward'[x][i] = next /\ forward'[u][i] = x /\ x # NULL
      BY <1>1, <1>5, <1>7, <1>8, Pointers
    <3>2. CASE m = u
      <4>1. \A o \in linked'[i] : key[u] < key[o] => o = x \/ key[x] < key[o]
        BY <3>1, <3>6
      <4>2. QED
        BY <4>1, <3>1, <3>2, <3>6, <2>2 DEF IsSuccessor
    <3>3. CASE m = x
      <4>1. CASE next = NULL
        BY <4>1, <3>1, <3>3, <3>6, <2>2, <1>6 DEF IsSuccessor
      <4>2. CASE next # NULL
        <5>1. /\ next \in linked[i] /\ key[u] < key[next]
              /\ \A o \in linked[i] :
                   key[u] < key[o] => o = next \/ key[next] < key[o]
          BY <4>2, <1>6 DEF IsSuccessor
        <5>2. key[x] < key[next]
          BY <5>1, <3>1
        <5>3. \A o \in linked'[i] :
                key[x] < key[o] => o = next \/ key[next] < key[o]
          BY <5>1, <3>1, <3>6
        <5>4. QED
          BY <5>1, <5>2, <5>3, <4>2, <3>3, <3>6, <2>2 DEF IsSuccessor
      <4>3. QED
        BY <4>1, <4>2
    <3>4. CASE m # u /\ m # x
      <4> DEFINE s == forward[m][i]
      <4>1. m \in linked[i] \cup {Header} /\ m \in Cell
        BY <3>4, <2>2, <1>3, <1>8, Pointers DEF Inv, TypeOK
      <4>2. forward'[m][j] = s
        BY <4>1, <3>4, <2>2, <1>3, <1>7
      <4>3. IsSuccessor(m, i, s)
        BY <4>1, <1>2, <1>3 DEF Inv, ChainOK
      <4>4. key[m] \in Int /\ key[Header] \in Int
            /\ \A o \in linked[i] : key[Header] < key[o]
        BY <4>1, <1>3, Pointers, KeyAssumption DEF Inv, TypeOK, HeapInv
      <4>5. \A o \in linked[i] : key[o] = key[m] => o = m
        BY <4>1, <4>4, <1>3 DEF Inv, LevelInv
      <4>6. ASSUME key[m] < key[x]
            PROVE  u \in linked[i] /\ key[m] < key[u]
        <5>1. CASE m = Header
          BY <5>1, <3>4, <4>4, <1>5
        <5>2. CASE m \in linked[i]
          <6>1. ~(key[u] < key[m])
            BY <5>2, <4>6, <3>1
          <6>2. u # Header
            BY <5>2, <6>1, <4>4
          <6>3. QED
            BY <6>1, <6>2, <3>1, <3>4, <4>4, <4>5, <1>5
        <5>3. QED
          BY <4>1, <5>1, <5>2
      <4>7. CASE s = NULL
        BY <4>2, <4>3, <4>6, <4>7, <2>2, <1>1, <1>8 DEF IsSuccessor
      <4>8. CASE s # NULL
        <5>1. s \in linked[i] /\ key[m] < key[s] /\ key[s] \in Int
              /\ \A o \in linked[i] : key[m] < key[o] => o = s \/ key[s] < key[o]
          BY <4>3, <4>8, <3>1 DEF IsSuccessor
        <5>2. key[m] < key[x] => key[s] < key[x]
          BY <5>1, <4>6, <3>1
        <5>3. QED
          BY <5>1, <5>2, <4>2, <4>8, <2>2, <1>1, <1>8 DEF IsSuccessor
      <4>9. QED
        BY <4>7, <4>8
    <3>5. QED
      BY <3>2, <3>3, <3>4
  <2>3. QED
    BY <2>1, <2>2
<1>17. WriterInv'
  <2>1. CASE w'.pc = "idle"
    BY <2>1 DEF WriterInv
  <2>2. CASE w'.pc # "idle"
    <3>1. /\ i + 1 < w.lvl /\ w'.pc = "link" /\ w'.key = w.key
          /\ w'.pid = w.pid /\ w'.x = x /\ w'.i = i + 1 /\ w'.lvl = w.lvl
          /\ w'.update = w.update
      BY <2>2, <1>9
    <3>2. \A j \in Lvl : x \in linked'[j] <=> j < i + 1
      BY <1>2, <1>3, <1>8, Bounds
    <3>3. \A j \in Lvl : i + 1 <= j /\ j < w.lvl =>
             IsPredecessor(w.update[j], j)'
      BY <3>1, <1>1, <1>2, <1>3, <1>8, Bounds DEF IsPredecessor
    <3>4. ASSUME NEW j \in Lvl, i + 1 <= j PROVE forward'[x][j] = NULL
      <4>1. j # i /\ i <= j
        BY <3>4, <1>3, Bounds
      <4>2. QED
        BY <4>1, <1>2, <1>5, <1>7
    <3>5. \A o \in linked'[0] : o # x => key[o] # w.key
      BY <1>2, <1>3, <1>8, Bounds
    <3>6. i + 1 >= 0
      BY <1>2, <1>3
    <3>7. QED
      BY <3>1, <3>2, <3>3, <3>4, <3>5, <3>6, <1>1, <1>2 DEF WriterInv
  <2>3. QED
    BY <2>1, <2>2
<1>18. ReaderInv' /\ Active' = Active
  BY <1>1, <1>10, ReadersStand DEF Protected
<1>19. RcuInv'
  <2>1. ASSUME NEW n \in (allocated \ dying) \cup {Header}, NEW j \in Lvl,
               forward'[n][j] # NULL
        PROVE  forward'[n][j] \in allocated \ dying /\ j < height[forward'[n][j]]
    <3>1. n \in Cell /\ u \in (allocated \ dying) \cup {Header}
      BY <1>3, <1>5, Pointers DEF Inv, TypeOK, HeapInv
    <3>2. CASE n = u /\ j = i
      BY <3>2, <1>2, <1>7
    <3>3. CASE n = x /\ j = i
      BY <3>1, <3>3, <2>1, <1>2, <1>3, <1>7 DEF Inv, RcuInv, next
    <3>4. CASE ~((n = x \/ n = u) /\ j = i)
      BY <3>1, <3>4, <2>1, <1>2, <1>7 DEF Inv, RcuInv
    <3>5. QED
      BY <3>2, <3>3, <3>4
  <2>2. \A n \in dying, j \in Lvl : forward'[n][j] = forward[n][j]
    BY <1>2, <1>3, <1>5, <1>7, Pointers DEF Inv, HeapInv, TypeOK
  <2>3. QED
    BY <2>1, <2>2, <1>1, <1>18 DEF Inv, RcuInv, Protected
<1>20. QED
  BY <1>11, <1>14, <1>15, <1>16, <1>17, <1>18, <1>19 DEF Inv

(* Unlinking a node on one level keeps that level sorted and its readers   *)
(* protected.                                                              *)
LEMMA RemoveUnlinkStep == ASSUME Inv, RemoveUnlink PROVE Inv'
<1> DEFINE x == w.x
           i == w.i
           u == w.update[w.i]
           next == forward[x][i]
<1>1. UNCHANGED <<level, key, pid, height, allocated, dying, gp>>
  BY DEF RemoveUnlink, rcuVars
<1>2. /\ w.pc = "unlink"
      /\ x \in allocated \ dying /\ key[x] = w.key
      /\ i >= 0 /\ i < level
      /\ \A j \in Lvl : x \in linked[j] <=> i <= j /\ j < height[x]
      /\ \A j \in Lvl : i <= j /\ j < level => IsPredecessor(w.update[j], j)
  BY DEF RemoveUnlink, Unlinking, Inv, WriterInv
<1>3. /\ i \in Lvl /\ i \in Int /\ i + 1 \in Index /\ level \in Int
      /\ x \in Node /\ x \in Cell /\ x # Header /\ x # NULL /\ w.key \in Key
      /\ height[x] \in Int
  <2>1. x \in Node /\ key[x] \in Key
    BY <1>2 DEF Inv, TypeOK, HeapInv
  <2>2. QED
    BY <2>1, <1>2, WriterFields, IndexSteps, Bounds, Pointers DEF Inv, TypeOK
<1>4. IsPredecessor(u, i) /\ forward[u][i] = x
  BY <1>2, <1>3 DEF RemoveUnlink, Unlinking
<1>5. u \in linked[i] \cup {Header} /\ u \in Cell
  BY <1>3, <1>4, Pointers DEF IsPredecessor, Inv, TypeOK
<1>6. x \in linked[i] /\ key[u] < key[x]
      /\ \A o \in linked[i] : key[u] < key[o] => o = x \/ key[x] < key[o]
  BY <1>2, <1>3, <1>4, <1>5 DEF Inv, ChainOK, IsSuccessor
<1>7. next \in Ptr /\ IsSuccessor(x, i, next)
  BY <1>2, <1>3, <1>6 DEF Inv, TypeOK, ChainOK
<1>8. \A c \in linked[i] \cup {x, u, Header} : key[c] \in Int
  BY <1>3, <1>5, Pointers DEF Inv, TypeOK
<1>9. u # x
  BY <1>6, <1>8
<1>10. /\ forward' \in [Cell -> [Lvl -> Ptr]]
       /\ forward'[u][i] = next
       /\ \A c \in Cell, j \in Lvl :
            (c = u /\ j = i) \/ forward'[c][j] = forward[c][j]
  <2>1. forward' = [forward EXCEPT ![u][i] = next]
    BY DEF RemoveUnlink
  <2>2. forward \in [Cell -> [Lvl -> Ptr]]
    BY DEF Inv, TypeOK
  <2> HIDE DEF next, x, u, i
  <2>3. QED
    BY <2>1, <2>2, <1>3, <1>5, <1>7
<1>11. /\ linked' \in [Lvl -> SUBSET Node]
       /\ linked'[i] = linked[i] \ {x}
       /\ \A j \in Lvl : j # i => linked'[j] = linked[j]
  BY <1>3 DEF RemoveUnlink, Inv, TypeOK
<1>12. /\ w' \in WriterType
       /\ w'.pc = "unlink" /\ w'.key = w.key /\ w'.x = x /\ w'.i = i + 1
       /\ w'.update = w.update
  <2>1. w' = [w EXCEPT !.i = w.i + 1]
    BY DEF RemoveUnlink
  <2>2. QED
    BY <2>1, <1>2, <1>3 DEF WriterType, Inv, TypeOK
<1>13. /\ r' \in [Reader -> ReaderType]
       /\ \A t \in Reader : /\ r'[t].pc = r[t].pc /\ r'[t].x = r[t].x
                            /\ r'[t].next = r[t].next /\ r'[t].i = r[t].i
  <2>1. CASE i = 0
    <3>1. Observe(w.key, NULL, FALSE)
      BY <2>1 DEF RemoveUnlink
    <3>2. NULL \in Value
      BY Pointers
    <3>3. QED
      BY <1>3, <3>1, <3>2, ObserveFrame DEF Inv
  <2>2. CASE i # 0
    BY <2>2 DEF RemoveUnlink, Inv, TypeOK
  <2>3. QED
    BY <2>1, <2>2
<1>14. InHand = {x} /\ InHand' = {x}
  BY <1>2, <1>12 DEF InHand
<1> HIDE DEF x, i, u, next
<1>15. TypeOK'
  BY <1>1, <1>10, <1>11, <1>12, <1>13 DEF Inv, TypeOK
<1>16. HeapInv'
  <2>1. ASSUME NEW n \in allocated, NEW j \in Lvl, height[n] <= j
        PROVE  forward'[n][j] = NULL
    <3>1. n \in Cell /\ n # Header /\ height[n] \in Int /\ j \in Int
      BY Pointers, Bounds DEF Inv, TypeOK
    <3>2. n = u => i < height[n]
      BY <3>1, <1>3, <1>5 DEF Inv, LevelInv
    <3>3. QED
      BY <2>1, <3>1, <3>2, <1>10 DEF Inv, HeapInv
  <2>2. allocated' = linked'[0] \cup dying' \cup InHand'
    BY <1>1, <1>11, <1>14, Bounds DEF Inv, HeapInv
  <2>3. \A j \in Lvl : linked'[j] \subseteq allocated' \ dying'
    BY <1>1, <1>11 DEF Inv, HeapInv
  <2>4. QED
    BY <2>1, <2>2, <2>3, <1>1 DEF Inv, HeapInv
<1>17. LevelInv'
  <2>1. \A j \in Lvl : linked'[j] \subseteq linked[j]
    BY <1>11
  <2>2. \A j \in Lvl : \A n \in linked[j] : n # x => n \in linked'[j]
    BY <1>11
  <2>3. w'.pc # "down" /\ level >= 1
    BY <1>2, <1>3, <1>12
  <2>4. QED
    BY <2>1, <2>2, <2>3, <1>1, <1>14 DEF Inv, LevelInv
<1>18. ChainOK'
  <2> SUFFICES ASSUME NEW j \in Lvl, NEW m \in linked'[j] \cup {Header}
               PROVE  IsSuccessor(m, j, forward[m][j])'
    BY DEF ChainOK
  <2>1. CASE j # i
    <3>1. m \in linked[j] \cup {Header} /\ linked'[j] = linked[j] /\ m \in Cell
      BY <2>1, <1>11, Pointers DEF Inv, TypeOK
    <3>2. forward'[m][j] = forward[m][j]
      BY <2>1, <3>1, <1>10
    <3>3. IsSuccessor(m, j, forward[m][j])
      BY <3>1, <1>2 DEF Inv, ChainOK
    <3>4. QED
      BY <3>1, <3>2, <3>3, <1>1 DEF IsSuccessor
  <2>2. CASE j = i
    <3>1. key' = key /\ linked'[i] = linked[i] \ {x} /\ forward'[u][i] = next
      BY <1>1, <1>10, <1>11
    <3>2. CASE m = u
      <4>1. CASE next = NULL
        BY <4>1, <3>1, <3>2, <2>2, <1>6, <1>7 DEF IsSuccessor
      <4>2. CASE next # NULL
        <5>1. /\ next \in linked[i] /\ key[x] < key[next]
              /\ \A o \in linked[i] :
                   key[x] < key[o] => o = next \/ key[next] < key[o]
          BY <4>2, <1>7 DEF IsSuccessor
        <5>2. next # x /\ key[u] < key[next]
          BY <5>1, <1>6, <1>8
        <5>3. QED
          BY <5>1, <5>2, <4>2, <3>1, <3>2, <2>2, <1>6 DEF IsSuccessor
      <4>3. QED
        BY <4>1, <4>2
    <3>3. CASE m # u
      <4> DEFINE s == forward[m][i]
      <4>1. m \in linked[i] \cup {Header} /\ m \in Cell /\ m # x
        BY <2>2, <3>1, <1>3, Pointers DEF Inv, TypeOK
      <4>2. forward'[m][j] = s
        BY <4>1, <3>3, <2>2, <1>3, <1>10
      <4>3. IsSuccessor(m, i, s)
        BY <4>1, <1>2, <1>3 DEF Inv, ChainOK
      <4>4. \A o \in linked[i] : key[Header] < key[o]
        BY <1>3, KeyAssumption DEF Inv, HeapInv
      <4>5. s # x
        <5> SUFFICES ASSUME s = x PROVE FALSE
          OBVIOUS
        <5>1. /\ key[m] < key[x]
              /\ \A o \in linked[i] : key[m] < key[o] => o = x \/ key[x] < key[o]
          BY <4>3, <1>3 DEF IsSuccessor
        <5>2. CASE u = Header
          <6>1. m \in linked[i] /\ ~(key[u] < key[m])
            BY <5>1, <5>2, <4>1, <3>3, <1>2, <1>4 DEF IsPredecessor
          <6>2. QED
            BY <5>2, <6>1, <4>4
        <5>3. CASE u \in linked[i]
          <6>1. ~(key[m] < key[u])
            BY <5>1, <5>3, <1>6, <1>8, <1>9
          <6>2. m \in linked[i]
            BY <6>1, <5>3, <4>1, <4>4
          <6>3. ~(key[u] < key[m])
            BY <6>2, <5>1, <1>2, <1>4 DEF IsPredecessor
          <6>4. key[m] = key[u]
            BY <6>1, <6>2, <6>3, <5>3, <1>8
          <6>5. QED
            BY <6>2, <6>4, <5>3, <3>3, <1>3 DEF Inv, LevelInv
        <5>4. QED
          BY <1>5, <5>2, <5>3
      <4>6. QED
        BY <4>2, <4>3, <4>5, <3>1, <2>2 DEF IsSuccessor
    <3>4. QED
      BY <3>2, <3>3
  <2>3. QED
    BY <2>1, <2>2
<1>19. WriterInv'
  <2>0. \A j \in Lvl : j \in Int /\ (i + 1 <= j <=> i <= j /\ j # i)
    <3>1. i \in Int /\ Lvl \subseteq Int
      BY <1>3, Bounds
    <3>2. QED
      BY <3>1
  <2>1. \A j \in Lvl : x \in linked'[j] <=> i + 1 <= j /\ j < height[x]
    BY <1>2, <1>11, <2>0
  <2>2. \A j \in Lvl : i + 1 <= j /\ j < level => IsPredecessor(w.update[j], j)'
    <3>1. \A j \in Lvl : i + 1 <= j => i <= j /\ linked'[j] = linked[j]
      BY <1>11, <2>0
    <3>2. QED
      BY <3>1, <1>1, <1>2, <1>12 DEF IsPredecessor
  <2>3. i + 1 >= 0 /\ i + 1 <= level
    BY <1>2, <1>3
  <2>4. QED
    BY <2>1, <2>2, <2>3, <1>1, <1>2, <1>12 DEF WriterInv
<1>20. ReaderInv' /\ Active' = Active
  BY <1>1, <1>13, ReadersStand DEF Protected
<1>21. RcuInv'
  <2>1. ASSUME NEW n \in (allocated \ dying) \cup {Header}, NEW j \in Lvl,
               forward'[n][j] # NULL
        PROVE  forward'[n][j] \in allocated \ dying /\ j < height[forward'[n][j]]
    <3>1. n \in Cell
      BY Pointers DEF Inv, TypeOK
    <3>2. CASE n = u /\ j = i
      BY <3>2, <2>1, <1>2, <1>3, <1>10 DEF Inv, RcuInv, next
    <3>3. CASE ~(n = u /\ j = i)
      BY <3>1, <3>3, <2>1, <1>2, <1>10 DEF Inv, RcuInv
    <3>4. QED
      BY <3>2, <3>3
  <2>2. \A n \in dying, j \in Lvl : forward'[n][j] = forward[n][j]
    BY <1>3, <1>5, <1>10, Pointers DEF Inv, HeapInv, TypeOK
  <2>3. QED
    BY <2>1, <2>2, <1>1, <1>20 DEF Inv, RcuInv, Protected
<1>22. QED
  BY <1>15, <1>16, <1>17, <1>18, <1>19, <1>20, <1>21 DEF Inv

(* Dropping empty levels from the top leaves no list above sl->level.      *)
LEMMA RemoveShrinkStep == ASSUME Inv, RemoveShrink PROVE Inv'
<1>1. UNCHANGED <<key, pid, height, forward, allocated, dying, gp, linked, r>>
  BY DEF RemoveShrink, heapVars, rcuVars
<1>2. PICK l \in 1 .. level : ShrinksTo(l) /\ level' = l
  BY DEF RemoveShrink
<1>3. /\ w.pc = "unlink" /\ ~Unlinking
      /\ w.x \in allocated \ dying /\ key[w.x] = w.key
      /\ w.i >= 0 /\ w.i <= level
      /\ \A j \in Lvl : w.x \in linked[j] <=> w.i <= j /\ j < height[w.x]
      /\ \A j \in Lvl : w.i <= j /\ j < level => IsPredecessor(w.update[j], j)
  BY DEF RemoveShrink, Inv, WriterInv
<1>4. /\ level \in Height /\ level \in Int /\ l \in Height /\ l \in Int
      /\ 1 <= l /\ l <= level
      /\ w.i \in Int /\ w.i \in Index /\ w.x \in Node /\ height[w.x] \in Int
  <2>1. level \in Height /\ l \in Height
    BY IndexSteps DEF Inv, TypeOK
  <2>2. level \in Int /\ l \in Int /\ 1 <= l /\ l <= level
    BY <2>1, Bounds
  <2>3. w.x \in Node /\ w.x \in Cell /\ w.i \in Index
    BY <1>3, WriterFields, Pointers DEF Inv, TypeOK
  <2>4. w.i \in Int /\ height[w.x] \in Int
    BY <2>3, Bounds DEF Inv, TypeOK
  <2>5. QED
    BY <2>1, <2>2, <2>3, <2>4
<1>5. /\ w' \in WriterType /\ w'.pc = "call_rcu" /\ w'.x = w.x
  BY Bounds, Pointers DEF RemoveShrink, WriterType, Inv, TypeOK
<1>6. \A j \in Lvl : w.x \notin linked[j]
  <2>1. CASE w.i < level
    <3> DEFINE u == w.update[w.i]
               s == forward[u][w.i]
    <3>1. w.i \in Lvl /\ s # w.x
      BY <2>1, <1>3, <1>4, IndexSteps DEF Unlinking
    <3>2. IsPredecessor(u, w.i)
      BY <2>1, <3>1, <1>3, <1>4
    <3>3. IsSuccessor(u, w.i, s)
      BY <3>1, <3>2, <1>3 DEF IsPredecessor, Inv, ChainOK
    <3>4. ASSUME w.x \in linked[w.i] PROVE FALSE
      <4>1. key[u] < key[w.x]
        BY <3>2, <1>3 DEF IsPredecessor
      <4>2. s \in linked[w.i] /\ key[u] < key[s] /\ key[s] < key[w.x]
        BY <3>1, <3>3, <3>4, <4>1 DEF IsSuccessor
      <4>3. QED
        BY <4>2, <3>2, <1>3 DEF IsPredecessor
    <3>5. ~(w.i < height[w.x])
      BY <3>1, <3>4, <1>3, <1>4
    <3>6. QED
      BY <3>5, <1>3, <1>4, Bounds
  <2>2. CASE ~(w.i < level)
    <3>1. \A j \in Lvl : w.i <= j => linked[j] = {}
      BY <2>2, <1>4, Bounds DEF Inv, LevelInv
    <3>2. QED
      BY <3>1, <1>3
  <2>3. QED
    BY <2>1, <2>2
<1>7. \A j \in Lvl : l <= j => linked[j] = {}
  <2> SUFFICES ASSUME NEW j \in Lvl, l <= j, NEW o \in linked[j] PROVE FALSE
    OBVIOUS
  <2>1. j < level /\ j \in Int
    BY <1>4, Bounds DEF Inv, LevelInv
  <2>2. forward[Header][j] = NULL
    BY <2>1, <1>2, <1>4 DEF ShrinksTo
  <2>3. key[Header] < key[o]
    BY KeyAssumption DEF Inv, HeapInv
  <2>4. QED
    BY <2>2, <2>3, <1>3 DEF Inv, ChainOK, IsSuccessor
<1>8. InHand = {w.x} /\ InHand' = {w.x}
  BY <1>3, <1>5 DEF InHand
<1>9. TypeOK'
  BY <1>1, <1>2, <1>4, <1>5 DEF Inv, TypeOK
<1>10. HeapInv' /\ ChainOK'
  BY <1>1, <1>3, <1>8 DEF Inv, HeapInv, ChainOK, IsSuccessor
<1>11. LevelInv'
  BY <1>1, <1>2, <1>4, <1>5, <1>7, <1>8 DEF Inv, LevelInv
<1>12. WriterInv'
  BY <1>1, <1>3, <1>5, <1>6 DEF WriterInv
<1>13. RcuInv' /\ ReaderInv'
  BY <1>1, <1>3 DEF Inv, RcuInv, ReaderInv, Active, Protected
<1>14. QED
  BY <1>9, <1>10, <1>11, <1>12, <1>13 DEF Inv

(* call_rcu() on an unlinked node protects it for every active reader.     *)
LEMMA RemoveCallRcuStep == ASSUME Inv, RemoveCallRcu PROVE Inv'
<1>1. UNCHANGED <<level, key, pid, height, forward, allocated, linked, r>>
  BY DEF RemoveCallRcu, heapVars
<1>2. w.pc = "call_rcu" /\ w.x \in allocated \ dying
      /\ \A j \in Lvl : w.x \notin linked[j]
  BY DEF RemoveCallRcu, Inv, WriterInv
<1>3. w.x \in Node /\ w.x # Header /\ w.x \in Cell
  BY <1>2, Pointers DEF Inv, TypeOK
<1>4. dying' = dying \cup {w.x}
  BY DEF RemoveCallRcu
<1>5. /\ gp' \in [Node -> SUBSET Reader] /\ gp'[w.x] = Active
      /\ \A n \in Node : n # w.x => gp'[n] = gp[n]
  BY <1>3 DEF RemoveCallRcu, Inv, TypeOK, Active
<1>6. w' \in WriterType /\ w'.pc = "idle"
  BY IdleTypes DEF RemoveCallRcu, IdleWriter
<1>7. InHand = {w.x} /\ InHand' = {}
  BY <1>2, <1>6 DEF InHand
<1>8. TypeOK'
  BY <1>1, <1>3, <1>4, <1>5, <1>6 DEF Inv, TypeOK
<1>9. HeapInv'
  BY <1>1, <1>2, <1>4, <1>7 DEF Inv, HeapInv
<1>10. LevelInv'
  BY <1>1, <1>2, <1>6, <1>7 DEF Inv, LevelInv
<1>11. ChainOK'
  BY <1>1, <1>2 DEF Inv, ChainOK, IsSuccessor
<1>12. WriterInv'
  BY <1>6 DEF WriterInv
<1>13. Active' = Active
  BY <1>1 DEF Active
<1>14. ReaderInv'
  <2>1. \A t \in Reader, c \in Cell : r[t].pc # "idle" /\ Protected(t, c) =>
                           Protected(t, c)' /\ height'[c] = height[c]
    BY <1>1, <1>2, <1>3, <1>4, <1>5 DEF Protected, Active, Inv, TypeOK
  <2>2. QED
    BY <1>1, <2>1, ReadersStand
<1>15. RcuInv'
  <2>1. \A n \in Node : gp'[n] \subseteq Active
    BY <1>5 DEF Inv, RcuInv
  <2>2. ASSUME NEW n \in (allocated \ dying') \cup {Header}, NEW j \in Lvl,
               forward[n][j] # NULL
        PROVE  forward[n][j] \in allocated \ dying' /\ j < height[forward[n][j]]
    <3>1. forward[n][j] \in linked[j]
      <4>1. CASE n = Header
        BY <4>1, <2>2, <1>2 DEF Inv, ChainOK, IsSuccessor
      <4>2. CASE n # Header
        <5>1. n \in allocated /\ n \in linked[0] /\ n # w.x
          BY <4>2, <1>4, <1>7 DEF Inv, HeapInv
        <5>2. j < height[n]
          <6>1. height[n] \in Int /\ j \in Int
            BY <5>1, Bounds, Pointers DEF Inv, TypeOK
          <6>2. QED
            BY <5>1, <6>1, <2>2 DEF Inv, HeapInv
        <5>3. n \in linked[j]
          BY <5>1, <5>2, <1>7, Bounds DEF Inv, LevelInv
        <5>4. QED
          BY <5>3, <2>2, <1>2 DEF Inv, ChainOK, IsSuccessor
      <4>3. QED
        BY <4>1, <4>2
    <3>2. QED
      BY <3>1, <1>2, <1>4 DEF Inv, HeapInv, LevelInv
  <2>3. ASSUME NEW n \in dying', NEW j \in Lvl, NEW t \in gp'[n],
               forward[n][j] # NULL
        PROVE  Protected(t, forward[n][j])' /\ j < height[forward[n][j]]
    <3>1. t \in Active /\ t \in Reader /\ n \in Node
      BY <1>3, <1>4, <2>1 DEF Active, Inv, TypeOK
    <3>2. Protected(t, forward[n][j]) /\ j < height[forward[n][j]]
      <4>1. CASE n = w.x
        BY <4>1, <2>3, <1>2 DEF Inv, RcuInv, Protected
      <4>2. CASE n # w.x
        BY <4>2, <3>1, <2>3, <1>4, <1>5 DEF Inv, RcuInv
      <4>3. QED
        BY <4>1, <4>2
    <3>3. QED
      BY <3>1, <3>2, <1>1, <1>2, <1>4, <1>5 DEF Protected, Inv, TypeOK
  <2>4. QED
    BY <2>1, <2>2, <2>3, <1>1, <1>13 DEF RcuInv
<1>16. QED
  BY <1>8, <1>9, <1>10, <1>11, <1>12, <1>14, <1>15 DEF Inv

(* kfree() of a node leaves every other cell alone.                        *)
LEMMA KfreeFrame ==
  ASSUME TypeOK, NEW n \in Node, Kfree(n)
  PROVE  /\ key' \in [Cell -> Number] /\ pid' \in [Cell -> Value]
         /\ height' \in [Cell -> Height] /\ forward' \in [Cell -> [Lvl -> Ptr]]
         /\ allocated' = allocated \ {n}
         /\ \A c \in Cell : c # n => /\ key'[c] = key[c]
                                     /\ height'[c] = height[c]
                                     /\ forward'[c] = forward[c]
BY Bounds, Pointers DEF Kfree, TypeOK

(* Freeing a node after its grace period takes nothing from any reader.    *)
LEMMA RcuFreeStep ==
  ASSUME Inv, NEW n \in Node, pid_sl_node_rcu_free(n) PROVE Inv'
<1>1. UNCHANGED <<level, gp, linked, w, r>>
  BY DEF pid_sl_node_rcu_free
<1>2. n \in dying /\ gp[n] = {} /\ dying' = dying \ {n} /\ Kfree(n)
  BY DEF pid_sl_node_rcu_free
<1>3. /\ key' \in [Cell -> Number] /\ pid' \in [Cell -> Value]
      /\ height' \in [Cell -> Height] /\ forward' \in [Cell -> [Lvl -> Ptr]]
      /\ allocated' = allocated \ {n}
      /\ \A c \in Cell : c # n => /\ key'[c] = key[c]
                                  /\ height'[c] = height[c]
                                  /\ forward'[c] = forward[c]
  BY <1>2, KfreeFrame DEF Inv
<1>4. n # Header /\ \A i \in Lvl : n \notin linked[i]
  BY <1>2, Pointers DEF Inv, HeapInv
<1>5. \A i \in Lvl : \A c \in linked[i] \cup {Header} :
        key'[c] = key[c] /\ height'[c] = height[c] /\ forward'[c] = forward[c]
  BY <1>3, <1>4, Pointers DEF Inv, TypeOK
<1>6. InHand' = InHand /\ n \notin InHand
  BY <1>1, <1>2 DEF InHand, Inv, WriterInv
<1>7. TypeOK'
  BY <1>1, <1>2, <1>3 DEF Inv, TypeOK
<1>8. HeapInv'
  <2>1. \A m \in allocated' : /\ m \in allocated /\ key'[m] = key[m]
                              /\ height'[m] = height[m] /\ forward'[m] = forward[m]
    BY <1>3, Pointers DEF Inv, TypeOK
  <2>2. key'[Header] = key[Header] /\ height'[Header] = height[Header]
    BY <1>3, <1>4, Pointers
  <2>3. allocated' = linked'[0] \cup dying' \cup InHand'
    BY <1>1, <1>2, <1>3, <1>4, <1>6, Bounds DEF Inv, HeapInv
  <2>4. dying' \subseteq allocated' /\ \A i \in Lvl : linked'[i] \subseteq allocated' \ dying'
    BY <1>1, <1>2, <1>3, <1>4 DEF Inv, HeapInv
  <2>5. QED
    BY <2>1, <2>2, <2>3, <2>4 DEF Inv, HeapInv
<1>9. LevelInv'
  <2>1. LevelInv
    BY DEF Inv
  <2>2. QED
    BY <1>1, <1>5, <1>6, <2>1 DEF LevelInv
<1>10. ChainOK'
  <2>1. w.pc # "free" => \A i \in Lvl : \A m \in linked[i] \cup {Header} :
          IsSuccessor(m, i, forward[m][i])
    BY DEF Inv, ChainOK
  <2>2. w.pc # "free" => \A i \in Lvl : \A m \in linked[i] \cup {Header} :
          IsSuccessor(m, i, forward[m][i])'
    BY <1>1, <1>5, <2>1 DEF IsSuccessor
  <2>3. QED
    BY <1>1, <2>2 DEF ChainOK
<1>11. WriterInv'
  <2>1. \A j \in Lvl : IsPredecessor(w.update[j], j) => IsPredecessor(w.update[j], j)'
    BY <1>1, <1>5 DEF IsPredecessor
  <2>2. w.pc \in {"link", "unlink", "call_rcu"} =>
          /\ w.x \in allocated \ dying /\ w.x \in allocated' \ dying'
          /\ key'[w.x] = key[w.x] /\ height'[w.x] = height[w.x]
          /\ forward'[w.x] = forward[w.x] /\ pid'[w.x] = pid[w.x]
    <3> SUFFICES ASSUME w.pc \in {"link", "unlink", "call_rcu"}
                 PROVE  /\ w.x \in allocated \ dying /\ w.x \in allocated' \ dying'
                        /\ key'[w.x] = key[w.x] /\ height'[w.x] = height[w.x]
                        /\ forward'[w.x] = forward[w.x] /\ pid'[w.x] = pid[w.x]
      OBVIOUS
    <3>1. w.x \in allocated \ dying
      BY DEF Inv, WriterInv
    <3>2. w.x \in Cell /\ w.x # n
      BY <3>1, <1>2, Pointers DEF Inv, TypeOK
    <3>3. pid'[w.x] = pid[w.x]
      BY <3>2, <1>2 DEF Kfree, Inv, TypeOK
    <3>4. QED
      BY <3>1, <3>2, <3>3, <1>2, <1>3
  <2>3. w.pc = "free" => \A m \in linked[0] :
          key'[m] = key[m] /\ IsSuccessor(m, 0, forward[m][0])'
    BY <1>1, <1>5, Bounds DEF IsSuccessor, Inv, WriterInv
  <2>4. Active' = Active
    BY <1>1 DEF Active
  <2>5. w.pc = "search" /\ w.i >= 0 => w.i \in Lvl /\ key'[w.x] = key[w.x]
    BY <1>5, IndexSteps, WriterFields DEF Inv, WriterInv, TypeOK
  <2>6. \A o \in linked[0] : key'[o] = key[o]
    BY <1>5, Bounds
  <2>7. WriterInv
    BY DEF Inv
  <2>8. QED
    BY <1>1, <2>1, <2>2, <2>3, <2>4, <2>5, <2>6, <2>7 DEF WriterInv
<1>12. \A t \in Reader, c \in Cell : Protected(t, c) =>
          c # n /\ Protected(t, c)' /\ height'[c] = height[c]
  BY <1>1, <1>2, <1>3, <1>4 DEF Protected, Inv, HeapInv
<1>13. ReaderInv' /\ Active' = Active
  BY <1>1, <1>12, ReadersStand
<1>14. RcuInv'
  <2>1. ASSUME w.pc # "free",
               NEW m \in (allocated' \ dying') \cup {Header}, NEW j \in Lvl,
               forward'[m][j] # NULL
        PROVE  /\ forward'[m][j] \in allocated' \ dying'
               /\ j < height'[forward'[m][j]]
    <3>1. m \in (allocated \ dying) \cup {Header} /\ m \in Cell /\ m # n
      BY <1>2, <1>3, <1>4, Pointers DEF Inv, TypeOK
    <3>2. /\ forward'[m][j] = forward[m][j]
          /\ forward[m][j] \in allocated \ dying /\ j < height[forward[m][j]]
      BY <3>1, <2>1, <1>3 DEF Inv, RcuInv
    <3>3. forward[m][j] \in Cell /\ forward[m][j] # n
      BY <3>2, <1>2, Pointers DEF Inv, TypeOK
    <3>4. QED
      BY <3>2, <3>3, <1>2, <1>3
  <2>2. ASSUME NEW m \in dying', NEW j \in Lvl, NEW t \in gp'[m],
               forward'[m][j] # NULL
        PROVE  Protected(t, forward[m][j])' /\ j < height'[forward'[m][j]]
    <3>1. m \in dying /\ m # n /\ m \in Cell /\ t \in Reader /\ t \in gp[m]
      BY <1>1, <1>2, Pointers DEF Inv, TypeOK
    <3>2. /\ forward'[m][j] = forward[m][j]
          /\ Protected(t, forward[m][j]) /\ j < height[forward[m][j]]
      BY <3>1, <2>2, <1>3 DEF Inv, RcuInv
    <3>3. forward[m][j] \in Cell
      BY <3>2, Pointers DEF Protected, Inv, TypeOK
    <3>4. QED
      BY <3>1, <3>2, <3>3, <1>12 DEF Protected
  <2>3. QED
    BY <2>1, <2>2, <1>1, <1>13 DEF Inv, RcuInv
<1>15. QED
  BY <1>7, <1>8, <1>9, <1>10, <1>11, <1>13, <1>14 DEF Inv

(* pid_skiplist_destroy() frees the first node and goes on to its          *)
(* successor.                                                              *)
LEMMA DestroyNodeStep == ASSUME Inv, DestroyNode PROVE Inv'
<1> DEFINE x == w.x
           next == forward[x][0]
<1>1. UNCHANGED <<level, dying, gp, r>>
  BY DEF DestroyNode, rcuVars
<1>2. /\ w.pc = "free" /\ x # NULL /\ x \in linked[0] /\ Active = {}
      /\ \A o \in linked[0] : o = x \/ key[x] < key[o]
      /\ \A m \in linked[0] : IsSuccessor(m, 0, forward[m][0])
      /\ InHand = {}
  BY DEF DestroyNode, Inv, WriterInv, InHand
<1>3. x \in Node /\ x \in Cell /\ x # Header /\ x \in allocated \ dying
  BY <1>2, Bounds, Pointers DEF Inv, TypeOK, HeapInv
<1>4. /\ key' \in [Cell -> Number] /\ pid' \in [Cell -> Value]
      /\ height' \in [Cell -> Height] /\ forward' \in [Cell -> [Lvl -> Ptr]]
      /\ allocated' = allocated \ {x}
      /\ \A c \in Cell : c # x => /\ key'[c] = key[c]
                                  /\ height'[c] = height[c]
                                  /\ forward'[c] = forward[c]
  BY <1>3, KfreeFrame DEF DestroyNode, Inv
<1>5. next \in Ptr
  BY <1>3, Bounds DEF Inv, TypeOK
<1>6. w' \in WriterType /\ w'.pc = "free" /\ w'.x = next
  BY <1>2, <1>5 DEF DestroyNode, WriterType, Inv, TypeOK
<1>7. /\ linked' \in [Lvl -> SUBSET Node]
      /\ \A i \in Lvl : linked'[i] = linked[i] \ {x}
  BY DEF DestroyNode, Inv, TypeOK
<1>8. InHand' = {}
  BY <1>6 DEF InHand
<1> HIDE DEF x, next
<1>9. TypeOK'
  BY <1>1, <1>4, <1>6, <1>7 DEF Inv, TypeOK
<1>10. HeapInv'
  <2>1. \A m \in allocated' : /\ m \in allocated /\ key'[m] = key[m]
                              /\ height'[m] = height[m] /\ forward'[m] = forward[m]
    BY <1>4, Pointers DEF Inv, TypeOK
  <2>2. key'[Header] = key[Header] /\ height'[Header] = height[Header]
    BY <1>3, <1>4, Pointers
  <2>3. allocated' = linked'[0] \cup dying' \cup InHand'
    BY <1>1, <1>2, <1>3, <1>4, <1>7, <1>8, Bounds DEF Inv, HeapInv
  <2>4. dying' \subseteq allocated' /\ \A i \in Lvl : linked'[i] \subseteq allocated' \ dying'
    BY <1>1, <1>3, <1>4, <1>7 DEF Inv, HeapInv
  <2>5. QED
    BY <2>1, <2>2, <2>3, <2>4 DEF Inv, HeapInv
<1>11. \A i \in Lvl : \A c \in linked'[i] :
         /\ c \in linked[i] /\ c # x /\ key'[c] = key[c]
         /\ height'[c] = height[c] /\ forward'[c] = forward[c]
  BY <1>4, <1>7, Pointers DEF Inv, TypeOK
<1>12. LevelInv'
  <2>1. LevelInv /\ w.pc # "down" /\ w'.pc # "down"
    BY <1>2, <1>6 DEF Inv
  <2>2. \A i \in Lvl : \A c \in linked[i] : c # x => c \in linked'[i]
    BY <1>7
  <2>3. QED
    BY <1>1, <1>2, <1>8, <1>11, <2>1, <2>2 DEF LevelInv
<1>13. ChainOK'
  BY <1>6 DEF ChainOK
<1>14. WriterInv'
  <2>1. IsSuccessor(x, 0, next)
    BY <1>2 DEF next
  <2>2. 0 \in Lvl /\ linked'[0] = linked[0] \ {x}
        /\ \A o \in linked[0] : key[o] \in Int
    BY <1>7, Bounds, Pointers DEF Inv, TypeOK
  <2>3. ASSUME NEW m \in linked'[0] PROVE IsSuccessor(m, 0, forward[m][0])'
    <3>1. m \in linked[0] /\ m # x /\ key[x] < key[m] /\ forward'[m] = forward[m]
      BY <2>2, <1>2, <1>11
    <3>2. IsSuccessor(m, 0, forward[m][0])
      BY <3>1, <1>2
    <3>3. forward[m][0] # x
      BY <3>1, <3>2, <2>2, <1>2 DEF IsSuccessor
    <3>4. QED
      BY <3>1, <3>2, <3>3, <2>2, <1>11 DEF IsSuccessor
  <2>4. next = NULL => linked'[0] = {}
    BY <2>1, <2>2, <1>2 DEF IsSuccessor
  <2>5. next # NULL => /\ next \in linked'[0]
                       /\ \A o \in linked'[0] : o = next \/ key'[next] < key'[o]
    <3> SUFFICES ASSUME next # NULL
                 PROVE  /\ next \in linked'[0]
                        /\ \A o \in linked'[0] : o = next \/ key'[next] < key'[o]
      OBVIOUS
    <3>1. next \in linked[0] /\ key[x] < key[next]
      BY <2>1 DEF IsSuccessor
    <3>2. next # x /\ next \in linked'[0]
      BY <3>1, <2>2, <1>2
    <3>3. \A o \in linked'[0] : o = next \/ key[next] < key[o]
      BY <2>1, <2>2, <1>2 DEF IsSuccessor
    <3>4. QED
      BY <3>2, <3>3, <2>2, <1>11
  <2>6. Active' = {}
    BY <1>1, <1>2 DEF Active
  <2>7. QED
    BY <1>6, <2>3, <2>4, <2>5, <2>6 DEF WriterInv
<1>15. RcuInv'
  BY <1>1, <1>2, <1>6 DEF Inv, RcuInv, Active, TypeOK
<1>16. ReaderInv'
  BY <1>1, <1>2 DEF ReaderInv, Active
<1>17. QED
  BY <1>9, <1>10, <1>12, <1>13, <1>14, <1>15, <1>16 DEF Inv

(* pid_skiplist_destroy() frees the header once no node is left.           *)
LEMMA DestroyHeaderStep == ASSUME Inv, DestroyHeader PROVE Inv'
<1>1. UNCHANGED <<key, pid, height, allocated, dying, gp, linked, r>>
  BY DEF DestroyHeader, rcuVars
<1>2. w' \in WriterType /\ w'.pc = "down"
  BY IdleTypes DEF DestroyHeader, IdleWriter, WriterType
<1>3. /\ forward' \in [Cell -> [Lvl -> Ptr]]
      /\ \A i \in Lvl : forward'[Header][i] = NULL
      /\ \A n \in Node : forward'[n] = forward[n]
  BY Pointers DEF DestroyHeader, Inv, TypeOK
<1>4. Active = {} /\ InHand = {} /\ InHand' = {} /\ \A i \in Lvl : linked[i] = {}
  BY <1>2, AllEmpty DEF DestroyHeader, Inv, WriterInv, InHand
<1>5. level' = 0
  BY DEF DestroyHeader
<1>6. TypeOK'
  BY <1>1, <1>2, <1>3, <1>5, Bounds DEF Inv, TypeOK
<1>7. HeapInv'
  BY <1>1, <1>3, <1>4 DEF Inv, HeapInv, TypeOK
<1>8. LevelInv'
  BY <1>1, <1>2, <1>4, <1>5, Bounds DEF LevelInv
<1>9. ChainOK'
  BY <1>1, <1>3, <1>4 DEF ChainOK, IsSuccessor
<1>10. WriterInv'
  BY <1>1, <1>2, <1>4 DEF WriterInv, Active
<1>11. allocated = dying
  BY <1>4, Bounds DEF Inv, HeapInv
<1>12. RcuInv'
  BY <1>1, <1>3, <1>4, <1>11 DEF Inv, RcuInv, Active, TypeOK
<1>13. ReaderInv'
  BY <1>1, <1>4 DEF ReaderInv, Active
<1>14. QED
  BY <1>6, <1>7, <1>8, <1>9, <1>10, <1>12, <1>13 DEF Inv

-----------------------------------------------------------------------------
(* The invariant.                                                          *)

(* The invariant holds before pid_skiplist_init().                         *)
LEMMA InitInv == Init => Inv
<1> SUFFICES ASSUME Init PROVE Inv
  OBVIOUS
<1>1. w \in WriterType /\ w.pc = "down"
  BY IdleTypes DEF Init, IdleWriter, WriterType
<1>2. r \in [Reader -> ReaderType] /\ Active = {}
      /\ \A t \in Reader : r[t].pc = "idle"
  BY IdleTypes DEF Init, Active, IdleReader
<1>3. /\ level = 0 /\ allocated = {} /\ dying = {}
      /\ key = [n \in Cell |-> INT_MIN] /\ pid = [n \in Cell |-> NULL]
      /\ height = [n \in Cell |-> IF n = Header THEN PID_SL_MAX_LEVEL ELSE 0]
      /\ forward = [n \in Cell |-> Empty] /\ gp = [n \in Node |-> {}]
      /\ linked = [i \in Lvl |-> {}]
  BY DEF Init
<1>4. TypeOK
  BY <1>1, <1>2, <1>3, Bounds, Pointers DEF TypeOK
<1>5. InHand = {}
  BY <1>1 DEF InHand
<1>6. HeapInv
  BY <1>3, <1>5, Bounds, Pointers DEF HeapInv
<1>7. LevelInv
  BY <1>1, <1>3, Bounds DEF LevelInv
<1>8. ChainOK
  BY <1>3, Pointers DEF ChainOK, IsSuccessor
<1>9. WriterInv
  BY <1>1, <1>2 DEF WriterInv
<1>10. RcuInv
  BY <1>3, Pointers DEF RcuInv
<1>11. ReaderInv
  BY <1>2 DEF ReaderInv
<1>12. QED
  BY <1>4, <1>6, <1>7, <1>8, <1>9, <1>10, <1>11 DEF Inv

(* Every step of the writer, of a reader and of RCU keeps the invariant.   *)
LEMMA NextInv == Inv /\ [Next]_vars => Inv'
<1> SUFFICES ASSUME Inv, [Next]_vars PROVE Inv'
  OBVIOUS
<1>1. CASE pid_skiplist_init
  BY <1>1, InitStep
<1>2. ASSUME NEW k \in Key, NEW p \in InsertPids, pid_skiplist_insert(k, p)
      PROVE  Inv'
  BY <1>2, BeginWriteStep, Pointers DEF pid_skiplist_insert
<1>3. ASSUME NEW k \in Key, pid_skiplist_remove(k) PROVE Inv'
  BY <1>3, BeginWriteStep, Pointers DEF pid_skiplist_remove
<1>4. CASE DestroySync
  BY <1>4, DestroySyncStep
<1>5. CASE SearchAdvance \/ SearchDescend
  BY <1>5, SearchAdvanceStep, SearchDescendStep
<1>6. CASE InsertSteps
  BY <1>6, InsertReplaceStep, InsertRaiseStep, InsertAllocStep, BackToIdle,
     InsertLinkStep DEF InsertSteps, InsertNoMemory
<1>7. CASE RemoveSteps
  BY <1>7, BackToIdle, RemoveFoundStep, RemoveUnlinkStep, RemoveShrinkStep,
     RemoveCallRcuStep DEF RemoveSteps, RemoveAbsent, SearchDone
<1>8. CASE DestroySteps
  BY <1>8, DestroyWalkStep, DestroyNodeStep, DestroyHeaderStep DEF DestroySteps
<1>9. ASSUME NEW n \in Node, pid_sl_node_rcu_free(n) PROVE Inv'
  BY <1>9, RcuFreeStep
<1>10. ASSUME NEW t \in Reader, NEW c \in ReadCalls, ReadBegin(t, c[1], c[2])
       PROVE  Inv'
  BY <1>10, ReadBeginStep
<1>11. ASSUME NEW t \in Reader, ReaderStep(t) PROVE Inv'
  BY <1>11, ReadAdvanceStep, ReadDescendStep, ReadLastStep, LookupStep,
     FindGeStep, IterNextStep, UnlockStep DEF ReaderStep
<1>12. CASE UNCHANGED vars
  BY <1>12 DEF vars, Inv, TypeOK, HeapInv, LevelInv, ChainOK, WriterInv, RcuInv,
     ReaderInv, InHand, IsSuccessor, IsPredecessor, Protected, Active
<1>13. QED
  BY <1>1, <1>2, <1>3, <1>4, <1>5, <1>6, <1>7, <1>8, <1>9, <1>10, <1>11, <1>12
     DEF Next, WriterStep

(* The inductive invariant holds in every reachable state of the list, for *)
(* any number of readers, keys, cells and levels.                          *)
THEOREM Invariance == Spec => []Inv
BY InitInv, NextInv, PTL DEF Spec

(* Type correctness of pid_skiplist.c's state.                             *)
THEOREM TypeCorrect == Spec => []TypeOK
<1>1. Inv => TypeOK
  BY DEF Inv
<1>2. QED
  BY <1>1, Invariance, PTL

(* Every forward pointer on every level is the true successor, between any *)
(* two stores of pid_skiplist_insert() and pid_skiplist_remove().          *)
THEOREM ListSorted == Spec => []ChainOK
<1>1. Inv => ChainOK
  BY DEF Inv
<1>2. QED
  BY <1>1, Invariance, PTL

(* A node stands on every level below its height and no list reaches above *)
(* sl->level, so the early exit of the unlinking loop misses no level.     *)
THEOREM TowersStand == Spec => []TowersOK
<1>1. Inv => TowersOK
  BY Bounds DEF Inv, LevelInv, InHand, TowersOK
<1>2. QED
  BY <1>1, Invariance, PTL

(* No reader dereferences a freed node or runs off a forward array:        *)
(* call_rcu() in remove and synchronize_rcu() in destroy are enough.       *)
THEOREM MemorySafe == Spec => []NoUseAfterFree
<1>1. ASSUME Inv PROVE NoUseAfterFree
  <2> SUFFICES ASSUME NEW t \in Reader
               PROVE  /\ r[t].pc \in {"walk", "last"} =>
                           Protected(t, r[t].x) /\ r[t].i < height[r[t].x]
                      /\ r[t].pc = "eval" =>
                           r[t].next = NULL \/ Protected(t, r[t].next)
                      /\ w.pc \in {"down", "free"} => r[t].pc = "idle"
    BY DEF NoUseAfterFree
  <2>1. w.pc \in {"down", "free"} => r[t].pc = "idle"
    BY <1>1 DEF Inv, WriterInv, Active
  <2>2. QED
    BY <1>1, <2>1 DEF Inv, ReaderInv
<1>2. QED
  BY <1>1, Invariance, PTL

(* Every allocated node is on the list or queued for freeing, never both,  *)
(* and destroy leaves only queued nodes behind.                            *)
THEOREM LeakFree == Spec => []NoLeak
<1>1. ASSUME Inv PROVE NoLeak
  <2>1. w.pc \in {"idle", "search"} => allocated = linked[0] \cup dying
    BY <1>1 DEF Inv, HeapInv, InHand
  <2>2. w.pc = "down" => allocated = dying
    BY <1>1 DEF Inv, HeapInv, LevelInv, InHand
  <2>3. \A i \in Lvl : linked[i] \cap dying = {}
    BY <1>1 DEF Inv, HeapInv
  <2>4. QED
    BY <2>1, <2>2, <2>3 DEF NoLeak
<1>2. QED
  BY <1>1, Invariance, PTL
-----------------------------------------------------------------------------
(* The list implements the map.                                            *)

(* A linked node binds its key to its pointer; no other number is bound.   *)
Bindings ==
  /\ \A n \in linked[0] : key[n] \in Key /\ Map[key[n]] = pid[n]
  /\ \A k \in Key : (\A n \in linked[0] : key[n] # k) => Map[k] = ABSENT

(* The bindings of the abstract map are those of the nodes linked on level *)
(* 0.                                                                      *)
LEMMA MapAt == Inv => Bindings
<1> SUFFICES ASSUME Inv PROVE Bindings
  OBVIOUS
<1>1. \A m, n \in linked[0] : key[m] = key[n] => m = n
  BY Bounds DEF Inv, LevelInv
<1>2. ASSUME NEW n \in linked[0] PROVE key[n] \in Key /\ Map[key[n]] = pid[n]
  <2>1. key[n] \in Key
    BY Bounds DEF Inv, HeapInv
  <2>2. NodeOf(key[n]) \in linked[0] /\ key[NodeOf(key[n])] = key[n]
    BY DEF NodeOf
  <2>3. NodeOf(key[n]) = n
    BY <1>1, <2>2
  <2>4. QED
    BY <2>1, <2>3 DEF Map, Present
<1>3. ASSUME NEW k \in Key, \A n \in linked[0] : key[n] # k
      PROVE  Map[k] = ABSENT
  BY <1>3 DEF Map, Present
<1>4. QED
  BY <1>2, <1>3 DEF Bindings

(* A step that leaves the linked nodes, their keys and pointers alone      *)
(* leaves the map alone.                                                   *)
LEMMA SameMap ==
  ASSUME Bindings, Bindings', linked'[0] = linked[0],
         \A n \in linked[0] : key'[n] = key[n] /\ pid'[n] = pid[n]
  PROVE  Map' = Map
<1>1. \A k \in Key : Map'[k] = Map[k]
  <2> SUFFICES ASSUME NEW k \in Key PROVE Map'[k] = Map[k]
    OBVIOUS
  <2>1. CASE \E n \in linked[0] : key[n] = k
    <3>1. PICK n \in linked[0] : key[n] = k
      BY <2>1
    <3>2. Map[k] = pid[n]
      BY <3>1 DEF Bindings
    <3>3. Map'[k] = pid'[n]
      BY <3>1 DEF Bindings
    <3>4. QED
      BY <3>2, <3>3
  <2>2. CASE ~\E n \in linked[0] : key[n] = k
    BY <2>2 DEF Bindings
  <2>3. QED
    BY <2>1, <2>2
<1>2. QED
  BY <1>1 DEF Map

(* What a step that binds or unbinds one number does to the map.           *)
LEMMA BindOne ==
  ASSUME Bindings, Bindings', NEW x, NEW k \in Key, NEW v,
         x \in linked'[0], key'[x] = k, pid'[x] = v,
         \A n \in linked[0] : n # x => key[n] # k,
         \A n \in linked'[0] : n # x => n \in linked[0] /\ key'[n] = key[n]
                                        /\ pid'[n] = pid[n],
         \A n \in linked[0] : n # x => n \in linked'[0],
         x \in linked[0] => key[x] = k
  PROVE  Map' = [Map EXCEPT ![k] = v]
<1>1. Map'[k] = v
  BY DEF Bindings
<1>2. ASSUME NEW j \in Key, j # k PROVE Map'[j] = Map[j]
  <2>1. CASE \E n \in linked[0] : key[n] = j
    <3>1. PICK n \in linked[0] : key[n] = j
      BY <2>1
    <3>2. n # x /\ n \in linked'[0] /\ key'[n] = j /\ pid'[n] = pid[n]
      BY <3>1, <1>2
    <3>3. QED
      BY <3>1, <3>2 DEF Bindings
  <2>2. CASE ~\E n \in linked[0] : key[n] = j
    BY <2>2, <1>2 DEF Bindings
  <2>3. QED
    BY <2>1, <2>2
<1>3. QED
  BY <1>1, <1>2 DEF Map

(* A step that unlinks one node on level 0 removes its number from the     *)
(* map.                                                                    *)
LEMMA UnbindOne ==
  ASSUME Bindings, Bindings', NEW x \in linked[0],
         \A m, n \in linked[0] : key[m] = key[n] => m = n,
         linked'[0] = linked[0] \ {x},
         \A n \in linked'[0] : key'[n] = key[n] /\ pid'[n] = pid[n]
  PROVE  Map' = [Map EXCEPT ![key[x]] = ABSENT] /\ key[x] \in Key
<1>1. key[x] \in Key
  BY DEF Bindings
<1>2. Map'[key[x]] = ABSENT
  BY <1>1 DEF Bindings
<1>3. ASSUME NEW j \in Key, j # key[x] PROVE Map'[j] = Map[j]
  <2>1. CASE \E n \in linked[0] : key[n] = j
    <3>1. PICK n \in linked[0] : key[n] = j
      BY <2>1
    <3>2. n \in linked'[0] /\ key'[n] = j /\ pid'[n] = pid[n]
      BY <3>1, <1>3
    <3>3. QED
      BY <3>1, <3>2 DEF Bindings
  <2>2. CASE ~\E n \in linked[0] : key[n] = j
    BY <2>2, <1>3 DEF Bindings
  <2>3. QED
    BY <2>1, <2>2
<1>4. QED
  BY <1>1, <1>2, <1>3 DEF Map

(* The list starts as the empty map.                                       *)
LEMMA InitMap == Init => Abstract!Init
<1> SUFFICES ASSUME Init PROVE Map = [k \in Key |-> ABSENT]
  BY DEF Abstract!Init
<1>1. linked[0] = {}
  BY Bounds DEF Init
<1>2. QED
  BY <1>1 DEF Map, Present

(* Replacing a pointer is one insertion into the map.                      *)
LEMMA ReplaceMap ==
  ASSUME Inv, Bindings, Bindings', InsertReplace PROVE Abstract!Next
<1>1. Candidate \in linked[0] /\ key[Candidate] = w.key /\ Candidate \in Cell
      /\ w.key \in Key /\ w.pid \in Value
  BY AtCandidate, WriterFields, Bounds, Pointers
     DEF InsertReplace, Found, SearchDone, Inv, WriterInv, TypeOK
<1>2. linked' = linked /\ key' = key /\ pid' = [pid EXCEPT ![Candidate] = w.pid]
  BY DEF InsertReplace
<1>3. pid \in [Cell -> Value] /\ linked[0] \subseteq Cell
  BY Bounds, Pointers DEF Inv, TypeOK
<1>4. \A m, n \in linked[0] : key[m] = key[n] => m = n
  BY Bounds DEF Inv, LevelInv
<1>5. pid'[Candidate] = w.pid
      /\ \A n \in linked[0] : n # Candidate => pid'[n] = pid[n] /\ key[n] # w.key
  BY <1>1, <1>2, <1>3, <1>4
<1>6. Map' = [Map EXCEPT ![w.key] = w.pid]
  BY <1>1, <1>2, <1>5, BindOne
<1>7. QED
  BY <1>1, <1>6 DEF Abstract!Next, Abstract!Insert, Abstract!Value, Value

(* Linking on level 0 is one insertion into the map; linking above it is   *)
(* invisible.                                                              *)
LEMMA LinkMap ==
  ASSUME Inv, Bindings, Bindings', InsertLink PROVE [Abstract!Next]_Map
<1>1. /\ w.key \in Key /\ w.pid \in Value /\ key[w.x] = w.key /\ pid[w.x] = w.pid
      /\ \A o \in linked[0] : o # w.x => key[o] # w.key
      /\ w.i \in Lvl
  BY WriterFields, IndexSteps DEF InsertLink, Inv, WriterInv
<1>2. key' = key /\ pid' = pid
  BY DEF InsertLink
<1>3. CASE w.i = 0
  <2>1. linked'[0] = linked[0] \cup {w.x}
    BY <1>1, <1>3 DEF InsertLink, Inv, TypeOK
  <2>2. Map' = [Map EXCEPT ![w.key] = w.pid]
    BY <1>1, <1>2, <2>1, BindOne
  <2>3. QED
    BY <1>1, <2>2 DEF Abstract!Next, Abstract!Insert, Abstract!Value, Value
<1>4. CASE w.i # 0
  <2>1. linked'[0] = linked[0]
    BY <1>1, <1>4, Bounds DEF InsertLink, Inv, TypeOK
  <2>2. QED
    BY <1>2, <2>1, SameMap
<1>5. QED
  BY <1>3, <1>4

(* Unlinking on level 0 is one removal from the map; unlinking above it is *)
(* invisible.                                                              *)
LEMMA UnlinkMap ==
  ASSUME Inv, Bindings, Bindings', RemoveUnlink PROVE [Abstract!Next]_Map
<1>1. key' = key /\ pid' = pid
  BY DEF RemoveUnlink
<1>2. w.i \in Lvl
  BY WriterFields, IndexSteps
     DEF RemoveUnlink, Unlinking, Inv, WriterInv, TypeOK
<1>3. CASE w.i = 0 /\ w.x \in linked[0]
  <2>1. linked'[0] = linked[0] \ {w.x}
    BY <1>2, <1>3 DEF RemoveUnlink, Inv, TypeOK
  <2>2. \A m, n \in linked[0] : key[m] = key[n] => m = n
    BY Bounds DEF Inv, LevelInv
  <2>3. Map' = [Map EXCEPT ![key[w.x]] = ABSENT] /\ key[w.x] \in Key
    BY <1>1, <1>3, <2>1, <2>2, UnbindOne
  <2>4. Map[key[w.x]] # ABSENT
    <3>1. Map[key[w.x]] = pid[w.x]
      BY <1>3 DEF Bindings
    <3>2. pid[w.x] \in Value
      BY <1>3, Bounds, Pointers DEF Inv, TypeOK
    <3>3. QED
      BY <3>1, <3>2, CellAssumption DEF Value
  <2>5. QED
    BY <2>3, <2>4 DEF Abstract!Next, Abstract!Remove
<1>4. CASE ~(w.i = 0 /\ w.x \in linked[0])
  <2>1. linked'[0] = linked[0]
    BY <1>2, <1>4, Bounds DEF RemoveUnlink, Inv, TypeOK
  <2>2. QED
    BY <1>1, <2>1, SameMap
<1>5. QED
  BY <1>3, <1>4

(* Freeing a node in pid_skiplist_destroy() is one removal from the map.   *)
LEMMA DestroyMap ==
  ASSUME Inv, Bindings, Bindings', DestroyNode PROVE [Abstract!Next]_Map
<1>1. w.x \in linked[0] /\ w.x \in Node /\ w.x \in Cell /\ linked[0] \subseteq Cell
  BY Bounds, Pointers DEF DestroyNode, Inv, WriterInv, TypeOK
<1>2. linked'[0] = linked[0] \ {w.x}
  BY Bounds DEF DestroyNode
<1>3. \A n \in linked'[0] : key'[n] = key[n] /\ pid'[n] = pid[n]
  BY <1>1, <1>2 DEF DestroyNode, Kfree, Inv, TypeOK
<1>4. \A m, n \in linked[0] : key[m] = key[n] => m = n
  BY Bounds DEF Inv, LevelInv
<1>5. Map' = [Map EXCEPT ![key[w.x]] = ABSENT] /\ key[w.x] \in Key
  BY <1>1, <1>2, <1>3, <1>4, UnbindOne
<1>6. Map[key[w.x]] # ABSENT
  <2>1. Map[key[w.x]] = pid[w.x]
    BY <1>1 DEF Bindings
  <2>2. pid[w.x] \in Value
    BY <1>1 DEF Inv, TypeOK
  <2>3. QED
    BY <2>1, <2>2, CellAssumption DEF Value
<1>7. QED
  BY <1>5, <1>6 DEF Abstract!Next, Abstract!Remove

(* Allocating a node is invisible in the map.                              *)
LEMMA AllocMap ==
  ASSUME Inv, Bindings, Bindings', InsertAlloc PROVE Map' = Map
<1>1. linked' = linked
  BY DEF InsertAlloc
<1>2. PICK n \in Node \ allocated : key' = [key EXCEPT ![n] = w.key]
                                    /\ pid' = [pid EXCEPT ![n] = w.pid]
  BY DEF InsertAlloc
<1>3. n \notin linked[0] /\ linked[0] \subseteq Cell
  BY Bounds, Pointers DEF Inv, HeapInv, TypeOK
<1>4. \A m \in linked[0] : key'[m] = key[m] /\ pid'[m] = pid[m]
  BY <1>2, <1>3 DEF Inv, TypeOK
<1>5. QED
  BY <1>1, <1>4, SameMap

(* Freeing a removed node is invisible in the map.                         *)
LEMMA FreeMap ==
  ASSUME Inv, Bindings, Bindings', NEW n \in Node, pid_sl_node_rcu_free(n)
  PROVE  Map' = Map
<1>1. linked' = linked /\ n \in dying /\ Kfree(n)
  BY DEF pid_sl_node_rcu_free
<1>2. n \notin linked[0] /\ linked[0] \subseteq Cell
  BY <1>1, Bounds, Pointers DEF Inv, HeapInv, TypeOK
<1>3. \A m \in linked[0] : key'[m] = key[m] /\ pid'[m] = pid[m]
  BY <1>1, <1>2 DEF Kfree, Inv, TypeOK
<1>4. QED
  BY <1>1, <1>3, SameMap

(* Every step of the list is a step of the map or invisible in it.         *)
LEMMA NextMap ==
  ASSUME Inv, Bindings, Bindings', [Next]_vars PROVE [Abstract!Next]_Map
<1> USE DEF heapVars, rcuVars
<1>1. CASE UNCHANGED <<key, pid, linked>>
  BY <1>1, SameMap
<1>2. CASE InsertReplace
  BY <1>2, ReplaceMap
<1>3. CASE InsertAlloc
  BY <1>3, AllocMap
<1>4. CASE InsertLink
  BY <1>4, LinkMap
<1>5. CASE RemoveUnlink
  BY <1>5, UnlinkMap
<1>6. CASE DestroyNode
  BY <1>6, DestroyMap
<1>7. ASSUME NEW n \in Node, pid_sl_node_rcu_free(n) PROVE [Abstract!Next]_Map
  BY <1>7, FreeMap
<1>8. CASE pid_skiplist_init \/ DestroySync \/ SearchAdvance \/ SearchDescend
           \/ InsertRaise \/ InsertNoMemory
  BY <1>8, <1>1 DEF pid_skiplist_init, DestroySync, SearchAdvance, SearchDescend,
     InsertRaise, InsertNoMemory
<1>9. CASE RemoveAbsent \/ RemoveFound \/ RemoveShrink \/ RemoveCallRcu
           \/ DestroyWalk \/ DestroyHeader
  BY <1>9, <1>1 DEF RemoveAbsent, RemoveFound, RemoveShrink, RemoveCallRcu,
     DestroyWalk, DestroyHeader
<1>10. ASSUME NEW op, NEW k, NEW p, BeginWrite(op, k, p)
       PROVE  [Abstract!Next]_Map
  BY <1>10, <1>1 DEF BeginWrite
<1>11. ASSUME NEW t \in Reader, NEW c \in ReadCalls, ReadBegin(t, c[1], c[2])
       PROVE  [Abstract!Next]_Map
  BY <1>11, <1>1 DEF ReadBegin, Moves
<1>12. ASSUME NEW t \in Reader, ReaderStep(t) PROVE [Abstract!Next]_Map
  BY <1>12, <1>1 DEF ReaderStep, ReadAdvance, ReadDescend, ReadLast, Moves, Returns,
     pid_skiplist_lookup_rcu, pid_skiplist_find_ge_rcu,
     pid_skiplist_iter_next_rcu, rcu_read_unlock
<1>13. CASE UNCHANGED vars
  BY <1>13, <1>1 DEF vars
<1>14. QED
  BY <1>2, <1>3, <1>4, <1>5, <1>6, <1>7, <1>8, <1>9, <1>10, <1>11, <1>12, <1>13
     DEF Next, WriterStep, InsertSteps, RemoveSteps, DestroySteps,
         pid_skiplist_insert, pid_skiplist_remove

(* The skip list, changed one store at a time under readers that take no   *)
(* lock, implements the atomic map PidMap.                                 *)
THEOREM Refinement == Spec => ImplementsMap
<1>1. Inv /\ Inv' /\ [Next]_vars => [Abstract!Next]_Map
  <2> SUFFICES ASSUME Inv, Inv', [Next]_vars PROVE [Abstract!Next]_Map
    OBVIOUS
  <2>1. Bindings
    BY MapAt
  <2>2. Bindings'
    BY MapAt, PTL
  <2>3. QED
    BY <2>1, <2>2, NextMap
<1>2. QED
  BY <1>1, InitMap, Invariance, PTL DEF Spec, ImplementsMap, Abstract!Spec

-----------------------------------------------------------------------------
(* What a reader may rely on in a state that satisfies ReadInv.            *)

(* The types of the reader's history.                                      *)
LEMMA HistoryFields ==
  ASSUME TypeOK, NEW t \in Reader
  PROVE  /\ r[t].stable \subseteq Int /\ r[t].stable \subseteq Key
         /\ r[t].visited \subseteq Int
         /\ r[t].key \in Int /\ r[t].raced \in BOOLEAN /\ r[t].hole \in BOOLEAN
         /\ r[t].seen \subseteq Pid /\ r[t].res \in Value
BY KeyAssumption, Pointers DEF TypeOK, ReaderType

(* The keys of cells are integers.                                         *)
LEMMA CellKeys ==
  ASSUME TypeOK
  PROVE  /\ \A c \in Cell : key[c] \in Int /\ pid[c] \in Value
         /\ \A c \in Cell, i \in Lvl : forward[c][i] \in Ptr
         /\ \A i \in Lvl : linked[i] \subseteq Node /\ linked[i] \subseteq Cell
         /\ dying \subseteq Cell
<1>1. \A c \in Cell : key[c] \in Number /\ pid[c] \in Value
  BY DEF TypeOK
<1>2. \A c \in Cell, i \in Lvl : forward[c][i] \in Ptr
  BY DEF TypeOK
<1>3. \A i \in Lvl : linked[i] \subseteq Node
  BY DEF TypeOK
<1>4. dying \subseteq Node
  BY DEF TypeOK
<1>5. QED
  BY <1>1, <1>2, <1>3, <1>4, Pointers

(* Between operations on the list a live cell points upwards on each of    *)
(* its levels, unless it is the node in hand and off that level.           *)
LEMMA LiveUpward ==
  ASSUME Inv, w.pc # "free", NEW n \in (allocated \ dying) \cup {Header},
         NEW i \in Lvl, forward[n][i] # NULL,
         w.pc \in {"unlink", "call_rcu"} /\ n = w.x => n \in linked[i]
  PROVE  forward[n][i] \notin Private /\ key[n] < key[forward[n][i]]
<1>1. n \in linked[i] \cup {Header}
  <2>1. CASE n = Header
    BY <2>1
  <2>2. CASE n \in allocated \ dying /\ n \notin InHand
    <3>1. n \in linked[0]
      BY <2>2 DEF Inv, HeapInv
    <3>2. height[n] \in Int /\ i \in Int /\ ~(height[n] <= i)
      BY <2>2, Bounds, CellKeys, Pointers DEF Inv, HeapInv, TypeOK
    <3>3. QED
      BY <2>2, <3>1, <3>2, Bounds DEF Inv, LevelInv
  <2>3. CASE n \in allocated \ dying /\ n \in InHand
    <3>1. w.pc \in {"link", "unlink", "call_rcu"} /\ n = w.x
      BY <2>3 DEF InHand
    <3>2. CASE w.pc = "link"
      <4>1. ~(w.i <= i) /\ w.i \in Int /\ i \in Int
        BY <3>1, <3>2, Bounds, WriterFields DEF Inv, WriterInv
      <4>2. QED
        BY <3>1, <3>2, <4>1 DEF Inv, WriterInv
    <3>3. QED
      BY <3>1, <3>2
  <2>4. QED
    BY <2>1, <2>2, <2>3
<1>2. IsSuccessor(n, i, forward[n][i])
  BY <1>1 DEF Inv, ChainOK
<1>3. forward[n][i] \in linked[i] /\ key[n] < key[forward[n][i]]
  BY <1>2 DEF IsSuccessor
<1>4. forward[n][i] \notin Private
  <2>1. CASE w.pc = "link" /\ w.i = 0
    <3>1. w.x \notin linked[i]
      BY <2>1, Bounds DEF Inv, WriterInv
    <3>2. QED
      BY <2>1, <3>1, <1>3 DEF Private
  <2>2. CASE ~(w.pc = "link" /\ w.i = 0)
    BY <2>2 DEF Private
  <2>3. QED
    BY <2>1, <2>2
<1>5. QED
  BY <1>3, <1>4

(* A protected cell is the header, a linked node, the node being removed,  *)
(* a removed one that is kept, or private.                                 *)
LEMMA CellKinds ==
  ASSUME Inv, NEW t \in Reader, NEW n \in Cell, Protected(t, n), n \notin Private
  PROVE  \/ n \in linked[0] \cup {Header}
         \/ w.pc \in {"unlink", "call_rcu"} /\ n = w.x
         \/ n \in dying /\ t \in gp[n]
<1>1. CASE n = Header \/ n \in dying
  BY <1>1 DEF Protected
<1>2. CASE n \in allocated \ dying /\ n \notin linked[0]
  <2>1. w.pc \in {"link", "unlink", "call_rcu"} /\ n = w.x
    BY <1>2 DEF Inv, HeapInv, InHand
  <2>2. ASSUME w.pc = "link" PROVE FALSE
    <3>1. ~(0 < w.i) /\ w.i >= 0 /\ w.i \in Int
      BY <1>2, <2>1, <2>2, Bounds, WriterFields DEF Inv, WriterInv
    <3>2. w.i = 0
      BY <3>1
    <3>3. QED
      BY <2>1, <2>2, <3>2 DEF Private
  <2>3. QED
    BY <2>1, <2>2
<1>3. CASE n \in linked[0]
  BY <1>3
<1>4. QED
  BY <1>1, <1>2, <1>3 DEF Protected

(* What lies ahead of a reader: wherever it stands, keys go up, no number  *)
(* bound throughout is skipped, and a pointer found for the number it      *)
(* searches for is one the number was bound to in its section.             *)
LEMMA Ahead ==
  ASSUME Inv, ReadInv, NEW t \in Reader, r[t].pc # "idle", NEW n \in Cell,
         Protected(t, n), n \notin Private
  PROVE  Upward(n) /\ Leads(t, n)
<1>0. w.pc # "free" /\ t \in Active
  BY DEF Inv, WriterInv, Active
<1>1. CASE n \in dying /\ t \in gp[n]
  BY <1>1 DEF ReadInv, RemovedInv
<1>2. CASE n \in linked[0] \cup {Header} \/ (w.pc \in {"unlink", "call_rcu"} /\ n = w.x)
  <2>1. n \in (allocated \ dying) \cup {Header}
    BY <1>2, Bounds DEF Inv, HeapInv, WriterInv
  <2>2. Upward(n)
    <3>1. CASE w.pc \in {"unlink", "call_rcu"} /\ n = w.x
      BY <3>1 DEF ReadInv, UnlinkedInv
    <3>2. CASE ~(w.pc \in {"unlink", "call_rcu"} /\ n = w.x)
      BY <1>0, <2>1, <3>2, LiveUpward DEF Upward
    <3>3. QED
      BY <3>1, <3>2
  <2>3. IsSuccessor(n, 0, forward[n][0])
    BY <1>0, <1>2, Bounds DEF Inv, ChainOK, ReadInv, UnlinkedInv
  <2>4. ASSUME NEW k \in r[t].stable, key[n] < k
        PROVE  forward[n][0] # NULL /\ key[forward[n][0]] <= k
    <3>1. PICK m \in linked[0] : key[m] = k
      BY <1>0 DEF ReadInv, BoundInv
    <3>2. k \in Int
      BY HistoryFields DEF Inv
    <3>3. forward[n][0] # NULL => forward[n][0] \in Cell /\ key[forward[n][0]] \in Int
      BY CellKeys, Bounds, Pointers DEF Inv
    <3>4. QED
      BY <2>3, <2>4, <3>1, <3>2, <3>3 DEF IsSuccessor
  <2>5. ASSUME forward[n][0] # NULL, key[forward[n][0]] = r[t].key
        PROVE  pid[forward[n][0]] \in r[t].seen \cup {NULL}
    <3>1. forward[n][0] \in linked[0]
      BY <2>3, <2>5 DEF IsSuccessor
    <3>2. QED
      BY <1>0, <2>5, <3>1 DEF ReadInv, BoundInv
  <2>6. QED
    BY <2>2, <2>4, <2>5 DEF Leads
<1>3. QED
  BY <1>1, <1>2, CellKinds

(* A node a reader can stand on that has a number bound throughout its     *)
(* section has a struct pid for it.                                        *)
LEMMA StableNode ==
  ASSUME Inv, ReadInv, NEW t \in Reader, r[t].pc # "idle", NEW n \in Cell,
         Protected(t, n), n \notin Private, key[n] \in r[t].stable
  PROVE  pid[n] \in Pid
<1>1. PICK m \in linked[0] : key[m] = key[n] /\ pid[m] \in Pid
  BY DEF ReadInv, BoundInv, Active
<1>2. ~(n \in dying /\ t \in gp[n])
  BY DEF ReadInv, RemovedInv
<1>3. n # Header
  BY HistoryFields, KeyAssumption DEF Inv, HeapInv
<1>4. CASE n \in linked[0]
  BY <1>1, <1>4, Bounds DEF Inv, LevelInv
<1>5. CASE w.pc \in {"unlink", "call_rcu"} /\ n = w.x
  BY <1>1, <1>5 DEF ReadInv, UnlinkedInv
<1>6. QED
  BY <1>2, <1>3, <1>4, <1>5, CellKinds

-----------------------------------------------------------------------------
(* Steps of the writer and of RCU, as the readers see them.                *)

(* Reader t is where it was, and its history has only grown.               *)
Stays(t) ==
  /\ r'[t].pc = r[t].pc /\ r'[t].x = r[t].x /\ r'[t].next = r[t].next
  /\ r'[t].op = r[t].op /\ r'[t].key = r[t].key /\ r'[t].res = r[t].res
  /\ r'[t].visited = r[t].visited /\ r'[t].hole = r[t].hole
  /\ r'[t].stable \subseteq r[t].stable /\ r[t].seen \subseteq r'[t].seen
  /\ r[t].raced => r'[t].raced

(* The cells t may stand on keep their keys and do not become private; a   *)
(* pointer that changes is one t has seen.                                 *)
Keeps(t) ==
  \A c \in Cell :
    Protected(t, c) /\ c \notin Private =>
      /\ c \notin Private' /\ key'[c] = key[c]
      /\ key[c] = r[t].key =>
           pid'[c] = pid[c] \/ pid'[c] \in r'[t].seen \cup {NULL}

(* A reader between its two loads finds what it would have found, or       *)
(* nothing below the number it searches for, or has been raced.            *)
SameWindow(t) ==
  InWindow(t) /\ ~r'[t].raced /\ forward'[r[t].x][0] # NULL =>
    \/ forward'[r[t].x][0] = forward[r[t].x][0]
    \/ key'[forward'[r[t].x][0]] >= r[t].key

(* A reader that stays keeps its part of the invariant.                    *)
LEMMA ReaderStays ==
  ASSUME Inv, Inv', ReadInv, NEW t \in Reader,
         Stays(t), r[t].pc # "idle" => Keeps(t) /\ SameWindow(t)
  PROVE  WalkInv(t)' /\ EvalInv(t)' /\ DoneInv(t)'
<1>1. WalkInv(t)'
  <2> SUFFICES ASSUME r[t].pc \in {"walk", "last"} PROVE WalkInv(t)'
    BY DEF WalkInv, Stays
  <2>1. /\ r[t].x \in Cell /\ Protected(t, r[t].x) /\ r[t].x \notin Private
    BY ReaderX DEF ReadInv, WalkInv
  <2>2. r[t].x \notin Private' /\ key'[r[t].x] = key[r[t].x]
    BY <2>1 DEF Keeps
  <2>3. ASSUME InWindow(t), ~r'[t].raced, forward'[r[t].x][0] # NULL
        PROVE  key'[forward'[r[t].x][0]] >= r[t].key
    <3>1. CASE forward'[r[t].x][0] = forward[r[t].x][0]
      <4>1. Protected(t, forward[r[t].x][0]) /\ forward[r[t].x][0] \in Cell
        BY <2>1, <2>3, <3>1, Closure, CellKeys, Bounds, Pointers DEF Inv
      <4>2. forward[r[t].x][0] \notin Private
        BY <2>1, <2>3, <3>1, Ahead, Bounds DEF Upward
      <4>3. key'[forward[r[t].x][0]] = key[forward[r[t].x][0]]
        BY <4>1, <4>2 DEF Keeps
      <4>4. ~r[t].raced
        BY <2>3 DEF Stays
      <4>5. QED
        BY <2>3, <3>1, <4>3, <4>4 DEF ReadInv, WalkInv
    <3>2. QED
      BY <2>3, <3>1 DEF SameWindow
  <2>4. InWindow(t)' => InWindow(t)
    BY DEF InWindow, Stays
  <2>5. QED
    BY <2>2, <2>3, <2>4 DEF ReadInv, WalkInv, Stays
<1>2. EvalInv(t)'
  <2> SUFFICES ASSUME r[t].pc = "eval" PROVE EvalInv(t)'
    BY DEF EvalInv, Stays
  <2>1. CASE r[t].next = NULL
    <3>1. NULL \notin Private'
      BY Pointers DEF Inv, WriterInv, TypeOK, Private
    <3>2. QED
      BY <2>1, <3>1 DEF ReadInv, EvalInv, Stays
  <2>2. CASE r[t].next # NULL
    <3>1. /\ r[t].next \in Cell /\ Protected(t, r[t].next)
          /\ r[t].next \notin Private
      BY <2>2, ReaderNext DEF ReadInv, EvalInv
    <3>2. /\ r[t].next \notin Private' /\ key'[r[t].next] = key[r[t].next]
          /\ key[r[t].next] = r[t].key =>
               \/ pid'[r[t].next] = pid[r[t].next]
               \/ pid'[r[t].next] \in r'[t].seen \cup {NULL}
      BY <3>1 DEF Keeps
    <3>3. QED
      BY <2>2, <3>2 DEF ReadInv, EvalInv, Stays
  <2>3. QED
    BY <2>1, <2>2
<1>3. DoneInv(t)'
  BY DEF ReadInv, DoneInv, Stays
<1>4. QED
  BY <1>1, <1>2, <1>3

(* Removed nodes that stay queued keep their part of the invariant.        *)
LEMMA RemovedStay ==
  ASSUME Inv, ReadInv, NEW n \in dying, NEW t \in gp[n], forward'[n] = forward[n],
         r'[t].key = r[t].key, r'[t].stable \subseteq r[t].stable,
         r[t].seen \subseteq r'[t].seen, Keeps(t)
  PROVE  Upward(n)' /\ key'[n] \notin r'[t].stable /\ Leads(t, n)'
<1>1. n \in Cell /\ Protected(t, n) /\ t \in Reader /\ r[t].pc # "idle"
  BY CellKeys, Pointers DEF Inv, HeapInv, RcuInv, Active, Protected, TypeOK
<1>2. n \notin Private
  BY WriterFields DEF Inv, WriterInv, Private
<1>3. key'[n] = key[n] /\ n \notin Private'
  BY <1>1, <1>2 DEF Keeps
<1>4. Upward(n) /\ key[n] \notin r[t].stable /\ Leads(t, n)
  BY DEF ReadInv, RemovedInv
<1>5. ASSUME NEW i \in Lvl, forward[n][i] # NULL
      PROVE  /\ forward[n][i] \in Cell /\ Protected(t, forward[n][i])
             /\ forward[n][i] \notin Private
             /\ forward[n][i] \notin Private'
             /\ key'[forward[n][i]] = key[forward[n][i]]
  <2>1. forward[n][i] \in Cell /\ Protected(t, forward[n][i])
    BY <1>1, <1>5, Closure, CellKeys, Pointers DEF Inv
  <2>2. forward[n][i] \notin Private
    BY <1>4, <1>5 DEF Upward
  <2>3. QED
    BY <2>1, <2>2 DEF Keeps
<1>6. Upward(n)'
  BY <1>3, <1>4, <1>5 DEF Upward
<1>7. forward[n][0] # NULL /\ key[forward[n][0]] = r[t].key =>
        pid'[forward[n][0]] \in r'[t].seen \cup {NULL}
  BY <1>4, <1>5, Bounds DEF Keeps, Leads
<1>8. Leads(t, n)'
  BY <1>3, <1>4, <1>5, <1>7, Bounds DEF Leads
<1>9. QED
  BY <1>3, <1>4, <1>6, <1>8

(* A step of the writer or of RCU under which readers stay, and that       *)
(* queues no node, keeps ReadInv if the linked nodes bear it out.          *)
LEMMA WriterReads ==
  ASSUME Inv, Inv', ReadInv, BoundInv', UnlinkedInv',
         \A t \in Reader : Stays(t) /\ (r[t].pc # "idle" => Keeps(t) /\ SameWindow(t)),
         dying' \subseteq dying,
         \A n \in dying' : gp'[n] \subseteq gp[n] /\ forward'[n] = forward[n]
  PROVE  ReadInv'
<1>1. ASSUME NEW n \in dying', NEW t \in gp'[n]
      PROVE  Upward(n)' /\ key'[n] \notin r'[t].stable /\ Leads(t, n)'
  <2>1. n \in dying /\ t \in gp[n] /\ forward'[n] = forward[n]
    BY <1>1
  <2>2. t \in Reader /\ r[t].pc # "idle"
    BY <2>1 DEF Inv, TypeOK, RcuInv, Active
  <2>3. QED
    BY <2>1, <2>2, RemovedStay DEF Stays
<1>2. RemovedInv'
  BY <1>1 DEF RemovedInv
<1>3. \A t \in Reader : WalkInv(t)' /\ EvalInv(t)' /\ DoneInv(t)'
  BY ReaderStays
<1>4. QED
  BY <1>2, <1>3 DEF ReadInv

(* Steps of the writer that store nothing but its own locals, or sl->level *)
(* with them.                                                              *)
LEMMA LocalReads ==
  ASSUME Inv, Inv', ReadInv, UNCHANGED <<heapVars, rcuVars, linked, r>>,
         Private = {}, Private' = {}, UnlinkedInv'
  PROVE  ReadInv'
<1>1. UNCHANGED <<key, pid, height, forward, allocated, dying, gp, linked, r>>
  BY DEF heapVars, rcuVars
<1>2. \A t \in Reader : Stays(t) /\ Keeps(t) /\ SameWindow(t)
  BY <1>1 DEF Stays, Keeps, SameWindow
<1>3. BoundInv'
  BY <1>1 DEF ReadInv, BoundInv, Active
<1>4. QED
  BY <1>1, <1>2, <1>3, WriterReads

(* Without readers there is nothing to keep but the node in hand.          *)
LEMMA NoReaders ==
  ASSUME Inv, Active = {}, UnlinkedInv
  PROVE  ReadInv
<1>1. BoundInv
  BY DEF BoundInv
<1>2. RemovedInv
  BY DEF Inv, RcuInv, RemovedInv, TypeOK
<1>3. \A t \in Reader : WalkInv(t) /\ EvalInv(t) /\ DoneInv(t)
  BY DEF Active, WalkInv, EvalInv, DoneInv
<1>4. QED
  BY <1>1, <1>2, <1>3 DEF ReadInv

(* pid_skiplist_init(), and pid_skiplist_destroy() once it frees, meet no  *)
(* reader.                                                                 *)
LEMMA UnsharedReads ==
  ASSUME Inv, Inv', pid_skiplist_init \/ DestroyWalk \/ DestroyNode \/ DestroyHeader
  PROVE  ReadInv'
<1>1. w'.pc \notin {"unlink", "call_rcu"} /\ r' = r /\ Active = {}
  <2>1. CASE pid_skiplist_init
    BY <2>1 DEF pid_skiplist_init, IdleWriter, Inv, WriterInv
  <2>2. CASE DestroyWalk
    BY <2>2 DEF DestroyWalk, Inv, WriterInv, TypeOK, WriterType
  <2>3. CASE DestroyNode
    BY <2>3 DEF DestroyNode, Inv, WriterInv, TypeOK, WriterType
  <2>4. CASE DestroyHeader
    BY <2>4 DEF DestroyHeader, IdleWriter, Inv, WriterInv
  <2>5. QED
    BY <2>1, <2>2, <2>3, <2>4
<1>2. UnlinkedInv' /\ (Active = {})'
  BY <1>1 DEF UnlinkedInv, Active
<1>3. QED
  BY <1>2, NoReaders, PTL

(* The history of the readers a change of the map overlaps.                *)
LEMMA Observed ==
  ASSUME TypeOK, NEW k \in Key, NEW v \in Value, NEW b \in BOOLEAN,
         Observe(k, v, b), NEW t \in Reader
  PROVE  /\ Stays(t)
         /\ r[t].pc # "idle" =>
              /\ k = r[t].key /\ v \in Pid => v \in r'[t].seen
              /\ v \notin Pid => k \notin r'[t].stable
              /\ b /\ k < r[t].key /\ InWindow(t) => r'[t].raced
<1>1. r[t] \in ReaderType
  BY DEF TypeOK
<1>2. CASE t \notin Active
  BY <1>2 DEF Observe, Stays, Active
<1>3. CASE t \in Active
  <2> DEFINE seen == IF k = r[t].key /\ v \in Pid THEN r[t].seen \cup {v}
                     ELSE r[t].seen
             stable == IF v \in Pid THEN r[t].stable ELSE r[t].stable \ {k}
             raced == r[t].raced \/ (b /\ k < r[t].key /\ InWindow(t))
  <2>1. r'[t] = [r[t] EXCEPT !.seen = seen, !.stable = stable, !.raced = raced]
    BY <1>3 DEF Observe
  <2>2. /\ r[t].seen \subseteq seen /\ stable \subseteq r[t].stable
        /\ r[t].raced => raced
        /\ k = r[t].key /\ v \in Pid => v \in seen
        /\ v \notin Pid => k \notin stable
        /\ b /\ k < r[t].key /\ InWindow(t) => raced
    OBVIOUS
  <2> HIDE DEF seen, stable, raced
  <2>3. /\ r'[t].seen = seen /\ r'[t].stable = stable /\ r'[t].raced = raced
        /\ r'[t].pc = r[t].pc /\ r'[t].x = r[t].x /\ r'[t].next = r[t].next
        /\ r'[t].op = r[t].op /\ r'[t].key = r[t].key /\ r'[t].res = r[t].res
        /\ r'[t].visited = r[t].visited /\ r'[t].hole = r[t].hole
    BY <1>1, <2>1 DEF ReaderType
  <2>4. QED
    BY <2>2, <2>3 DEF Stays
<1>4. QED
  BY <1>2, <1>3

(* The writer's steps between its stores.                                  *)
LEMMA QuietReads ==
  ASSUME Inv, Inv', ReadInv,
         \/ \E k \in Key, p \in InsertPids : pid_skiplist_insert(k, p)
         \/ \E k \in Key : pid_skiplist_remove(k)
         \/ DestroySync \/ SearchAdvance \/ SearchDescend \/ InsertRaise
         \/ InsertNoMemory \/ RemoveAbsent
  PROVE  ReadInv'
<1>1. UNCHANGED <<heapVars, rcuVars, linked, r>>
  BY DEF pid_skiplist_insert, pid_skiplist_remove, BeginWrite, DestroySync,
     SearchAdvance, SearchDescend, InsertRaise, InsertNoMemory, RemoveAbsent
<1>2. w.pc \in {"idle", "search", "alloc"}
  BY DEF pid_skiplist_insert, pid_skiplist_remove, BeginWrite, DestroySync,
     SearchAdvance, SearchDescend, InsertRaise, InsertNoMemory, RemoveAbsent,
     SearchDone
<1>3. w'.pc \in {"idle", "search", "alloc", "sync"}
  <2>1. CASE InsertNoMemory \/ RemoveAbsent
    BY <2>1 DEF InsertNoMemory, RemoveAbsent, IdleWriter
  <2>6. CASE DestroySync
    BY <2>6 DEF DestroySync, IdleWriter
  <2>5. ASSUME NEW k, NEW p, NEW o, BeginWrite(o, k, p) PROVE w'.pc = "search"
    BY <2>5 DEF BeginWrite, IdleWriter
  <2>2. CASE SearchAdvance \/ SearchDescend
    BY <2>2 DEF SearchAdvance, SearchDescend, Inv, TypeOK, WriterType
  <2>3. CASE InsertRaise
    BY <2>3 DEF InsertRaise, Inv, TypeOK, WriterType
  <2>4. QED
    BY <2>1, <2>2, <2>3, <2>5, <2>6 DEF pid_skiplist_insert, pid_skiplist_remove
<1>4. Private = {} /\ Private' = {} /\ UnlinkedInv'
  BY <1>2, <1>3 DEF Private, UnlinkedInv
<1>5. QED
  BY <1>1, <1>4, LocalReads

(* The node remove has found points to its successor.                      *)
LEMMA FoundReads ==
  ASSUME Inv, Inv', ReadInv, RemoveFound PROVE ReadInv'
<1>1. UNCHANGED <<heapVars, rcuVars, linked, r>> /\ w.pc = "search"
  BY DEF RemoveFound, SearchDone
<1>2. w'.pc = "unlink" /\ w'.i = 0
  BY DEF RemoveFound, Inv, TypeOK, WriterType
<1>3. Private = {} /\ Private' = {}
  BY <1>1, <1>2 DEF Private
<1>0. PICK x : x = w'.x
  OBVIOUS
<1>4. /\ x \in allocated' \ dying'
      /\ \A j \in Lvl : x \in linked'[j] <=> 0 <= j /\ j < height'[x]
  BY <1>0, <1>2 DEF Inv, WriterInv
<1>5. x \in linked'[0]
  <2>1. Candidate \in linked[0] /\ w'.x = Candidate
    BY AtCandidate DEF RemoveFound, Found, Inv, TypeOK, WriterType
  <2>2. QED
    BY <1>0, <1>1, <2>1
<1>6. Upward(x)'
  <2> SUFFICES ASSUME NEW i \in Lvl, forward'[x][i] # NULL
               PROVE  forward'[x][i] \notin Private' /\ key'[x] < key'[forward'[x][i]]
    BY DEF Upward
  <2>1. height'[x] \in Int /\ i \in Int /\ i >= 0
    BY <1>4, Bounds, Pointers DEF Inv, TypeOK
  <2>2. ~(height'[x] <= i)
    BY <1>4 DEF Inv, HeapInv
  <2>3. x \in linked'[i]
    BY <1>4, <2>1, <2>2
  <2>4. IsSuccessor(x, i, forward[x][i])'
    BY <1>2, <2>3 DEF Inv, ChainOK
  <2>5. QED
    BY <1>3, <2>4 DEF IsSuccessor
<1>7. IsSuccessor(x, 0, forward[x][0])'
  BY <1>2, <1>5, Bounds DEF Inv, ChainOK
<1>8. \A o \in linked'[0] : key'[o] = key'[x] => o = x
  BY <1>5, Bounds DEF Inv, LevelInv
<1>9. UnlinkedInv'
  BY <1>0, <1>6, <1>7, <1>8 DEF UnlinkedInv
<1>10. QED
  BY <1>1, <1>3, <1>9, LocalReads

(* Dropping empty levels moves nothing.                                    *)
LEMMA ShrinkReads ==
  ASSUME Inv, Inv', ReadInv, RemoveShrink PROVE ReadInv'
<1>1. UNCHANGED <<heapVars, rcuVars, linked, r>> /\ w.pc = "unlink"
  BY DEF RemoveShrink
<1>2. w'.pc = "call_rcu" /\ w'.x = w.x
  BY DEF RemoveShrink, Inv, TypeOK, WriterType
<1>3. Private = {} /\ Private' = {}
  BY <1>1, <1>2 DEF Private
<1>4. UnlinkedInv'
  BY <1>1, <1>2, <1>3
     DEF ReadInv, UnlinkedInv, Upward, IsSuccessor, heapVars, rcuVars
<1>5. QED
  BY <1>1, <1>3, <1>4, LocalReads

(* A pointer that is replaced has been seen, and a number that gets a NULL *)
(* is not bound throughout any section.                                    *)
LEMMA ReplaceReads ==
  ASSUME Inv, Inv', ReadInv, InsertReplace PROVE ReadInv'
<1>1. UNCHANGED <<level, key, height, forward, allocated, dying, gp, linked>>
  BY DEF InsertReplace, rcuVars
<1>2. /\ w.pc = "search" /\ w.key \in Key /\ w.pid \in Value /\ w'.pc = "idle"
      /\ Candidate \in linked[0] /\ key[Candidate] = w.key /\ Candidate \in Cell
  BY WriterFields, AtCandidate, Bounds, CellKeys
     DEF InsertReplace, SearchDone, Found, Inv, WriterInv, IdleWriter
<1>3. Private = {} /\ Private' = {} /\ UnlinkedInv'
  BY <1>2 DEF Private, UnlinkedInv
<1>4. pid'[Candidate] = w.pid /\ \A c \in Cell : c # Candidate => pid'[c] = pid[c]
  BY <1>2 DEF InsertReplace, Inv, TypeOK
<1>5. Observe(w.key, w.pid, FALSE)
  BY DEF InsertReplace
<1>6. ASSUME NEW t \in Reader
      PROVE  /\ Stays(t)
             /\ r[t].pc # "idle" =>
                  /\ w.key = r[t].key /\ w.pid \in Pid => w.pid \in r'[t].seen
                  /\ w.pid \notin Pid => w.key \notin r'[t].stable
  BY <1>2, <1>5, Observed DEF Inv
<1>7. w.pid \in Pid \/ w.pid = NULL
  BY <1>2 DEF Value
<1>8. ASSUME NEW t \in Reader, r[t].pc # "idle" PROVE Keeps(t) /\ SameWindow(t)
  <2>1. SameWindow(t)
    BY <1>1 DEF SameWindow
  <2>2. Keeps(t)
    BY <1>1, <1>2, <1>3, <1>4, <1>6, <1>7, <1>8 DEF Keeps
  <2>3. QED
    BY <2>1, <2>2
<1>9. BoundInv'
  <2> SUFFICES ASSUME NEW t \in Active'
               PROVE  /\ \A k \in r'[t].stable :
                           \E m \in linked'[0] : key'[m] = k /\ pid'[m] \in Pid
                      /\ \A n \in linked'[0] :
                           key'[n] = r'[t].key => pid'[n] \in r'[t].seen \cup {NULL}
    BY DEF BoundInv
  <2>1. t \in Reader /\ r[t].pc # "idle" /\ t \in Active
    BY <1>6 DEF Active, Stays
  <2>2. ASSUME NEW k \in r'[t].stable
        PROVE  \E m \in linked'[0] : key'[m] = k /\ pid'[m] \in Pid
    <3>1. k \in r[t].stable
      BY <1>6, <2>1 DEF Stays
    <3>2. PICK m \in linked[0] : key[m] = k /\ pid[m] \in Pid
      BY <2>1, <3>1 DEF ReadInv, BoundInv
    <3>3. m \in Cell
      BY CellKeys, Bounds DEF Inv
    <3>4. m = Candidate => w.pid \in Pid
      BY <1>2, <1>6, <2>1, <2>2, <3>2
    <3>5. QED
      BY <1>1, <1>4, <3>2, <3>3, <3>4
  <2>3. ASSUME NEW n \in linked[0], key[n] = r[t].key
        PROVE  pid'[n] \in r'[t].seen \cup {NULL}
    <3>1. n \in Cell
      BY CellKeys, Bounds DEF Inv
    <3>2. CASE n = Candidate
      BY <1>2, <1>4, <1>6, <1>7, <2>1, <2>3, <3>2
    <3>3. CASE n # Candidate
      BY <1>4, <1>6, <2>1, <2>3, <3>1, <3>3 DEF ReadInv, BoundInv, Stays
    <3>4. QED
      BY <3>2, <3>3
  <2>4. QED
    BY <1>1, <1>6, <2>1, <2>2, <2>3 DEF Stays
<1>10. QED
  BY <1>1, <1>3, <1>6, <1>8, <1>9, WriterReads

(* No reader can stand on a cell that is just being handed out.            *)
LEMMA AllocReads ==
  ASSUME Inv, Inv', ReadInv, InsertAlloc PROVE ReadInv'
<1>1. UNCHANGED <<dying, gp, linked, r>> /\ w.pc = "alloc"
  BY DEF InsertAlloc, rcuVars
<1>2. PICK n \in Node \ allocated :
        /\ w'.pc = "link" /\ w'.x = n /\ w'.i = 0
        /\ \A c \in Cell : c # n => /\ key'[c] = key[c] /\ pid'[c] = pid[c]
                                    /\ forward'[c] = forward[c]
  BY DEF InsertAlloc, Inv, TypeOK, WriterType
<1>3. Private = {} /\ Private' = {n} /\ UnlinkedInv'
  BY <1>1, <1>2 DEF Private, UnlinkedInv
<1>4. n # Header /\ n \notin linked[0] /\ n \notin dying
  BY <1>2, Pointers, Bounds DEF Inv, HeapInv
<1>5. ASSUME NEW t \in Reader, r[t].pc # "idle"
      PROVE  Keeps(t) /\ SameWindow(t)
  <2>1. Keeps(t)
    BY <1>2, <1>3, <1>4 DEF Keeps, Protected
  <2>2. SameWindow(t)
    <3>1. ASSUME InWindow(t) PROVE forward'[r[t].x] = forward[r[t].x]
      <4>1. r[t].x \in Cell /\ Protected(t, r[t].x)
        BY <3>1, ReaderX DEF InWindow
      <4>2. QED
        BY <1>2, <1>4, <4>1 DEF Protected
    <3>2. QED
      BY <3>1 DEF SameWindow
  <2>3. QED
    BY <2>1, <2>2
<1>6. BoundInv'
  <2>1. \A m \in linked[0] : key'[m] = key[m] /\ pid'[m] = pid[m]
    BY <1>2, <1>4, CellKeys, Bounds DEF Inv
  <2>2. QED
    BY <1>1, <2>1 DEF ReadInv, BoundInv, Active
<1>7. \A m \in dying : forward'[m] = forward[m]
  BY <1>2, <1>4, CellKeys DEF Inv
<1>8. \A t \in Reader : Stays(t)
  BY <1>1 DEF Stays
<1>9. QED
  BY <1>1, <1>3, <1>5, <1>6, <1>7, <1>8, WriterReads

(* kfree() after the grace period touches no cell a reader can stand on.   *)
LEMMA RcuFreeReads ==
  ASSUME Inv, Inv', ReadInv, NEW n \in Node, pid_sl_node_rcu_free(n)
  PROVE  ReadInv'
<1>1. UNCHANGED <<gp, linked, w, r>> /\ n \in dying /\ gp[n] = {}
      /\ dying' = dying \ {n}
  BY DEF pid_sl_node_rcu_free
<1>2. \A c \in Cell : c # n => /\ key'[c] = key[c] /\ pid'[c] = pid[c]
                              /\ forward'[c] = forward[c]
  BY DEF pid_sl_node_rcu_free, Kfree, Inv, TypeOK
<1>3. /\ n # Header /\ \A i \in Lvl : n \notin linked[i]
      /\ w.pc \in {"unlink", "call_rcu"} => w.x # n
  BY <1>1, Pointers DEF Inv, HeapInv, WriterInv
<1>4. Private' = Private
  BY <1>1 DEF Private
<1>5. ASSUME NEW t \in Reader, NEW c \in Cell, Protected(t, c) PROVE c # n
  BY <1>1, <1>3, <1>5 DEF Protected
<1>6. ASSUME NEW t \in Reader, r[t].pc # "idle"
      PROVE  Keeps(t) /\ SameWindow(t)
  <2>1. Keeps(t)
    BY <1>2, <1>4, <1>5 DEF Keeps
  <2>2. SameWindow(t)
    <3>1. ASSUME InWindow(t) PROVE forward'[r[t].x] = forward[r[t].x]
      BY <1>2, <1>5, <3>1, ReaderX DEF InWindow
    <3>2. QED
      BY <3>1 DEF SameWindow
  <2>3. QED
    BY <2>1, <2>2
<1>7. \A m \in linked[0] : key'[m] = key[m] /\ pid'[m] = pid[m] /\ m \in Cell
  BY <1>2, <1>3, CellKeys, Bounds DEF Inv
<1>8. BoundInv'
  BY <1>1, <1>7 DEF ReadInv, BoundInv, Active
<1>9. \A m \in dying' : forward'[m] = forward[m]
  BY <1>1, <1>2, CellKeys DEF Inv
<1>10. \A t \in Reader : Stays(t)
  BY <1>1 DEF Stays
<1>11. UnlinkedInv'
  <2> SUFFICES ASSUME w.pc \in {"unlink", "call_rcu"} PROVE UnlinkedInv'
    BY <1>1 DEF UnlinkedInv
  <2>1. PICK x \in Cell : x = w.x /\ x \in allocated \ dying /\ x # n
    BY <1>3, Pointers DEF Inv, WriterInv, TypeOK
  <2>2. forward'[x] = forward[x] /\ key'[x] = key[x]
    BY <1>2, <2>1
  <2>3. ASSUME NEW i \in Lvl, forward[x][i] # NULL
        PROVE  key'[forward[x][i]] = key[forward[x][i]]
    <3>1. forward[x][i] \in Cell /\ forward[x][i] # n
      BY <1>1, <2>1, <2>3, CellKeys, Pointers DEF Inv, RcuInv
    <3>2. QED
      BY <1>2, <3>1
  <2>4. Upward(x) /\ IsSuccessor(x, 0, forward[x][0])
        /\ \A o \in linked[0] : key[o] = key[x] => o = x
    BY <2>1 DEF ReadInv, UnlinkedInv
  <2>5. Upward(x)'
    BY <1>4, <2>2, <2>3, <2>4 DEF Upward
  <2>6. IsSuccessor(x, 0, forward[x][0])'
    BY <1>1, <1>7, <2>2, <2>3, <2>4, Bounds DEF IsSuccessor
  <2>7. QED
    BY <1>1, <1>7, <2>1, <2>2, <2>4, <2>5, <2>6 DEF UnlinkedInv
<1>12. QED
  BY <1>1, <1>6, <1>8, <1>9, <1>10, <1>11, WriterReads

(* A node that is linked is ahead of the readers below it.  One that comes *)
(* in between the two loads of a reader either has a number that reader    *)
(* does not search for, above it, or races it.                             *)
LEMMA LinkReads ==
  ASSUME Inv, Inv', ReadInv, InsertLink PROVE ReadInv'
<1>1. UNCHANGED <<level, key, pid, height, allocated, dying, gp>>
  BY DEF InsertLink, rcuVars
<1>2. PICK x, i, u : x = w.x /\ i = w.i /\ u = w.update[w.i]
  OBVIOUS
<1>3. /\ w.pc = "link" /\ w.key \in Key /\ w.pid \in Value
      /\ x \in allocated \ dying /\ x \in Cell /\ key[x] = w.key /\ pid[x] = w.pid
      /\ i \in Lvl /\ i \in Int /\ i >= 0
      /\ IsPredecessor(u, i)
  <2>1. /\ w.pc = "link" /\ w.key \in Key
        /\ x \in allocated \ dying /\ key[x] = w.key /\ pid[x] = w.pid
        /\ i >= 0 /\ i < w.lvl
        /\ \A j \in Lvl : i <= j /\ j < w.lvl => IsPredecessor(w.update[j], j)
    BY <1>2 DEF InsertLink, Inv, WriterInv
  <2>2. i \in Lvl /\ i \in Int /\ w.pid \in Value
    BY <1>2, <2>1, WriterFields, IndexSteps, Bounds DEF Inv
  <2>3. x \in Cell
    BY <2>1, Pointers DEF Inv, TypeOK
  <2>4. QED
    BY <1>2, <2>1, <2>2, <2>3
<1>4. u \in linked[i] \cup {Header} /\ u \in Cell /\ u \notin dying
  BY <1>3, CellKeys, Pointers DEF IsPredecessor, Inv, HeapInv, TypeOK
<1>5. /\ forward'[u][i] = x
      /\ \A c \in Cell, j \in Lvl :
           ((c = x \/ c = u) /\ j = i) \/ forward'[c][j] = forward[c][j]
      /\ \A c \in Cell : c # x /\ c # u => forward'[c] = forward[c]
  <2>1. forward' = [forward EXCEPT ![x][i] = forward[u][i], ![u][i] = x]
    BY <1>2 DEF InsertLink
  <2>2. forward \in [Cell -> [Lvl -> Ptr]]
    BY DEF Inv, TypeOK
  <2>3. QED
    BY <2>1, <2>2, <1>3, <1>4
<1>6. w'.pc \in {"idle", "link"} /\ (w'.pc = "link" => w'.i = i + 1)
  BY <1>2, <1>3 DEF InsertLink, IdleWriter, Inv, TypeOK, WriterType
<1>7. Private' = {} /\ UnlinkedInv' /\ (i = 0 => Private = {x})
  BY <1>2, <1>3, <1>6 DEF Private, UnlinkedInv
<1>8. i = 0 => Observe(w.key, w.pid, TRUE)
  BY <1>2 DEF InsertLink
<1>9. i # 0 => r' = r
  BY <1>2 DEF InsertLink
<1>10. ASSUME NEW t \in Reader
       PROVE  /\ Stays(t)
              /\ r[t].pc # "idle" /\ i = 0 =>
                   /\ w.key = r[t].key /\ w.pid \in Pid => w.pid \in r'[t].seen
                   /\ w.pid \notin Pid => w.key \notin r'[t].stable
                   /\ w.key < r[t].key /\ InWindow(t) => r'[t].raced
  <2>1. CASE i = 0
    BY <1>3, <1>8, <2>1, Observed DEF Inv
  <2>2. CASE i # 0
    BY <1>9, <2>2 DEF Stays
  <2>3. QED
    BY <2>1, <2>2
<1>11. ASSUME NEW t \in Reader, r[t].pc # "idle" PROVE Keeps(t) /\ SameWindow(t)
  <2>1. Keeps(t)
    BY <1>1, <1>7 DEF Keeps
  <2>2. SameWindow(t)
    <3> SUFFICES ASSUME InWindow(t), ~r'[t].raced
                 PROVE  \/ forward'[r[t].x][0] = forward[r[t].x][0]
                        \/ key'[forward'[r[t].x][0]] >= r[t].key
      BY DEF SameWindow
    <3>1. r[t].x \in Cell /\ r[t].x \notin Private
      BY ReaderX DEF InWindow, ReadInv, WalkInv
    <3>2. CASE i = 0 /\ r[t].x = u
      <4>1. ~(w.key < r[t].key) /\ r[t].key \in Int /\ w.key \in Int
        BY <1>3, <1>10, <1>11, <3>2, HistoryFields, KeyAssumption DEF Inv
      <4>2. forward'[r[t].x][0] = x /\ key'[x] = w.key
        BY <1>1, <1>3, <1>5, <3>2
      <4>3. QED
        BY <4>1, <4>2
    <3>3. CASE ~(i = 0 /\ r[t].x = u)
      BY <1>5, <1>7, <3>1, <3>3, Bounds
    <3>4. QED
      BY <3>2, <3>3
  <2>3. QED
    BY <2>1, <2>2
<1>12. linked'[0] = IF i = 0 THEN linked[0] \cup {x} ELSE linked[0]
  BY <1>2, <1>3, Bounds DEF InsertLink, Inv, TypeOK
<1>13. BoundInv'
  <2> SUFFICES ASSUME NEW t \in Active'
               PROVE  /\ \A k \in r'[t].stable :
                           \E m \in linked'[0] : key'[m] = k /\ pid'[m] \in Pid
                      /\ \A n \in linked'[0] :
                           key'[n] = r'[t].key => pid'[n] \in r'[t].seen \cup {NULL}
    BY DEF BoundInv
  <2>1. t \in Reader /\ r[t].pc # "idle" /\ t \in Active
    BY <1>10 DEF Active, Stays
  <2>2. ASSUME NEW k \in r'[t].stable
        PROVE  \E m \in linked'[0] : key'[m] = k /\ pid'[m] \in Pid
    <3>1. k \in r[t].stable
      BY <1>10, <2>1 DEF Stays
    <3>2. PICK m \in linked[0] : key[m] = k /\ pid[m] \in Pid
      BY <2>1, <3>1 DEF ReadInv, BoundInv
    <3>3. QED
      BY <1>1, <1>12, <3>2
  <2>3. ASSUME NEW n \in linked'[0], key[n] = r[t].key
        PROVE  pid[n] \in r'[t].seen \cup {NULL}
    <3>1. CASE n \in linked[0]
      BY <1>10, <2>1, <2>3, <3>1 DEF ReadInv, BoundInv, Stays
    <3>2. CASE n \notin linked[0]
      <4>1. n = x /\ i = 0
        BY <1>12, <3>2
      <4>2. QED
        BY <1>3, <1>10, <2>1, <2>3, <4>1 DEF Value
    <3>3. QED
      BY <3>1, <3>2
  <2>4. QED
    BY <1>1, <1>10, <2>1, <2>2, <2>3 DEF Stays
<1>14. \A m \in dying : forward'[m] = forward[m]
  BY <1>3, <1>4, <1>5, CellKeys DEF Inv
<1>15. QED
  BY <1>1, <1>7, <1>10, <1>11, <1>13, <1>14, WriterReads

(* A node that is unlinked takes its number out of every reader's stable   *)
(* set, and leaves the readers before it with the node behind it.          *)
LEMMA UnlinkReads ==
  ASSUME Inv, Inv', ReadInv, RemoveUnlink PROVE ReadInv'
<1>1. UNCHANGED <<level, key, pid, height, allocated, dying, gp>>
  BY DEF RemoveUnlink, rcuVars
<1>2. PICK x, i, u : x = w.x /\ i = w.i /\ u = w.update[w.i]
  OBVIOUS
<1>3. /\ w.pc = "unlink" /\ x \in allocated \ dying /\ x \in Cell /\ x \in Node
      /\ key[x] = w.key /\ w.key \in Key
      /\ i \in Lvl /\ i < level /\ IsPredecessor(u, i) /\ forward[u][i] = x
  <2>1. /\ w.pc = "unlink" /\ x \in allocated \ dying /\ key[x] = w.key
        /\ i >= 0 /\ i < level /\ forward[u][i] = x
        /\ \A j \in Lvl : i <= j /\ j < level => IsPredecessor(w.update[j], j)
    BY <1>2 DEF RemoveUnlink, Unlinking, Inv, WriterInv
  <2>2. i \in Lvl /\ i \in Int
    BY <1>2, <2>1, WriterFields, IndexSteps, Bounds DEF Inv, TypeOK
  <2>3. x \in Node /\ key[x] \in Key
    BY <2>1 DEF Inv, TypeOK, HeapInv
  <2>4. QED
    BY <1>2, <2>1, <2>2, <2>3, Pointers
<1>4. u \in linked[i] \cup {Header} /\ u \in Cell /\ u \notin dying /\ u # x
  <2>1. u \in linked[i] \cup {Header} /\ key[u] < w.key
    BY <1>3 DEF IsPredecessor
  <2>2. u \in Cell /\ u \notin dying
    BY <1>3, <2>1, CellKeys, Pointers DEF Inv, HeapInv, TypeOK
  <2>3. w.key \in Key /\ key[x] = w.key
    BY <1>3
  <2>4. w.key \in Int
    BY <2>3, KeyAssumption
  <2>5. u # x
    BY <2>1, <2>3, <2>4
  <2>6. QED
    BY <2>1, <2>2, <2>5
<1>5. /\ forward'[u][i] = forward[x][i]
      /\ \A c \in Cell, j \in Lvl :
           (c = u /\ j = i) \/ forward'[c][j] = forward[c][j]
      /\ \A c \in Cell : c # u => forward'[c] = forward[c]
  <2>1. forward' = [forward EXCEPT ![u][i] = forward[x][i]]
    BY <1>2 DEF RemoveUnlink
  <2>2. forward \in [Cell -> [Lvl -> Ptr]]
    BY DEF Inv, TypeOK
  <2>3. QED
    BY <2>1, <2>2, <1>3, <1>4
<1>6. w'.pc = "unlink" /\ w'.x = x
  BY <1>2, <1>3 DEF RemoveUnlink, Inv, TypeOK, WriterType
<1>7. Private = {} /\ Private' = {}
  BY <1>3, <1>6 DEF Private
<1>8. linked'[0] = IF i = 0 THEN linked[0] \ {x} ELSE linked[0]
  BY <1>2, <1>3, Bounds DEF RemoveUnlink, Inv, TypeOK
<1>9. /\ Upward(x) /\ IsSuccessor(x, 0, forward[x][0])
      /\ \A o \in linked[0] : key[o] = key[x] => o = x
  BY <1>2, <1>3 DEF ReadInv, UnlinkedInv
<1>10. UnlinkedInv'
  <2>1. forward'[x] = forward[x] /\ key'[x] = key[x]
    BY <1>1, <1>3, <1>4, <1>5
  <2>2. Upward(x)'
    BY <1>1, <1>7, <1>9, <2>1 DEF Upward
  <2>3. key[x] \in Int
    BY <1>3, KeyAssumption
  <2>4. IsSuccessor(x, 0, forward[x][0])'
    BY <1>1, <1>8, <1>9, <2>1, <2>3 DEF IsSuccessor
  <2>5. \A o \in linked'[0] : key'[o] = key'[x] => o = x
    BY <1>1, <1>8, <1>9
  <2>6. QED
    BY <1>6, <2>2, <2>4, <2>5 DEF UnlinkedInv
<1>11. i = 0 => Observe(w.key, NULL, FALSE)
  BY <1>2 DEF RemoveUnlink
<1>12. i # 0 => r' = r
  BY <1>2 DEF RemoveUnlink
<1>13. ASSUME NEW t \in Reader
       PROVE  /\ Stays(t)
              /\ r[t].pc # "idle" /\ i = 0 => w.key \notin r'[t].stable
  <2>1. CASE i = 0
    BY <1>3, <1>11, <2>1, Observed, Pointers, CellAssumption DEF Inv
  <2>2. CASE i # 0
    BY <1>12, <2>2 DEF Stays
  <2>3. QED
    BY <2>1, <2>2
<1>14. ASSUME NEW t \in Reader, r[t].pc # "idle" PROVE Keeps(t) /\ SameWindow(t)
  <2>1. Keeps(t)
    BY <1>1, <1>7 DEF Keeps
  <2>2. SameWindow(t)
    <3> SUFFICES ASSUME InWindow(t), ~r'[t].raced, forward'[r[t].x][0] # NULL
                 PROVE  \/ forward'[r[t].x][0] = forward[r[t].x][0]
                        \/ key'[forward'[r[t].x][0]] >= r[t].key
      BY DEF SameWindow
    <3>1. r[t].x \in Cell /\ r[t].pc = "last" /\ ~r[t].raced
      BY <1>13, ReaderX DEF InWindow, Stays
    <3>2. CASE i = 0 /\ r[t].x = u
      <4>1. key[x] >= r[t].key
        BY <1>3, <3>1, <3>2, Pointers DEF ReadInv, WalkInv
      <4>2. forward'[r[t].x][0] = forward[x][0]
        BY <1>5, <3>2
      <4>3. key[x] < key[forward[x][0]]
        BY <1>9, <4>2, Bounds DEF Upward
      <4>4. /\ key[x] \in Int /\ r[t].key \in Int
            /\ key[forward[x][0]] \in Int
        BY <1>3, <4>2, CellKeys, HistoryFields, Pointers, Bounds DEF Inv
      <4>5. QED
        BY <1>1, <4>1, <4>2, <4>3, <4>4
    <3>3. CASE ~(i = 0 /\ r[t].x = u)
      BY <1>5, <3>1, <3>3, Bounds
    <3>4. QED
      BY <3>2, <3>3
  <2>3. QED
    BY <2>1, <2>2
<1>15. BoundInv'
  <2> SUFFICES ASSUME NEW t \in Active'
               PROVE  /\ \A k \in r'[t].stable :
                           \E m \in linked'[0] : key'[m] = k /\ pid'[m] \in Pid
                      /\ \A n \in linked'[0] :
                           key'[n] = r'[t].key => pid'[n] \in r'[t].seen \cup {NULL}
    BY DEF BoundInv
  <2>1. t \in Reader /\ r[t].pc # "idle" /\ t \in Active
    BY <1>13 DEF Active, Stays
  <2>2. ASSUME NEW k \in r'[t].stable
        PROVE  \E m \in linked'[0] : key'[m] = k /\ pid'[m] \in Pid
    <3>1. k \in r[t].stable
      BY <1>13, <2>1 DEF Stays
    <3>2. PICK m \in linked[0] : key[m] = k /\ pid[m] \in Pid
      BY <2>1, <3>1 DEF ReadInv, BoundInv
    <3>3. i = 0 => m # x
      BY <1>3, <1>13, <2>1, <2>2, <3>2
    <3>4. QED
      BY <1>1, <1>8, <3>2, <3>3
  <2>3. \A n \in linked'[0] : n \in linked[0]
    BY <1>8
  <2>4. QED
    BY <1>1, <1>13, <2>1, <2>2, <2>3 DEF ReadInv, BoundInv, Stays
<1>16. \A m \in dying : forward'[m] = forward[m]
  BY <1>4, <1>5, CellKeys DEF Inv
<1>17. QED
  BY <1>1, <1>10, <1>13, <1>14, <1>15, <1>16, WriterReads

(* call_rcu(): the node queued still leads every active reader to all that *)
(* was there throughout its section.                                       *)
LEMMA CallRcuReads ==
  ASSUME Inv, Inv', ReadInv, RemoveCallRcu PROVE ReadInv'
<1>1. UNCHANGED <<key, pid, height, forward, allocated, linked, r>>
  BY DEF RemoveCallRcu, heapVars
<1>2. PICK x : x = w.x
  OBVIOUS
<1>3. /\ w.pc = "call_rcu" /\ x \in allocated \ dying /\ x \in Node
      /\ x \in Cell /\ x \notin linked[0]
  BY <1>2, Pointers, Bounds DEF RemoveCallRcu, Inv, WriterInv, TypeOK
<1>4. /\ dying' = dying \cup {x} /\ gp'[x] = Active
      /\ \A n \in Node : n # x => gp'[n] = gp[n]
  BY <1>2, <1>3 DEF RemoveCallRcu, Inv, TypeOK
<1>5. w'.pc = "idle"
  BY DEF RemoveCallRcu, IdleWriter
<1>6. Private = {} /\ Private' = {} /\ UnlinkedInv'
  BY <1>3, <1>5 DEF Private, UnlinkedInv
<1>7. BoundInv'
  BY <1>1 DEF ReadInv, BoundInv, Active
<1>8. \A t \in Reader : WalkInv(t)' /\ EvalInv(t)' /\ DoneInv(t)'
  BY <1>1, <1>6 DEF ReadInv, WalkInv, EvalInv, DoneInv, InWindow
<1>9. ASSUME NEW n \in dying', NEW t \in gp'[n]
      PROVE  Upward(n) /\ key[n] \notin r[t].stable /\ Leads(t, n)
  <2>1. CASE n = x
    <3>1. t \in Reader /\ r[t].pc # "idle" /\ t \in Active
      BY <1>4, <1>9, <2>1 DEF Active
    <3>2. Protected(t, x)
      BY <1>3 DEF Protected
    <3>3. Upward(x) /\ Leads(t, x)
      BY <1>3, <1>6, <3>1, <3>2, Ahead
    <3>4. ASSUME key[x] \in r[t].stable PROVE FALSE
      <4>1. PICK m \in linked[0] : key[m] = key[x]
        BY <3>1, <3>4 DEF ReadInv, BoundInv
      <4>2. m = x
        BY <1>2, <1>3, <4>1 DEF ReadInv, UnlinkedInv
      <4>3. QED
        BY <1>3, <4>2
    <3>5. QED
      BY <2>1, <3>3, <3>4
  <2>2. CASE n # x
    <3>1. n \in dying /\ t \in gp[n]
      BY <1>4, <1>9, <2>2 DEF Inv, TypeOK
    <3>2. QED
      BY <3>1 DEF ReadInv, RemovedInv
  <2>3. QED
    BY <2>1, <2>2
<1>10. RemovedInv'
  BY <1>1, <1>6, <1>9 DEF RemovedInv, Upward, Leads
<1>11. QED
  BY <1>6, <1>7, <1>8, <1>10 DEF ReadInv

-----------------------------------------------------------------------------
(* Steps of a reader.                                                      *)

(* A step of reader t, whose locals become l, keeps ReadInv if its own     *)
(* part holds of l: the others and the list are not touched.               *)
LEMMA ReaderReads ==
  ASSUME Inv, Inv', ReadInv, NEW t \in Reader, NEW l \in ReaderType, Moves(t, l),
         l.pc # "idle",
         r[t].pc # "idle" =>
           l.key = r[t].key /\ l.stable = r[t].stable /\ l.seen = r[t].seen,
         r[t].pc = "idle" =>
           /\ \A k \in l.stable : \E m \in linked[0] : key[m] = k /\ pid[m] \in Pid
           /\ \A n \in linked[0] : key[n] = l.key => pid[n] \in l.seen \cup {NULL},
         WalkInv(t)', EvalInv(t)', DoneInv(t)'
  PROVE  ReadInv'
<1>1. UNCHANGED <<level, key, pid, height, forward, allocated, dying, gp, linked, w>>
  BY DEF Moves, heapVars, rcuVars
<1>2. r'[t] = l /\ \A u \in Reader : u # t => r'[u] = r[u]
  BY DEF Moves, Inv, TypeOK
<1>3. Private' = Private
  BY <1>1 DEF Private
<1>4. BoundInv'
  <2> SUFFICES ASSUME NEW u \in Active'
               PROVE  /\ \A k \in r'[u].stable :
                           \E m \in linked[0] : key[m] = k /\ pid[m] \in Pid
                      /\ \A n \in linked[0] :
                           key[n] = r'[u].key => pid[n] \in r'[u].seen \cup {NULL}
    BY <1>1 DEF BoundInv
  <2>1. u \in Reader
    BY DEF Active
  <2>2. CASE u \in Active
    BY <1>2, <2>1, <2>2 DEF ReadInv, BoundInv, Active
  <2>3. CASE u \notin Active
    <3>1. u = t
      BY <1>2, <2>1, <2>3 DEF Active
    <3>2. QED
      BY <1>2, <2>3, <3>1 DEF Active
  <2>4. QED
    BY <2>2, <2>3
<1>5. UnlinkedInv'
  BY <1>1, <1>3 DEF ReadInv, UnlinkedInv, Upward, IsSuccessor
<1>6. RemovedInv'
  <2>1. \A n \in dying : \A u \in gp[n] :
          /\ u \in Reader
          /\ r'[u].key = r[u].key /\ r'[u].stable = r[u].stable
          /\ r'[u].seen = r[u].seen
    BY <1>2 DEF Inv, RcuInv, Active, TypeOK
  <2>2. QED
    BY <1>1, <1>3, <2>1 DEF ReadInv, RemovedInv, Upward, Leads
<1>7. ASSUME NEW u \in Reader PROVE WalkInv(u)' /\ EvalInv(u)' /\ DoneInv(u)'
  <2>1. CASE u # t
    BY <1>1, <1>2, <1>3, <2>1 DEF ReadInv, WalkInv, EvalInv, DoneInv, InWindow
  <2>2. QED
    BY <2>1
<1>8. QED
  BY <1>4, <1>5, <1>6, <1>7 DEF ReadInv

(* A reader that enters knows what is bound at that moment, and starts     *)
(* below it.                                                               *)
LEMMA BeginReads ==
  ASSUME Inv, Inv', ReadInv, NEW t \in Reader, NEW c \in ReadCalls,
         ReadBegin(t, c[1], c[2])
  PROVE  ReadInv'
<1>1. c[2] \in Key /\ c[2] \in Int /\ INT_MIN < c[2]
  BY CallAssumption, KeyAssumption
<1>2. PICK l : l = [IdleReader EXCEPT !.pc = "walk", !.op = c[1], !.key = c[2],
                                      !.x = Header, !.i = level - 1,
                                      !.seen = {Map[c[2]]} \cap Pid,
                                      !.stable = {j \in Key : Map[j] \in Pid}]
  OBVIOUS
<1>3. /\ l.pc = "walk" /\ l.key = c[2] /\ l.x = Header /\ l.visited = {}
      /\ l.seen = {Map[c[2]]} \cap Pid
      /\ l.stable = {j \in Key : Map[j] \in Pid}
  BY <1>2 DEF IdleReader
<1>4. Moves(t, l) /\ r[t].pc = "idle"
  BY <1>2 DEF ReadBegin
<1>5. r'[t] = l /\ l \in ReaderType /\ w' = w /\ key' = key
  BY <1>4 DEF Moves, heapVars, Inv, TypeOK
<1>6. Bindings
  BY MapAt
<1>7. ASSUME NEW k \in l.stable PROVE \E m \in linked[0] : key[m] = k /\ pid[m] \in Pid
  <2>1. k \in Key /\ Map[k] \in Pid
    BY <1>3, <1>7
  <2>2. Map[k] # ABSENT
    BY <2>1, CellAssumption
  <2>3. PICK m \in linked[0] : key[m] = k
    BY <1>6, <2>1, <2>2 DEF Bindings
  <2>4. QED
    BY <1>6, <2>1, <2>3 DEF Bindings
<1>8. ASSUME NEW n \in linked[0], key[n] = l.key PROVE pid[n] \in l.seen \cup {NULL}
  <2>1. Map[c[2]] = pid[n]
    BY <1>3, <1>6, <1>8 DEF Bindings
  <2>2. pid[n] \in Pid \cup {NULL}
    BY CellKeys, Bounds DEF Inv, Value
  <2>3. QED
    BY <1>3, <2>1, <2>2
<1>9. WalkInv(t)'
  <2>1. key[Header] = INT_MIN /\ INT_MIN \in Int /\ Header \notin Private'
    BY <1>5, Pointers, KeyAssumption DEF Inv, HeapInv, WriterInv, Private, TypeOK
  <2>2. \A k \in l.stable : INT_MIN < k
    BY <1>3, KeyAssumption
  <2>3. ~InWindow(t)'
    BY <1>3, <1>5 DEF InWindow
  <2>4. QED
    BY <1>1, <1>3, <1>5, <2>1, <2>2, <2>3 DEF WalkInv
<1>10. EvalInv(t)' /\ DoneInv(t)'
  BY <1>3, <1>5 DEF EvalInv, DoneInv
<1>11. QED
  BY <1>3, <1>4, <1>5, <1>7, <1>8, <1>9, <1>10, ReaderReads

(* The cell a walking reader loads is ahead of it, and not private.        *)
LEMMA LoadedAhead ==
  ASSUME Inv, ReadInv, NEW t \in Reader, r[t].pc \in {"walk", "last"}
  PROVE  /\ r[t].x \in Cell /\ r[t].i \in Lvl /\ key[r[t].x] \in Int
         /\ Leads(t, r[t].x)
         /\ Loaded(t) # NULL => /\ Loaded(t) \in Cell /\ Loaded(t) \notin Private
                                /\ key[Loaded(t)] \in Int
                                /\ key[r[t].x] < key[Loaded(t)]
<1>1. /\ r[t].x \in Cell /\ Protected(t, r[t].x) /\ r[t].i \in Lvl
      /\ Loaded(t) \in Ptr /\ r[t].x \notin Private
  BY ReaderX DEF ReadInv, WalkInv
<1>2. Upward(r[t].x) /\ Leads(t, r[t].x)
  BY <1>1, Ahead
<1>3. key[r[t].x] \in Int /\ (Loaded(t) # NULL => Loaded(t) \in Cell)
  BY <1>1, CellKeys, Pointers DEF Inv
<1>4. Loaded(t) # NULL => key[Loaded(t)] \in Int
  BY <1>3, CellKeys DEF Inv
<1>5. Loaded(t) # NULL => Loaded(t) \notin Private /\ key[r[t].x] < key[Loaded(t)]
  BY <1>1, <1>2 DEF Upward, Loaded
<1>6. QED
  BY <1>1, <1>2, <1>3, <1>4, <1>5

(* x = next in the descent stays below the number searched for.            *)
LEMMA AdvanceReads ==
  ASSUME Inv, Inv', ReadInv, NEW t \in Reader, ReadAdvance(t) PROVE ReadInv'
<1>1. /\ r[t].pc = "walk" /\ Loaded(t) # NULL /\ key[Loaded(t)] < r[t].key
      /\ r[t] \in ReaderType
  BY ReaderFields DEF ReadAdvance, Before, Inv
<1>2. PICK l : l = [r[t] EXCEPT !.x = Loaded(t)]
  OBVIOUS
<1>3. /\ l.pc = "walk" /\ l.x = Loaded(t) /\ l.key = r[t].key
      /\ l.visited = r[t].visited /\ l.stable = r[t].stable /\ l.seen = r[t].seen
  BY <1>1, <1>2 DEF ReaderType
<1>4. Moves(t, l)
  BY <1>2 DEF ReadAdvance
<1>5. r'[t] = l /\ l \in ReaderType /\ w' = w /\ key' = key
  BY <1>4 DEF Moves, heapVars, Inv, TypeOK
<1>6. WalkInv(t)'
  <2>1. l.visited = {}
    BY <1>1, <1>3 DEF ReadInv, WalkInv
  <2>2. Loaded(t) \notin Private' /\ key[Loaded(t)] \in Int
    BY <1>1, <1>5, LoadedAhead DEF Private
  <2>3. \A k \in l.stable : k >= l.key => key[Loaded(t)] < k
    BY <1>1, <1>3, <2>2, HistoryFields DEF Inv
  <2>4. ~InWindow(t)'
    BY <1>3, <1>5 DEF InWindow
  <2>5. QED
    BY <1>1, <1>3, <1>5, <2>1, <2>2, <2>3, <2>4 DEF WalkInv
<1>7. EvalInv(t)' /\ DoneInv(t)'
  BY <1>3, <1>5 DEF EvalInv, DoneInv
<1>8. QED
  BY <1>1, <1>3, <1>4, <1>5, <1>6, <1>7, ReaderReads

(* The load that ends the descent opens the window.                        *)
LEMMA DescendReads ==
  ASSUME Inv, Inv', ReadInv, NEW t \in Reader, ReadDescend(t) PROVE ReadInv'
<1>1. r[t].pc = "walk" /\ ~Before(t) /\ r[t] \in ReaderType
  BY ReaderFields DEF ReadDescend, Inv
<1>2. PICK l : l = IF r[t].i > 0 THEN [r[t] EXCEPT !.i = @ - 1]
                                ELSE [r[t] EXCEPT !.pc = "last"]
  OBVIOUS
<1>3. /\ l.pc \in {"walk", "last"} /\ l.x = r[t].x /\ l.key = r[t].key
      /\ l.visited = r[t].visited /\ l.stable = r[t].stable /\ l.seen = r[t].seen
      /\ l.raced = r[t].raced /\ (l.pc = "last" => ~(r[t].i > 0))
  BY <1>1, <1>2 DEF ReaderType
<1>4. Moves(t, l)
  BY <1>2 DEF ReadDescend
<1>5. r'[t] = l /\ l \in ReaderType /\ w' = w /\ key' = key /\ forward' = forward
  BY <1>4 DEF Moves, heapVars, Inv, TypeOK
<1>6. WalkInv(t)'
  <2>1. l.visited = {} /\ key[l.x] < l.key /\ l.x \notin Private'
    BY <1>1, <1>3, <1>5 DEF ReadInv, WalkInv, Private
  <2>2. \A k \in l.stable : k >= l.key => key[l.x] < k
    BY <1>1, <1>3, <2>1 DEF ReadInv, WalkInv
  <2>3. ASSUME l.pc = "last", forward[l.x][0] # NULL
        PROVE  key[forward[l.x][0]] >= l.key
    <3>0. r[t].i \in Lvl /\ r[t].i \in Int /\ r[t].i >= 0
      BY ReaderFields, Bounds DEF Inv
    <3>1. r[t].i = 0
      BY <1>3, <2>3, <3>0
    <3>2. ~(key[forward[l.x][0]] < l.key) /\ key[forward[l.x][0]] \in Int
      BY <1>1, <1>3, <2>3, <3>1, LoadedAhead DEF Before, Loaded
    <3>3. l.key \in Int
      BY <1>3, HistoryFields DEF Inv
    <3>4. QED
      BY <3>2, <3>3
  <2>4. InWindow(t)' => l.pc = "last"
    BY <1>5 DEF InWindow
  <2>5. QED
    BY <1>3, <1>5, <2>1, <2>2, <2>3, <2>4 DEF WalkInv
<1>7. EvalInv(t)' /\ DoneInv(t)'
  BY <1>3, <1>5 DEF EvalInv, DoneInv
<1>8. QED
  BY <1>1, <1>3, <1>4, <1>5, <1>6, <1>7, ReaderReads

(* The second load of forward[0] gives the node the answer is taken from.  *)
LEMMA LastReads ==
  ASSUME Inv, Inv', ReadInv, NEW t \in Reader, ReadLast(t) PROVE ReadInv'
<1>1. r[t].pc = "last" /\ r[t] \in ReaderType /\ r[t].i = 0
  BY ReaderFields DEF ReadLast, Inv, ReaderInv
<1>2. PICK l : l = [r[t] EXCEPT !.next = Loaded(t), !.pc = "eval"]
  OBVIOUS
<1>3. /\ l.pc = "eval" /\ l.next = Loaded(t) /\ l.key = r[t].key /\ l.op = r[t].op
      /\ l.visited = r[t].visited /\ l.stable = r[t].stable /\ l.seen = r[t].seen
      /\ l.raced = r[t].raced
  BY <1>1, <1>2 DEF ReaderType
<1>4. Moves(t, l)
  BY <1>2 DEF ReadLast
<1>5. r'[t] = l /\ l \in ReaderType /\ w' = w /\ key' = key /\ pid' = pid
  BY <1>4 DEF Moves, heapVars, Inv, TypeOK
<1>6. EvalInv(t)'
  <2>0. PICK n : n = Loaded(t)
    OBVIOUS
  <2>1. n = forward[r[t].x][0]
    BY <1>1, <2>0 DEF Loaded
  <2>2. n \notin Private'
    <3>1. Private' = Private /\ NULL \notin Private
      BY <1>5, Pointers DEF Inv, WriterInv, Private, TypeOK
    <3>2. QED
      BY <1>1, <2>0, <3>1, LoadedAhead
  <2>3. l.visited # {} => l.op = "iter"
    BY <1>1, <1>3 DEF ReadInv, WalkInv
  <2>4. ASSUME NEW k \in l.stable, k >= l.key
        PROVE  k \in l.visited \/ (n # NULL /\ key[n] <= k)
    <3>1. k \in l.visited \/ key[r[t].x] < k
      BY <1>1, <1>3, <2>4 DEF ReadInv, WalkInv
    <3>2. QED
      BY <1>1, <1>3, <2>1, <2>4, <3>1, LoadedAhead DEF Leads
  <2>5. ASSUME n # NULL
        PROVE  /\ \A j \in l.visited : j < key[n]
               /\ l.visited = {} /\ ~l.raced => key[n] >= l.key
               /\ key[n] = l.key => pid[n] \in l.seen \cup {NULL}
    <3>1. key[r[t].x] < key[n] /\ key[r[t].x] \in Int /\ key[n] \in Int
      BY <1>1, <2>0, <2>5, LoadedAhead
    <3>2. \A j \in l.visited : j <= key[r[t].x] /\ j \in Int
      BY <1>1, <1>3, HistoryFields DEF ReadInv, WalkInv, Inv
    <3>3. l.visited = {} /\ ~l.raced => key[n] >= l.key
      BY <1>1, <1>3, <2>1, <2>5 DEF ReadInv, WalkInv, InWindow
    <3>4. key[n] = l.key => pid[n] \in l.seen \cup {NULL}
      BY <1>1, <1>3, <2>1, <2>5, LoadedAhead DEF Leads
    <3>5. QED
      BY <3>1, <3>2, <3>3, <3>4
  <2>6. QED
    BY <1>3, <1>5, <2>0, <2>2, <2>3, <2>4, <2>5 DEF EvalInv
<1>7. WalkInv(t)' /\ DoneInv(t)'
  BY <1>3, <1>5 DEF WalkInv, DoneInv
<1>8. QED
  BY <1>1, <1>3, <1>4, <1>5, <1>6, <1>7, ReaderReads

(* The node a reader evaluates is one it may stand on.                     *)
LEMMA EvalNode ==
  ASSUME Inv, ReadInv, NEW t \in Reader, r[t].pc = "eval", r[t].next # NULL
  PROVE  /\ r[t].next \in Cell /\ r[t].next \notin Private
         /\ Protected(t, r[t].next) /\ key[r[t].next] \in Int
         /\ pid[r[t].next] \in Value
<1>1. /\ r[t].next \in Cell /\ Protected(t, r[t].next)
      /\ pid[r[t].next] \in Value
  BY ReaderNext
<1>2. r[t].next \notin Private
  BY DEF ReadInv, EvalInv
<1>3. QED
  BY <1>1, <1>2, CellKeys DEF Inv

(* A read that ends keeps ReadInv if its answer is right.                  *)
LEMMA AnswerReads ==
  ASSUME Inv, Inv', ReadInv, NEW t \in Reader, NEW l \in ReaderType, Moves(t, l),
         r[t].pc = "eval", l.pc = "done", l.key = r[t].key,
         l.stable = r[t].stable, l.seen = r[t].seen, DoneInv(t)'
  PROVE  ReadInv'
<1>1. r'[t] = l
  BY DEF Moves, Inv, TypeOK
<1>2. WalkInv(t)' /\ EvalInv(t)'
  BY <1>1 DEF WalkInv, EvalInv
<1>3. QED
  BY <1>2, ReaderReads

(* The answer of pid_skiplist_lookup_rcu() was bound to the number, and is *)
(* NULL for a number bound throughout only after the race.                 *)
LEMMA LookupReads ==
  ASSUME Inv, Inv', ReadInv, NEW t \in Reader, pid_skiplist_lookup_rcu(t)
  PROVE  ReadInv'
<1>1. r[t].pc = "eval" /\ r[t].op = "lookup" /\ r[t] \in ReaderType
  BY ReaderFields DEF pid_skiplist_lookup_rcu, Inv
<1>2. PICK n : n = r[t].next
  OBVIOUS
<1>3. PICK res : res = IF KeyAt(n) = {r[t].key} THEN pid[n] ELSE NULL
  OBVIOUS
<1>4. PICK l : l = [r[t] EXCEPT !.res = res, !.visited = {}, !.x = NULL,
                                !.next = NULL, !.pc = "done"]
  OBVIOUS
<1>5. Moves(t, l)
  BY <1>2, <1>3, <1>4 DEF pid_skiplist_lookup_rcu, Returns
<1>6. r'[t] = l /\ l \in ReaderType
  BY <1>5 DEF Moves, Inv, TypeOK
<1>7. /\ l.pc = "done" /\ l.op = "lookup" /\ l.key = r[t].key /\ l.res = res
      /\ l.stable = r[t].stable /\ l.seen = r[t].seen /\ l.raced = r[t].raced
  BY <1>1, <1>4 DEF ReaderType
<1>8. ASSUME res # NULL PROVE res \in r[t].seen
  <2>1. n # NULL /\ key[n] = r[t].key /\ res = pid[n]
    BY <1>3, <1>8 DEF KeyAt
  <2>2. pid[n] \in r[t].seen \cup {NULL}
    BY <1>1, <1>2, <2>1 DEF ReadInv, EvalInv
  <2>3. QED
    BY <1>8, <2>1, <2>2
<1>9. ASSUME r[t].key \in r[t].stable, ~r[t].raced PROVE res # NULL
  <2>1. r[t].visited = {} /\ r[t].key \in Int
    BY <1>1, HistoryFields DEF ReadInv, EvalInv, Inv
  <2>2. n # NULL /\ key[n] <= r[t].key /\ key[n] >= r[t].key
    BY <1>1, <1>2, <1>9, <2>1 DEF ReadInv, EvalInv
  <2>3. key[n] = r[t].key
    BY <1>1, <1>2, <2>1, <2>2, EvalNode
  <2>4. pid[n] \in Pid
    BY <1>1, <1>2, <1>9, <2>2, <2>3, EvalNode, StableNode
  <2>5. res = pid[n]
    BY <1>3, <2>2, <2>3 DEF KeyAt
  <2>6. QED
    BY <2>4, <2>5, CellAssumption
<1>10. DoneInv(t)'
  BY <1>6, <1>7, <1>8, <1>9 DEF DoneInv
<1>11. QED
  BY <1>1, <1>5, <1>6, <1>7, <1>10, AnswerReads

(* pid_skiplist_find_ge_rcu() passes over nothing bound throughout.        *)
LEMMA FindGeReads ==
  ASSUME Inv, Inv', ReadInv, NEW t \in Reader, pid_skiplist_find_ge_rcu(t)
  PROVE  ReadInv'
<1>1. r[t].pc = "eval" /\ r[t].op = "find_ge" /\ r[t] \in ReaderType
  BY ReaderFields DEF pid_skiplist_find_ge_rcu, Inv
<1>2. PICK n : n = r[t].next
  OBVIOUS
<1>3. PICK res, found : res = PidAt(n) /\ found = KeyAt(n)
  OBVIOUS
<1>4. PICK l : l = [r[t] EXCEPT !.res = res, !.visited = found, !.x = NULL,
                                !.next = NULL, !.pc = "done"]
  OBVIOUS
<1>5. Moves(t, l)
  BY <1>2, <1>3, <1>4 DEF pid_skiplist_find_ge_rcu, Returns
<1>6. r'[t] = l /\ l \in ReaderType
  BY <1>5 DEF Moves, Inv, TypeOK
<1>7. /\ l.pc = "done" /\ l.op = "find_ge" /\ l.key = r[t].key /\ l.visited = found
      /\ l.stable = r[t].stable /\ l.seen = r[t].seen /\ l.raced = r[t].raced
  BY <1>1, <1>4 DEF ReaderType
<1>8. r[t].visited = {}
  BY <1>1 DEF ReadInv, EvalInv
<1>9. ASSUME ~r[t].raced, NEW j \in found PROVE j >= r[t].key
  <2>1. n # NULL /\ j = key[n]
    BY <1>3, <1>9 DEF KeyAt
  <2>2. QED
    BY <1>1, <1>2, <1>8, <1>9, <2>1 DEF ReadInv, EvalInv
<1>10. ASSUME NEW k \in r[t].stable, k >= r[t].key PROVE \E j \in found : j <= k
  <2>1. n # NULL /\ key[n] <= k
    BY <1>1, <1>2, <1>8, <1>10 DEF ReadInv, EvalInv
  <2>2. QED
    BY <1>3, <2>1 DEF KeyAt
<1>11. DoneInv(t)'
  BY <1>6, <1>7, <1>9, <1>10 DEF DoneInv
<1>12. QED
  BY <1>1, <1>5, <1>6, <1>7, <1>11, AnswerReads

(* Each round of pid_skiplist_iter_next_rcu() takes the next number bound  *)
(* throughout, or one below it.                                            *)
LEMMA IterReads ==
  ASSUME Inv, Inv', ReadInv, NEW t \in Reader, pid_skiplist_iter_next_rcu(t)
  PROVE  ReadInv'
<1>1. r[t].pc = "eval" /\ r[t].op = "iter" /\ r[t] \in ReaderType
  BY ReaderFields DEF pid_skiplist_iter_next_rcu, Inv
<1>2. PICK n : n = r[t].next
  OBVIOUS
<1>3. CASE IterEnds(t) \/ pid[n] = NULL
  <2>1. PICK hole \in BOOLEAN : hole <=> ~IterEnds(t)
    OBVIOUS
  <2>2. PICK l : l = [r[t] EXCEPT !.hole = hole, !.res = NULL, !.x = NULL,
                                  !.next = NULL, !.pc = "done"]
    OBVIOUS
  <2>3. Moves(t, l)
    <3>1. hole = ~IterEnds(t)
      BY <2>1 DEF IterEnds
    <3>2. QED
      BY <1>2, <1>3, <2>2, <3>1 DEF pid_skiplist_iter_next_rcu
  <2>4. r'[t] = l /\ l \in ReaderType
    BY <2>3 DEF Moves, Inv, TypeOK
  <2>5. /\ l.pc = "done" /\ l.op = "iter" /\ l.key = r[t].key
        /\ l.visited = r[t].visited /\ l.stable = r[t].stable
        /\ l.seen = r[t].seen /\ l.raced = r[t].raced /\ l.hole = hole
    BY <1>1, <2>2 DEF ReaderType
  <2>6. ASSUME ~r[t].raced, IterEnds(t), NEW k \in r[t].stable, k >= r[t].key
        PROVE  k \in r[t].visited
    <3>1. n = NULL \/ (n # NULL /\ r[t].visited = {} /\ key[n] < r[t].key)
      BY <1>2, <2>6 DEF IterEnds
    <3>2. CASE n = NULL
      BY <1>1, <1>2, <2>6, <3>2 DEF ReadInv, EvalInv
    <3>3. CASE n # NULL /\ r[t].visited = {} /\ key[n] < r[t].key
      <4>1. key[n] >= r[t].key
        BY <1>1, <1>2, <2>6, <3>3 DEF ReadInv, EvalInv
      <4>2. key[n] \in Int /\ r[t].key \in Int
        BY <1>1, <1>2, <3>3, EvalNode, HistoryFields DEF Inv
      <4>3. QED
        BY <3>3, <4>1, <4>2
    <3>4. QED
      BY <3>1, <3>2, <3>3
  <2>7. DoneInv(t)'
    BY <2>1, <2>4, <2>5, <2>6 DEF DoneInv
  <2>8. QED
    BY <1>1, <2>3, <2>4, <2>5, <2>7, AnswerReads
<1>4. CASE ~(IterEnds(t) \/ pid[n] = NULL)
  <2>1. n # NULL /\ (r[t].visited = {} => ~(key[n] < r[t].key))
    BY <1>2, <1>4 DEF IterEnds
  <2>2. n \in Cell /\ n \notin Private /\ key[n] \in Int
    BY <1>1, <1>2, <2>1, EvalNode
  <2>3. PICK visited, res : visited = r[t].visited \cup {key[n]} /\ res = pid[n]
    OBVIOUS
  <2>4. PICK l : l = [r[t] EXCEPT !.visited = visited, !.res = res, !.x = n,
                                  !.next = NULL, !.pc = "last"]
    OBVIOUS
  <2>5. Moves(t, l)
    BY <1>2, <1>4, <2>3, <2>4 DEF pid_skiplist_iter_next_rcu
  <2>6. r'[t] = l /\ l \in ReaderType /\ w' = w /\ key' = key
    BY <2>5 DEF Moves, heapVars, Inv, TypeOK
  <2>7. /\ l.pc = "last" /\ l.op = "iter" /\ l.key = r[t].key /\ l.x = n
        /\ l.visited = visited /\ l.stable = r[t].stable /\ l.seen = r[t].seen
    BY <1>1, <2>4 DEF ReaderType
  <2>8. visited # {} /\ \A j \in visited : j <= key[n]
    <3>1. \A j \in r[t].visited : j < key[n] /\ j \in Int
      BY <1>1, <1>2, <2>1, HistoryFields DEF ReadInv, EvalInv, Inv
    <3>2. QED
      BY <2>2, <2>3, <3>1
  <2>9. ASSUME NEW k \in r[t].stable, k >= r[t].key
        PROVE  k \in visited \/ key[n] < k
    <3>1. k \in r[t].visited \/ key[n] <= k
      BY <1>1, <1>2, <2>9 DEF ReadInv, EvalInv
    <3>2. k \in Int
      BY HistoryFields DEF Inv
    <3>3. QED
      BY <2>2, <2>3, <3>1, <3>2
  <2>10. WalkInv(t)'
    <3>1. ~InWindow(t)' /\ n \notin Private'
      BY <2>2, <2>6, <2>7, <2>8 DEF InWindow, Private
    <3>2. QED
      BY <2>6, <2>7, <2>8, <2>9, <3>1 DEF WalkInv
  <2>11. EvalInv(t)' /\ DoneInv(t)'
    BY <2>6, <2>7 DEF EvalInv, DoneInv
  <2>12. QED
    BY <1>1, <2>5, <2>6, <2>7, <2>10, <2>11, ReaderReads
<1>5. QED
  BY <1>3, <1>4

(* rcu_read_unlock() forgets the reader.                                   *)
LEMMA UnlockReads ==
  ASSUME Inv, Inv', ReadInv, NEW t \in Reader, rcu_read_unlock(t) PROVE ReadInv'
<1>1. UNCHANGED <<level, key, pid, height, forward, allocated, dying, linked>>
  BY DEF rcu_read_unlock, heapVars
<1>2. r'[t].pc = "idle" /\ \A u \in Reader : u # t => r'[u] = r[u]
  BY DEF rcu_read_unlock, IdleReader, Inv, TypeOK
<1>3. w'.pc = w.pc /\ w'.x = w.x /\ w'.i = w.i
  BY DEF rcu_read_unlock, Inv, TypeOK, WriterType
<1>4. \A n \in Node : gp'[n] = gp[n] \ {t}
  BY DEF rcu_read_unlock
<1>5. Private' = Private
  BY <1>3 DEF Private
<1>6. BoundInv'
  BY <1>1, <1>2 DEF ReadInv, BoundInv, Active
<1>7. UnlinkedInv'
  BY <1>1, <1>3, <1>5 DEF ReadInv, UnlinkedInv, Upward, IsSuccessor
<1>8. RemovedInv'
  <2>1. \A n \in dying : \A u \in gp'[n] : u \in gp[n] /\ r'[u] = r[u]
    BY <1>2, <1>4 DEF Inv, TypeOK
  <2>2. QED
    BY <1>1, <1>5, <2>1 DEF ReadInv, RemovedInv, Upward, Leads
<1>9. ASSUME NEW u \in Reader PROVE WalkInv(u)' /\ EvalInv(u)' /\ DoneInv(u)'
  <2>1. CASE u # t
    BY <1>1, <1>2, <1>5, <2>1 DEF ReadInv, WalkInv, EvalInv, DoneInv, InWindow
  <2>2. CASE u = t
    BY <1>2, <2>2 DEF WalkInv, EvalInv, DoneInv
  <2>3. QED
    BY <2>1, <2>2
<1>10. QED
  BY <1>6, <1>7, <1>8, <1>9 DEF ReadInv

-----------------------------------------------------------------------------
(* The theorems.                                                           *)

(* Every step keeps ReadInv.                                               *)
LEMMA NextReads == Inv /\ Inv' /\ ReadInv /\ [Next]_vars => ReadInv'
<1> SUFFICES ASSUME Inv, Inv', ReadInv, [Next]_vars PROVE ReadInv'
  OBVIOUS
<1>1. CASE pid_skiplist_init
  BY <1>1, UnsharedReads
<1>2. CASE \/ \E k \in Key, p \in InsertPids : pid_skiplist_insert(k, p)
           \/ \E k \in Key : pid_skiplist_remove(k)
           \/ DestroySync \/ SearchAdvance \/ SearchDescend
  BY <1>2, QuietReads
<1>3. CASE InsertSteps
  BY <1>3, ReplaceReads, QuietReads, AllocReads, LinkReads DEF InsertSteps
<1>4. CASE RemoveSteps
  BY <1>4, QuietReads, FoundReads, UnlinkReads, ShrinkReads, CallRcuReads
     DEF RemoveSteps
<1>5. CASE DestroySteps
  BY <1>5, UnsharedReads DEF DestroySteps
<1>6. ASSUME NEW n \in Node, pid_sl_node_rcu_free(n) PROVE ReadInv'
  BY <1>6, RcuFreeReads
<1>7. ASSUME NEW t \in Reader, NEW c \in ReadCalls, ReadBegin(t, c[1], c[2])
      PROVE  ReadInv'
  BY <1>7, BeginReads
<1>8. ASSUME NEW t \in Reader, ReaderStep(t) PROVE ReadInv'
  BY <1>8, AdvanceReads, DescendReads, LastReads, LookupReads, FindGeReads,
     IterReads, UnlockReads DEF ReaderStep
<1>9. CASE UNCHANGED vars
  BY <1>9 DEF vars, ReadInv, BoundInv, UnlinkedInv, RemovedInv, WalkInv, EvalInv,
     DoneInv, Upward, Leads, Private, InWindow, IsSuccessor, Active
<1>10. QED
  BY <1>1, <1>2, <1>3, <1>4, <1>5, <1>6, <1>7, <1>8, <1>9 DEF Next, WriterStep

(* The invariant of the readers holds in every reachable state: a node     *)
(* removed under a reader still leads it to all that stayed.               *)
THEOREM ReadInvariance == Spec => []ReadInv
<1>1. Init /\ Inv => ReadInv
  <2> SUFFICES ASSUME Init, Inv PROVE ReadInv
    OBVIOUS
  <2>1. Active = {}
    BY DEF Init, Active, IdleReader
  <2>2. UnlinkedInv
    BY DEF Init, UnlinkedInv, IdleWriter
  <2>3. QED
    BY <2>1, <2>2, NoReaders
<1>2. QED
  BY <1>1, InitInv, NextInv, NextReads, PTL DEF Spec

(* pid_skiplist_lookup_rcu() returns only what the number was bound to     *)
(* during the section.                                                     *)
THEOREM LookupsSound == Spec => []LookupSound
<1>1. ReadInv => LookupSound
  BY DEF ReadInv, DoneInv, LookupSound
<1>2. QED
  BY <1>1, ReadInvariance, PTL

(* pid_skiplist_lookup_rcu() misses a number bound throughout its section  *)
(* only if a smaller one was linked between its two loads of forward[0].   *)
THEOREM LookupsMissInWindow == Spec => []LookupMissesOnlyInWindow
<1>1. ReadInv => LookupMissesOnlyInWindow
  BY DEF ReadInv, DoneInv, LookupMissesOnlyInWindow
<1>2. QED
  BY <1>1, ReadInvariance, PTL

(* pid_skiplist_find_ge_rcu() ends at or above the number, and not beyond  *)
(* one that was bound throughout, but for the same race.                   *)
THEOREM FindGeFirst == Spec => []FindGeIsFirst
<1>1. ReadInv => FindGeIsFirst
  BY DEF ReadInv, DoneInv, FindGeIsFirst
<1>2. QED
  BY <1>1, ReadInvariance, PTL

(* pid_skiplist_iter_next_rcu() visits all numbers bound throughout,       *)
(* although nodes are removed under its cursor.                            *)
THEOREM IterationsComplete == Spec => []IterationComplete
<1>1. ReadInv => IterationComplete
  BY DEF ReadInv, DoneInv, IterationComplete
<1>2. QED
  BY <1>1, ReadInvariance, PTL

(* What a step of the writer or of RCU leaves a reader: all it visited.    *)
LEMMA WriterVisits ==
  ASSUME Inv, NEW t \in Reader,
         \/ pid_skiplist_init
         \/ \E k \in Key, p \in InsertPids : pid_skiplist_insert(k, p)
         \/ \E k \in Key : pid_skiplist_remove(k)
         \/ DestroySync \/ WriterStep
         \/ \E n \in Node : pid_sl_node_rcu_free(n)
  PROVE  r'[t].visited = r[t].visited
<1>1. ASSUME NEW k \in Key, NEW v \in Value, NEW b \in BOOLEAN, Observe(k, v, b)
      PROVE  r'[t].visited = r[t].visited
  BY <1>1, Observed DEF Stays, Inv
<1>2. NULL \in Value /\ w.pid \in Value
  BY Pointers, WriterFields DEF Inv
<1>3. CASE InsertReplace
  BY <1>1, <1>2, <1>3 DEF InsertReplace, SearchDone, Inv, WriterInv
<1>4. CASE InsertLink
  <2>1. w.key \in Key
    BY <1>4 DEF InsertLink, Inv, WriterInv
  <2>2. r' = r \/ Observe(w.key, w.pid, TRUE)
    BY <1>4 DEF InsertLink
  <2>3. QED
    BY <1>1, <1>2, <2>1, <2>2
<1>5. CASE RemoveUnlink
  <2>1. w.key \in Key
    BY <1>5 DEF RemoveUnlink, Inv, WriterInv, HeapInv
  <2>2. r' = r \/ Observe(w.key, NULL, FALSE)
    BY <1>5 DEF RemoveUnlink
  <2>3. QED
    BY <1>1, <1>2, <2>1, <2>2
<1>6. CASE r' = r
  BY <1>6
<1>7. \/ r' = r \/ InsertReplace \/ InsertLink \/ RemoveUnlink
  BY DEF pid_skiplist_init, pid_skiplist_insert, pid_skiplist_remove, BeginWrite,
     DestroySync, WriterStep, SearchAdvance, SearchDescend, InsertSteps,
     InsertRaise, InsertAlloc, InsertNoMemory, RemoveSteps, RemoveAbsent,
     RemoveFound, RemoveShrink, RemoveCallRcu, DestroySteps, DestroyWalk,
     DestroyNode, DestroyHeader, pid_sl_node_rcu_free
<1>8. QED
  BY <1>3, <1>4, <1>5, <1>6, <1>7

(* pid_skiplist_iter_next_rcu() delivers numbers in increasing order, also *)
(* from a cursor that has been removed.                                    *)
THEOREM IterationsIncrease == Spec => IterationIncreases
<1> DEFINE Increases ==
             \A t \in Reader :
               r[t].op = "iter" /\ r[t].pc # "idle" /\ r'[t].pc # "idle" =>
                 \A j \in r'[t].visited \ r[t].visited, k \in r[t].visited : k < j
<1>1. Inv /\ ReadInv /\ [Next]_vars => [Increases]_vars
  <2> SUFFICES ASSUME Inv, ReadInv, Next, NEW t \in Reader,
                      r[t].op = "iter", r[t].pc # "idle", r'[t].pc # "idle",
                      NEW j \in r'[t].visited \ r[t].visited,
                      NEW k \in r[t].visited
               PROVE  k < j
    OBVIOUS
  <2>1. PICK u \in Reader :
          \/ \E c \in ReadCalls : ReadBegin(u, c[1], c[2])
          \/ ReaderStep(u)
    BY WriterVisits DEF Next
  <2>2. u = t
    BY <2>1 DEF ReadBegin, ReaderStep, ReadAdvance, ReadDescend, ReadLast,
       pid_skiplist_lookup_rcu, pid_skiplist_find_ge_rcu,
       pid_skiplist_iter_next_rcu, rcu_read_unlock, Returns, Moves, Inv, TypeOK
  <2>3. r[t] \in ReaderType /\ r \in [Reader -> ReaderType]
    BY DEF Inv, TypeOK
  <2>4. pid_skiplist_iter_next_rcu(t)
    <3>1. ~(ReadAdvance(t) \/ ReadDescend(t) \/ ReadLast(t))
      <4>1. ~ReadAdvance(t)
        BY <2>3 DEF ReadAdvance, Moves, ReaderType
      <4>2. ~ReadDescend(t)
        BY <2>3 DEF ReadDescend, Moves, ReaderType
      <4>3. ~ReadLast(t)
        BY <2>3 DEF ReadLast, Moves, ReaderType
      <4>4. QED
        BY <4>1, <4>2, <4>3
    <3>2. ~rcu_read_unlock(t)
      BY <2>3 DEF rcu_read_unlock, IdleReader
    <3>3. QED
      BY <2>1, <2>2, <3>1, <3>2 DEF ReaderStep, ReadBegin,
         pid_skiplist_lookup_rcu, pid_skiplist_find_ge_rcu
  <2>5. r'[t].visited \subseteq r[t].visited \cup {key[r[t].next]}
        /\ (r'[t].visited = r[t].visited \/ r[t].next # NULL)
    <3>1. CASE IterEnds(t) \/ pid[r[t].next] = NULL
      <4>1. PICK h : r'[t] = [r[t] EXCEPT !.hole = h, !.res = NULL, !.x = NULL,
                                          !.next = NULL, !.pc = "done"]
        BY <2>3, <2>4, <3>1 DEF pid_skiplist_iter_next_rcu, Moves
      <4>2. QED
        BY <2>3, <4>1 DEF ReaderType
    <3>2. CASE ~(IterEnds(t) \/ pid[r[t].next] = NULL)
      <4>1. PICK v, res, x : /\ v = r[t].visited \cup {key[r[t].next]}
                             /\ res = pid[r[t].next] /\ x = r[t].next
        OBVIOUS
      <4>2. r'[t] = [r[t] EXCEPT !.visited = v, !.res = res, !.x = x,
                                 !.next = NULL, !.pc = "last"]
        BY <2>3, <2>4, <3>2, <4>1 DEF pid_skiplist_iter_next_rcu, Moves
      <4>3. r'[t].visited = v
        BY <2>3, <4>2 DEF ReaderType
      <4>4. QED
        BY <3>2, <4>1, <4>3 DEF IterEnds
    <3>3. QED
      BY <3>1, <3>2
  <2>6. r[t].pc = "eval" /\ r[t].next # NULL /\ j = key[r[t].next]
    BY <2>4, <2>5 DEF pid_skiplist_iter_next_rcu
  <2>7. QED
    BY <2>6 DEF ReadInv, EvalInv
<1>2. QED
  BY <1>1, Invariance, ReadInvariance, PTL DEF Spec, IterationIncreases
=============================================================================
