-------------------------- MODULE RbSkiplistReads --------------------------
(***************************************************************************)
(* Proofs of what RbSkiplist promises to its callers and its readers, for  *)
(* every number of keys, cells, levels, struct pids and readers: the index *)
(* is what the callers have made of it, what a read returns was there, and *)
(* what was there throughout is returned, but for the two races.  The      *)
(* proofs rest on BoundInv and ReadInv (RbSkiplistInv), which are          *)
(* inductive given Inv (RbSkiplistProofs).                                 *)
(***************************************************************************)
EXTENDS RbSkiplistProofs

-----------------------------------------------------------------------------
(* What the callers have made of the numbers.                              *)

(* The keys of cells are integers.                                         *)
LEMMA CellKeys ==
  ASSUME TypeOK
  PROVE  /\ \A c \in Cell : key[c] \in Int /\ pid[c] \in Value
         /\ \A c \in Cell, i \in Lvl : forward[c][i] \in Ptr
         /\ \A i \in Lvl : linked[i] \subseteq Node /\ linked[i] \subseteq Cell
         /\ dying \subseteq Cell /\ tree \subseteq Node /\ tree \subseteq Cell
<1>1. \A c \in Cell : key[c] \in Number /\ pid[c] \in Value
  BY DEF TypeOK
<1>2. \A c \in Cell, i \in Lvl : forward[c][i] \in Ptr
  BY DEF TypeOK
<1>3. \A i \in Lvl : linked[i] \subseteq Node
  BY DEF TypeOK
<1>4. dying \subseteq Node /\ tree \subseteq Node
  BY DEF TypeOK
<1>5. QED
  BY <1>1, <1>2, <1>3, <1>4, Pointers

(* NULL is no struct pid.                                                  *)
LEMMA Values == NULL \notin Pid /\ \A v \in Value : v = NULL \/ v \in Pid
BY CellAssumption DEF Value

(* A number has one node at most that a search can find.                   *)
LEMMA OneFindable ==
  ASSUME Inv, NEW k, NEW m \in Findable(k), NEW n \in Findable(k)
  PROVE  m = n
BY DEF Findable, Inv, TreeInv

(* The search of insert and remove ends with the findable node of the      *)
(* number, if it has one.                                                  *)
LEMMA SearchFinds ==
  ASSUME Inv, NEW op, SearchDone(op)
  PROVE  /\ Found => Findable(w.key) = {Candidate}
         /\ ~Found => Findable(w.key) = {}
         /\ w.key \in Key /\ InHand = {}
<1>1. Found => Candidate \in Findable(w.key)
  BY AtCandidate DEF Found, Findable
<1>2. ~Found => Findable(w.key) = {}
  <2> SUFFICES ASSUME ~Found, NEW o \in Findable(w.key) PROVE FALSE
    OBVIOUS
  <2>1. o \in linked[0] /\ o \in Cell /\ pos[o] = place
    BY CellKeys, Order, Bounds DEF Findable, Inv
  <2>2. QED
    BY <2>1, AtCandidate
<1>3. w.key \in Key /\ InHand = {}
  BY AtCandidate DEF InHand
<1>4. QED
  BY <1>1, <1>2, <1>3, OneFindable

(* The calls that have number k keep it, and no other call takes it.       *)
SameCalls(k) ==
  /\ reserved'[k] = reserved[k] /\ bound'[k] = bound[k]
  /\ k \in lost' <=> k \in lost
  /\ k \in shared => k \in shared'

(* A number whose nodes and whose calls a step leaves alone stays settled. *)
LEMMA SettledStays ==
  ASSUME NEW k \in Key, Settled(k), Findable(k)' = Findable(k),
         \A n \in Findable(k) : pid'[n] = pid[n],
         \A n \in linked[0] : key[n] = k => n \in linked'[0] /\ key'[n] = k,
         SameCalls(k)
  PROVE  Settled(k)'
<1>1. CASE k \in shared
  BY <1>1 DEF Settled, SameCalls
<1>2. CASE SettledAlone(k)
  BY <1>2 DEF Settled, SettledAlone, SameCalls, Holders
<1>3. QED
  BY <1>1, <1>2 DEF Settled

(* The nodes of the list, their keys and pointers and the tree are what    *)
(* they were, and so are the calls but for numbers newly shared.           *)
SameNodes ==
  /\ UNCHANGED <<tree, linked, reserved, bound, lost>> /\ shared \subseteq shared'
  /\ \A n \in linked[0] : key'[n] = key[n] /\ pid'[n] = pid[n]

(* Then numbers that are settled stay so, and the tree has no further      *)
(* struct pid.                                                             *)
LEMMA SameNodesSettled ==
  ASSUME Inv, BoundInv, SameNodes
  PROVE  /\ Spoiled' = Spoiled /\ Spoiled' \subseteq shared'
         /\ \A k \in Key : Findable(k)' = Findable(k) /\ Binding(k)' = Binding(k)
         /\ \A k \in Key : Settled(k) => Settled(k)'
<1>1. tree \subseteq linked[0]
  BY Bounds DEF Inv, TreeInv
<1>2. Spoiled' = Spoiled
  BY <1>1 DEF SameNodes, Spoiled
<1>3. ASSUME NEW k \in Key
      PROVE  Findable(k)' = Findable(k) /\ Binding(k)' = Binding(k)
  <2>1. Findable(k)' = Findable(k)
    BY DEF SameNodes, Findable
  <2>2. \A n \in Findable(k) : pid'[n] = pid[n]
    BY DEF SameNodes, Findable
  <2>3. QED
    BY <2>1, <2>2 DEF Binding
<1>4. ASSUME NEW k \in Key, Settled(k) PROVE Settled(k)'
  <2>1. Findable(k) \subseteq linked[0]
    BY DEF Findable
  <2>2. QED
    BY <1>3, <1>4, <2>1, SettledStays DEF SameNodes, SameCalls
<1>5. QED
  BY <1>2, <1>3, <1>4 DEF SameNodes, BoundInv

(* An operation that goes on in its phase has the number it had.           *)
LEMMA SameHand ==
  ASSUME BoundInv, w'.pc = w.pc, w'.op = w.op, w'.key = w.key, w'.pid = w.pid,
         w'.own = w.own, UNCHANGED <<reserved, bound, lost>>,
         shared \subseteq shared',
         \A n \in tree : n \in tree' /\ key'[n] = key[n]
  PROVE  AtHand'
BY DEF BoundInv, AtHand, Holders

(* Steps of readers and of RCU, and those the writer takes in its search.  *)
LEMMA QuietBound ==
  ASSUME Inv, BoundInv, SameNodes,
         w'.pc = w.pc, w'.op = w.op, w'.key = w.key, w'.pid = w.pid,
         w'.own = w.own, w.pc = "search" \/ w'.x = w.x
  PROVE  BoundInv'
<1>1. InHand' = InHand
  BY DEF InHand
<1>2. w.pc \in {"link", "unlink", "call_rcu"} => w.key \in Key
  BY DEF BoundInv
<1>3. \A k \in Key : InHand' = {} \/ k # w'.key => Settled(k)'
  BY <1>1, SameNodesSettled DEF BoundInv
<1>4. AtHand'
  <2>1. tree \subseteq linked[0]
    BY Bounds DEF Inv, TreeInv
  <2>2. QED
    BY <2>1, SameHand DEF SameNodes
<1>5. w'.pc = "search" /\ w'.op = "insert" /\ w'.pid = NULL =>
        Binding(w.key)' = {}
  BY SameNodesSettled DEF BoundInv, Inv, WriterInv
<1>6. w'.pc \in {"link", "unlink", "call_rcu"} =>
        w'.key \in Key /\ \A n \in Findable(w.key)' : n = w'.x
  BY <1>2, SameNodesSettled DEF BoundInv
<1>7. w'.pc \in {"sync", "free", "down"} => \A k \in Key : Holders(k)' = {}
  BY DEF BoundInv, SameNodes, Holders
<1>8. QED
  BY <1>3, <1>4, <1>5, <1>6, <1>7, SameNodesSettled DEF BoundInv

(* Entering insert or remove, by what the allocator and the callers of     *)
(* free_pid() have made sure of.                                           *)
LEMMA BeginBound ==
  ASSUME Inv, BoundInv, NEW op \in {"insert", "remove"}, NEW k \in Key,
         NEW p \in Value, NEW own \in Pid, BeginWrite(op, k, p, own),
         p \in {NULL, own}, shared \subseteq shared',
         op = "insert" /\ k \notin shared' =>
           reserved[k] = {p} \ {NULL} /\ bound[k] = {},
         op = "remove" /\ k \notin shared' => Holders(k) \subseteq {own},
         op = "insert" /\ p = NULL => Binding(k) = {}
  PROVE  BoundInv'
<1>1. /\ w.pc = "idle" /\ w'.pc = "search" /\ w'.op = op /\ w'.key = k
      /\ w'.pid = p /\ w'.own = own
  BY DEF BeginWrite, IdleWriter
<1>2. SameNodes
  BY DEF BeginWrite, SameNodes, heapVars
<1>3. InHand = {} /\ InHand' = {}
  BY <1>1 DEF InHand
<1>4. AtHand'
  BY <1>1, <1>2 DEF AtHand, SameNodes, Holders
<1>5. w'.op = "insert" /\ w'.pid = NULL => Binding(k)' = {}
  BY <1>1, <1>2, SameNodesSettled
<1>6. QED
  BY <1>1, <1>2, <1>3, <1>4, <1>5, SameNodesSettled DEF BoundInv

(* alloc_pid() takes a number that looks free, publishes one it has and    *)
(* gives one back it has: no other call has it, if it is not shared.       *)
LEMMA CallBound ==
  ASSUME Inv, BoundInv, NEW k \in Key, NEW p \in Pid,
         Reserve(k, p) \/ Publish(k, p) \/ GiveBack(k, p)
  PROVE  BoundInv'
<1>0. p \in Value /\ NULL \in Value /\ p # NULL
  BY Pointers, Values
<1>1. CASE Reserve(k, p)
  <2>1. k \notin shared' => reserved[k] = {} /\ bound[k] = {}
    BY <1>1 DEF Reserve, Holders
  <2>2. BeginWrite("insert", k, NULL, p) /\ Binding(k) = {} /\ shared \subseteq shared'
    BY <1>1 DEF Reserve
  <2>3. QED
    BY <1>0, <2>1, <2>2, BeginBound
<1>2. ASSUME k \notin shared, w.pc = "idle"
      PROVE  /\ \A q \in Holders(k) : Holders(k) \subseteq {q}
             /\ reserved[k] \cap bound[k] = {}
  BY <1>2 DEF BoundInv, InHand, Settled, SettledAlone
<1>3. CASE Publish(k, p)
  <2>1. k \notin shared => reserved[k] = {p} /\ bound[k] = {}
    BY <1>2, <1>3 DEF Publish, BeginWrite, Holders
  <2>2. BeginWrite("insert", k, p, p) /\ shared' = shared
    BY <1>3 DEF Publish
  <2>3. QED
    BY <1>0, <2>1, <2>2, BeginBound
<1>4. CASE GiveBack(k, p)
  <2>1. k \notin shared => Holders(k) \subseteq {p}
    BY <1>2, <1>4 DEF GiveBack, BeginWrite
  <2>2. BeginWrite("remove", k, NULL, p) /\ shared' = shared
    BY <1>4 DEF GiveBack
  <2>3. QED
    BY <1>0, <2>1, <2>2, BeginBound
<1>5. QED
  BY <1>1, <1>3, <1>4

(* The search of insert and remove.                                        *)
LEMMA SearchBound ==
  ASSUME Inv, BoundInv, SearchAdvance \/ SearchDescend PROVE BoundInv'
<1>1. /\ w.pc = "search" /\ w'.pc = w.pc /\ w'.op = w.op /\ w'.key = w.key
      /\ w'.pid = w.pid /\ w'.own = w.own
  BY DEF SearchAdvance, SearchDescend, Inv, TypeOK, WriterType
<1>2. SameNodes
  BY DEF SearchAdvance, SearchDescend, SameNodes, heapVars, callVars
<1>3. QED
  BY <1>1, <1>2, QuietBound

(* The number at hand is settled anew and the others are left alone: what  *)
(* every operation does that returns to the allocator.                     *)
LEMMA SettledAgain ==
  ASSUME Inv, BoundInv, w' = IdleWriter,
         NEW k \in Key, k = w.key, Settled(k)', Spoiled' \subseteq shared',
         \A j \in Key : j # w.key /\ Settled(j) => Settled(j)'
  PROVE  BoundInv'
<1>1. w'.pc = "idle" /\ InHand' = {}
  BY DEF IdleWriter, InHand
<1>2. \A j \in Key : Settled(j)'
  BY DEF BoundInv
<1>3. QED
  BY <1>1, <1>2 DEF BoundInv, AtHand

(* A store to the bindings of one number leaves the others settled.        *)
LEMMA OthersSettled ==
  ASSUME Inv, UNCHANGED <<key, tree>>,
         \A n \in linked[0] : key[n] # w.key => n \in linked'[0],
         \A n \in linked'[0] : key[n] # w.key => n \in linked[0],
         \A n \in linked[0] : key[n] # w.key => pid'[n] = pid[n],
         \A k \in Key \ {w.key} : SameCalls(k),
         NEW k \in Key, k # w.key, Settled(k)
  PROVE  Settled(k)'
<1>1. Findable(k)' = Findable(k)
  BY DEF Findable
<1>2. \A n \in Findable(k) : n \in linked[0] /\ key[n] = k
  BY DEF Findable
<1>3. QED
  BY <1>1, <1>2, SettledStays

(* After pid_rb_skiplist_insert() its caller has the number, reserved or   *)
(* published.                                                              *)
LEMMA Binds ==
  ASSUME TypeOK, w.key \in Key, Bind,
         \A k \in Key \ {w.key} : k \in lost' <=> k \in lost
  PROVE  /\ shared' = shared
         /\ \A k \in Key \ {w.key} : SameCalls(k)
         /\ w.pid = NULL => /\ reserved'[w.key] = reserved[w.key] \cup {w.own}
                            /\ bound'[w.key] = bound[w.key]
         /\ w.pid # NULL => /\ reserved'[w.key] = reserved[w.key] \ {w.own}
                            /\ bound'[w.key] = bound[w.key] \cup {w.own}
BY DEF TypeOK, CallTypeOK, Bind, SameCalls

(* What the search for a number to insert ends with.                       *)
LEMMA InsertHand ==
  ASSUME Inv, BoundInv, SearchDone("insert")
  PROVE  /\ w.key \in Key /\ InHand = {} /\ w.pc = "search" /\ w.op = "insert"
         /\ w.own \in Pid /\ w.own # NULL /\ w.pid \in {NULL, w.own}
         /\ w.pid = NULL => Binding(w.key) = {}
         /\ w.key \notin shared =>
              /\ SettledAlone(w.key) /\ w.key \notin lost
              /\ reserved[w.key] = {w.pid} \ {NULL} /\ bound[w.key] = {}
<1>1. w.key \in Key /\ InHand = {} /\ w.pc = "search" /\ w.op = "insert"
  BY SearchFinds DEF SearchDone
<1>2. w.own \in Pid /\ w.own # NULL /\ w.pid \in {NULL, w.own}
  BY <1>1, Values DEF Inv, WriterInv, BoundInv, AtHand
<1>3. /\ w.pid = NULL => Binding(w.key) = {}
      /\ w.key \notin shared => /\ SettledAlone(w.key)
                                /\ reserved[w.key] = {w.pid} \ {NULL}
                                /\ bound[w.key] = {}
  BY <1>1 DEF BoundInv, AtHand, Settled
<1>4. w.key \notin shared => w.key \notin lost
  BY <1>3 DEF SettledAlone
<1>5. QED
  BY <1>1, <1>2, <1>3, <1>4

(* Publication replaces the placeholder of a number that insert finds.     *)
LEMMA InsertReplaceBound == ASSUME Inv, BoundInv, InsertReplace PROVE BoundInv'
<1>1. /\ SearchDone("insert") /\ Found /\ w' = IdleWriter /\ Bind
      /\ UNCHANGED <<key, tree, linked, lost>>
  BY DEF InsertReplace, heapVars
<1>2. /\ Findable(w.key) = {Candidate} /\ w.key \in Key
      /\ Candidate \in linked[0] /\ Candidate \notin tree /\ Candidate \in Cell
      /\ key[Candidate] = w.key
  BY <1>1, SearchFinds, AtCandidate, CellKeys, Bounds DEF Found, SearchDone, Inv
<1>3. /\ pid'[Candidate] = w.pid
      /\ \A n \in Cell : n # Candidate => pid'[n] = pid[n]
  BY <1>2 DEF InsertReplace, Inv, TypeOK
<1>4. /\ shared' = shared /\ \A k \in Key \ {w.key} : SameCalls(k)
      /\ w.pid # NULL => /\ reserved'[w.key] = reserved[w.key] \ {w.own}
                         /\ bound'[w.key] = bound[w.key] \cup {w.own}
  BY <1>1, <1>2, Binds DEF Inv
<1>5. ASSUME NEW k \in Key, k = w.key PROVE Settled(k)'
  <2>1. CASE k \in shared
    BY <2>1, <1>4 DEF Settled
  <2>2. CASE k \notin shared
    <3>1. /\ SettledAlone(k) /\ k \notin lost /\ w.own # NULL
          /\ w.pid \in {NULL, w.own}
          /\ reserved[k] = {w.pid} \ {NULL} /\ bound[k] = {}
      BY <1>1, <1>5, <2>2, InsertHand
    <3>2. w.pid = w.own
      BY <1>2, <1>5, <3>1 DEF SettledAlone, Holders
    <3>3. reserved'[k] = {} /\ bound'[k] = {w.own} /\ k \notin lost'
      BY <1>1, <1>4, <1>5, <3>1, <3>2
    <3>4. Candidate \in Findable(k)'
      BY <1>1, <1>2, <1>5 DEF Findable
    <3>5. QED
      BY <1>3, <3>2, <3>3, <3>4 DEF Settled, SettledAlone, Holders
  <2>3. QED
    BY <2>1, <2>2
<1>6. Spoiled' \subseteq shared'
  <2>1. \A n \in tree : pid'[n] = pid[n]
    BY <1>2, <1>3, CellKeys DEF Inv
  <2>2. Spoiled' = Spoiled
    BY <1>1, <2>1 DEF Spoiled
  <2>3. QED
    BY <1>4, <2>2 DEF BoundInv
<1>7. \A n \in linked[0] : key[n] # w.key => pid'[n] = pid[n]
  BY <1>2, <1>3, CellKeys, Bounds DEF Inv
<1>8. \A k \in Key : k # w.key /\ Settled(k) => Settled(k)'
  BY <1>1, <1>4, <1>7, OthersSettled
<1>9. QED
  BY <1>1, <1>2, <1>5, <1>6, <1>8, SettledAgain

(* A number one call has that is not found is reserved for the first time, *)
(* or its placeholder is in the tree.                                      *)
LEMMA NotFound ==
  ASSUME Inv, BoundInv, SearchDone("insert"), ~Found
  PROVE  /\ w.key \in Key /\ InHand = {} /\ Findable(w.key) = {}
         /\ w.key \notin shared /\ w.pid # NULL => \E n \in tree : key[n] = w.key
<1>1. Findable(w.key) = {} /\ w.key \in Key /\ InHand = {}
  BY SearchFinds
<1>2. ASSUME w.key \notin shared, w.pid # NULL
      PROVE  \E n \in tree : key[n] = w.key
  <2>1. SettledAlone(w.key) /\ reserved[w.key] = {w.pid}
    BY <1>2, InsertHand
  <2>2. QED
    BY <1>1, <2>1 DEF SettledAlone, Findable
<1>3. QED
  BY <1>1, <1>2

(* A new node is allocated; the list does not have it yet.                 *)
LEMMA InsertAllocBound == ASSUME Inv, BoundInv, InsertAlloc PROVE BoundInv'
<1>1. /\ SearchDone("insert") /\ ~Found
      /\ UNCHANGED <<tree, linked, reserved, bound, lost, shared>>
  BY DEF InsertAlloc, callVars
<1>2. PICK x \in Node \ allocated, lvl \in 1 .. PID_SL_MAX_LEVEL :
        /\ key' = [key EXCEPT ![x] = w.key]
        /\ pid' = [pid EXCEPT ![x] = w.pid]
        /\ w' = [w EXCEPT !.pc = "link", !.lvl = lvl, !.x = x, !.i = 0,
                          !.update = [i \in Lvl |-> IF i \in level .. lvl - 1
                                                    THEN Header ELSE @[i]]]
  BY DEF InsertAlloc
<1>3. /\ w'.pc = "link" /\ w'.x = x /\ w'.key = w.key /\ w'.pid = w.pid
      /\ w'.own = w.own
  BY <1>2 DEF Inv, TypeOK, WriterType
<1>4. \A n \in linked[0] : n # x /\ key'[n] = key[n] /\ pid'[n] = pid[n]
  BY <1>2, CellKeys, Bounds DEF Inv, HeapInv, TypeOK
<1>5. SameNodes
  BY <1>1, <1>4 DEF SameNodes
<1>6. /\ w.key \in Key /\ InHand = {} /\ Findable(w.key) = {}
      /\ w.key \notin shared /\ w.pid # NULL => \E n \in tree : key[n] = w.key
  BY <1>1, NotFound
<1>7. \A k \in Key : Settled(k)'
  BY <1>5, <1>6, SameNodesSettled DEF BoundInv
<1>8. \A n \in linked'[0] : key'[n] = w.key => n \in tree'
  BY <1>1, <1>4, <1>6 DEF Findable
<1>9. w'.key \notin shared' /\ w'.pid # NULL =>
        \E n \in tree' : key'[n] = w'.key
  BY <1>1, <1>3, <1>4, <1>6, Bounds DEF Inv, TreeInv
<1>10. AtHand'
  BY <1>1, <1>3, <1>9, InsertHand DEF AtHand
<1>11. \A n \in Findable(w.key)' : n = w'.x
  BY <1>3, <1>8 DEF Findable
<1>12. QED
  BY <1>3, <1>5, <1>6, <1>7, <1>10, <1>11, SameNodesSettled DEF BoundInv

(* -ENOMEM: a reservation is given up, a publication is lost.              *)
LEMMA InsertNoMemoryBound == ASSUME Inv, BoundInv, InsertNoMemory PROVE BoundInv'
<1>1. /\ SearchDone("insert") /\ ~Found /\ w' = IdleWriter
      /\ UNCHANGED <<key, pid, tree, linked>>
      /\ IF w.pid = NULL THEN UNCHANGED <<reserved, bound, lost, shared>>
         ELSE Bind /\ lost' = lost \cup {w.key}
  BY DEF InsertNoMemory, heapVars, callVars
<1>2. w.key \in Key /\ InHand = {} /\ Findable(w.key) = {}
  BY <1>1, NotFound
<1>3. w'.pc = "idle" /\ InHand' = {}
  BY <1>1 DEF IdleWriter, InHand
<1>4. CASE w.pid = NULL
  <2>1. SameNodes
    BY <1>1, <1>4 DEF SameNodes
  <2>2. QED
    BY <2>1, <1>2, <1>3, SameNodesSettled DEF BoundInv, AtHand
<1>5. CASE w.pid # NULL
  <2>1. Bind /\ lost' = lost \cup {w.key}
    BY <1>1, <1>5
  <2>2. /\ shared' = shared /\ \A k \in Key \ {w.key} : SameCalls(k)
        /\ reserved'[w.key] = reserved[w.key] \ {w.own}
        /\ bound'[w.key] = bound[w.key] \cup {w.own}
    BY <1>2, <1>5, <2>1, Binds DEF Inv
  <2>3. \A k \in Key : k # w.key /\ Settled(k) => Settled(k)'
    BY <1>1, <2>2, OthersSettled
  <2>4. ASSUME NEW k \in Key, k = w.key PROVE Settled(k)'
    <3>1. CASE k \in shared
      BY <3>1, <2>2 DEF Settled
    <3>2. CASE k \notin shared
      <4>1. reserved[k] = {w.pid} /\ bound[k] = {} /\ w.pid = w.own
        BY <1>1, <1>5, <2>4, <3>2, InsertHand
      <4>2. /\ reserved'[k] = {} /\ bound'[k] = {w.own} /\ k \in lost'
            /\ Findable(k)' = {}
        BY <1>1, <1>2, <2>1, <2>2, <2>4, <4>1 DEF Findable
      <4>3. QED
        BY <4>2 DEF Settled, SettledAlone, Holders
    <3>3. QED
      BY <3>1, <3>2
  <2>5. Spoiled' \subseteq shared'
    BY <1>1, <2>2 DEF BoundInv, Spoiled
  <2>6. QED
    BY <1>1, <1>2, <2>3, <2>4, <2>5, SettledAgain
<1>6. QED
  BY <1>4, <1>5

(* Linking a node on a level above the first changes nothing for the       *)
(* callers, and on the first only for its own number.                      *)
LEMMA InsertLinkBound == ASSUME Inv, BoundInv, InsertLink PROVE BoundInv'
<1>1. /\ w.pc = "link" /\ UNCHANGED <<key, pid, tree, reserved, bound, lost, shared>>
      /\ linked' = [linked EXCEPT ![w.i] = linked[w.i] \cup {w.x}]
  BY DEF InsertLink, callVars
<1>2. /\ w'.pc = "link" /\ w'.x = w.x /\ w'.key = w.key /\ w'.pid = w.pid
      /\ w'.own = w.own /\ w'.op = w.op
  BY <1>1 DEF InsertLink, Inv, TypeOK, WriterType
<1>3. /\ w.key \in Key /\ key[w.x] = w.key
      /\ \A n \in Findable(w.key) : n = w.x
  BY <1>1 DEF Inv, WriterInv, BoundInv
<1>4. linked[0] \subseteq linked'[0] /\ linked'[0] \subseteq linked[0] \cup {w.x}
  BY <1>1, Bounds DEF Inv, TypeOK
<1>5. ASSUME NEW k \in Key, k # w.key PROVE Settled(k)'
  <2>1. Settled(k)
    BY <1>5 DEF BoundInv
  <2>2. QED
    BY <2>1, <1>1, <1>3, <1>4, <1>5, OthersSettled DEF SameCalls
<1>6. \A n \in linked'[0] : key'[n] = w.key /\ n \notin tree' => n = w.x
  BY <1>1, <1>3, <1>4 DEF Findable
<1>7. Spoiled' \subseteq shared' /\ AtHand'
  BY <1>1, <1>2, SameHand DEF BoundInv, Spoiled
<1>8. \A n \in Findable(w.key)' : n = w'.x
  BY <1>2, <1>6 DEF Findable
<1>9. QED
  BY <1>1, <1>2, <1>3, <1>5, <1>7, <1>8 DEF BoundInv, InHand

(* The insertion returns: its number is settled with the new node, which   *)
(* the tree takes only as a placeholder unless the number is shared.       *)
LEMMA RbInsertBound == ASSUME Inv, BoundInv, rb_insert_node PROVE BoundInv'
<1> DEFINE added == IF OnTopLevel /\ \A n \in tree : key[n] # w.key
                    THEN {w.x} ELSE {}
<1>1. /\ w.pc = "link" /\ w.i = w.lvl /\ UNCHANGED <<key, pid, linked, lost>>
      /\ tree' = tree \cup added /\ w' = IdleWriter /\ Bind
  BY DEF rb_insert_node, heapVars
<1>2. /\ w.key \in Key /\ w.x \notin tree /\ key[w.x] = w.key /\ pid[w.x] = w.pid
      /\ w.x \in linked[0] /\ \A n \in Findable(w.key) : n = w.x
  <2>1. 0 < w.i
    <3>1. w.lvl >= 1 /\ w.lvl \in Int
      BY <1>1, WriterFields, Bounds DEF Inv, WriterInv
    <3>2. QED
      BY <1>1, <3>1
  <2>2. QED
    BY <1>1, <2>1, Bounds DEF Inv, WriterInv, BoundInv
<1>3. /\ w.own \in Pid /\ w.own # NULL /\ w.pid \in {NULL, w.own}
      /\ w.key \notin shared =>
           /\ w.key \notin lost
           /\ reserved[w.key] = {w.pid} \ {NULL} /\ bound[w.key] = {}
           /\ w.pid # NULL => \E n \in tree : key[n] = w.key
  BY <1>1, Values DEF Inv, WriterInv, BoundInv, AtHand
<1>4. /\ shared' = shared /\ \A k \in Key \ {w.key} : SameCalls(k)
      /\ w.pid = NULL => /\ reserved'[w.key] = reserved[w.key] \cup {w.own}
                         /\ bound'[w.key] = bound[w.key]
      /\ w.pid # NULL => /\ reserved'[w.key] = reserved[w.key] \ {w.own}
                         /\ bound'[w.key] = bound[w.key] \cup {w.own}
  BY <1>1, <1>2, Binds DEF Inv
<1>5. added \subseteq {w.x} /\ (w.key \notin shared /\ w.pid # NULL => added = {})
  BY <1>3
<1> HIDE DEF added
<1>6. Spoiled' \subseteq shared'
  BY <1>1, <1>2, <1>4, <1>5 DEF BoundInv, Spoiled
<1>7. ASSUME NEW k \in Key, k # w.key, Settled(k) PROVE Settled(k)'
  <2>1. Findable(k)' = Findable(k)
    BY <1>1, <1>2, <1>5, <1>7 DEF Findable
  <2>2. \A n \in Findable(k) : n \in linked[0] /\ key[n] = k
    BY DEF Findable
  <2>3. QED
    BY <1>1, <1>4, <1>7, <2>1, <2>2, SettledStays
<1>8. ASSUME NEW k \in Key, k = w.key PROVE Settled(k)'
  <2>1. Findable(k)' \subseteq {w.x}
    BY <1>1, <1>2, <1>8 DEF Findable
  <2>2. CASE k \in shared
    BY <2>2, <1>4 DEF Settled
  <2>3. CASE k \notin shared /\ w.pid = NULL
    <3>1. reserved'[k] = {w.own} /\ bound'[k] = {} /\ k \notin lost'
      BY <1>1, <1>3, <1>4, <1>8, <2>3
    <3>2. /\ w.x \in linked'[0] /\ key'[w.x] = k /\ pid'[w.x] = NULL
      BY <1>1, <1>2, <1>8, <2>3
    <3>3. QED
      BY <2>1, <3>1, <3>2 DEF Settled, SettledAlone, Holders
  <2>4. CASE k \notin shared /\ w.pid # NULL
    <3>1. reserved'[k] = {} /\ bound'[k] = {w.own} /\ k \notin lost'
      BY <1>1, <1>3, <1>4, <1>8, <2>4
    <3>2. w.x \in Findable(k)' /\ pid'[w.x] = w.own
      BY <1>1, <1>2, <1>3, <1>5, <1>8, <2>4 DEF Findable
    <3>3. QED
      BY <3>1, <3>2 DEF Settled, SettledAlone, Holders
  <2>5. QED
    BY <2>2, <2>3, <2>4
<1>9. QED
  BY <1>1, <1>2, <1>6, <1>7, <1>8, SettledAgain

(* A number without findable node is settled when its caller is done.      *)
LEMMA Unbinds ==
  ASSUME TypeOK, w.key \in Key, Unbind, Spoiled \subseteq shared,
         w.key \notin shared => Holders(w.key) \subseteq {w.own},
         UNCHANGED <<key, pid, tree>>
  PROVE  /\ Spoiled' \subseteq shared'
         /\ \A k \in Key \ {w.key} : SameCalls(k)
         /\ \A k \in Key : k = w.key /\ Findable(k)' = {} => Settled(k)'
<1>1. /\ reserved'[w.key] = reserved[w.key] \ {w.own}
      /\ bound'[w.key] = bound[w.key] \ {w.own} /\ w.key \notin lost'
  BY DEF Unbind, TypeOK, CallTypeOK
<1>2. \A k \in Key \ {w.key} : SameCalls(k)
  BY DEF Unbind, TypeOK, CallTypeOK, SameCalls
<1>3. Spoiled' \subseteq shared'
  BY DEF Unbind, Spoiled
<1>4. ASSUME NEW k \in Key, k = w.key, Findable(k)' = {}, k \notin shared'
      PROVE  SettledAlone(k)'
  <2>1. Holders(w.key) \subseteq {w.own}
    BY <1>4 DEF Unbind
  <2>2. reserved'[k] = {} /\ bound'[k] = {}
    BY <1>1, <1>4, <2>1 DEF Holders
  <2>3. QED
    BY <1>1, <1>4, <2>2 DEF SettledAlone, Holders
<1>5. QED
  BY <1>2, <1>3, <1>4 DEF Settled

(* Giving back a number that is not found, as when its publication was     *)
(* lost.                                                                   *)
LEMMA RemoveAbsentBound == ASSUME Inv, BoundInv, RemoveAbsent PROVE BoundInv'
<1>1. /\ SearchDone("remove") /\ ~Found /\ w' = IdleWriter /\ Unbind
      /\ UNCHANGED <<key, pid, tree, linked>>
  BY DEF RemoveAbsent, heapVars
<1>2. w.key \in Key /\ Findable(w.key) = {}
  BY <1>1, SearchFinds
<1>3. /\ Spoiled' \subseteq shared' /\ \A k \in Key \ {w.key} : SameCalls(k)
      /\ \A k \in Key : k = w.key /\ Findable(k)' = {} => Settled(k)'
  BY <1>1, <1>2, Unbinds DEF Inv, BoundInv, AtHand, SearchDone
<1>4. \A k \in Key : k = w.key => Findable(k)' = {}
  BY <1>1, <1>2 DEF Findable
<1>5. \A k \in Key : k # w.key /\ Settled(k) => Settled(k)'
  BY <1>1, <1>3, OthersSettled
<1>6. QED
  BY <1>1, <1>2, <1>3, <1>4, <1>5, SettledAgain

(* Removal takes its findable node in hand.                                *)
LEMMA RemoveFoundBound == ASSUME Inv, BoundInv, RemoveFound PROVE BoundInv'
<1>1. /\ SearchDone("remove") /\ Found /\ tree' = tree \ {Candidate}
      /\ UNCHANGED <<key, pid, linked, reserved, bound, lost, shared>>
  BY DEF RemoveFound, heapVars, callVars
<1>2. /\ Findable(w.key) = {Candidate} /\ w.key \in Key /\ InHand = {}
      /\ Candidate \notin tree
  BY <1>1, SearchFinds, AtCandidate
<1>3. SameNodes
  BY <1>1, <1>2 DEF SameNodes
<1>4. /\ w'.pc = "unlink" /\ w'.key = w.key /\ w'.x = Candidate
      /\ w'.own = w.own
  BY DEF RemoveFound, Inv, TypeOK, WriterType
<1>5. \A n \in linked'[0] : key'[n] = w.key /\ n \notin tree' => n = Candidate
  BY <1>1, <1>2 DEF Findable
<1>6. \A n \in Findable(w.key)' : n = w'.x
  BY <1>4, <1>5 DEF Findable
<1>7. AtHand'
  BY <1>1, <1>4 DEF AtHand, BoundInv, SearchDone, Holders
<1>8. (\A k \in Key : Settled(k)') /\ Spoiled' \subseteq shared'
  BY <1>2, <1>3, SameNodesSettled DEF BoundInv
<1>9. QED
  BY <1>2, <1>4, <1>6, <1>7, <1>8 DEF BoundInv

(* Unlinking a node changes nothing for the other numbers.                 *)
LEMMA RemoveUnlinkBound == ASSUME Inv, BoundInv, RemoveUnlink PROVE BoundInv'
<1>1. /\ w.pc = "unlink" /\ UNCHANGED <<key, pid, tree, reserved, bound, lost, shared>>
      /\ linked' = [linked EXCEPT ![w.i] = linked[w.i] \ {w.x}]
  BY DEF RemoveUnlink, callVars
<1>2. /\ w'.pc = "unlink" /\ w'.x = w.x /\ w'.key = w.key /\ w'.pid = w.pid
      /\ w'.own = w.own /\ w'.op = w.op
  BY <1>1 DEF RemoveUnlink, Inv, TypeOK, WriterType
<1>3. /\ w.key \in Key /\ key[w.x] = w.key
      /\ \A n \in Findable(w.key) : n = w.x
  BY <1>1 DEF Inv, WriterInv, BoundInv
<1>4. linked'[0] \subseteq linked[0] /\ linked[0] \subseteq linked'[0] \cup {w.x}
  BY <1>1, Bounds DEF Inv, TypeOK
<1>5. ASSUME NEW k \in Key, k # w.key PROVE Settled(k)'
  <2>1. Settled(k)
    BY <1>5 DEF BoundInv
  <2>2. QED
    BY <2>1, <1>1, <1>3, <1>4, <1>5, OthersSettled DEF SameCalls
<1>6. \A n \in linked'[0] : key'[n] = w.key /\ n \notin tree' => n = w.x
  BY <1>1, <1>3, <1>4 DEF Findable
<1>7. Spoiled' \subseteq shared' /\ AtHand'
  BY <1>1, <1>2, SameHand DEF BoundInv, Spoiled
<1>8. \A n \in Findable(w.key)' : n = w'.x
  BY <1>2, <1>6 DEF Findable
<1>9. QED
  BY <1>1, <1>2, <1>3, <1>5, <1>7, <1>8 DEF BoundInv, InHand

(* Nor does the lowering of sl->level.                                     *)
LEMMA RemoveShrinkBound == ASSUME Inv, BoundInv, RemoveShrink PROVE BoundInv'
<1>1. /\ w.pc = "unlink" /\ SameNodes
      /\ UNCHANGED <<tree, key, reserved, bound, lost, shared>>
  BY DEF RemoveShrink, SameNodes, heapVars, callVars
<1>2. /\ w'.pc = "call_rcu" /\ w'.x = w.x /\ w'.key = w.key /\ w'.pid = w.pid
      /\ w'.own = w.own
  BY DEF RemoveShrink, Inv, TypeOK, WriterType
<1>3. InHand' = InHand
  BY <1>1, <1>2 DEF InHand
<1>4. /\ Spoiled' \subseteq shared'
      /\ \A k \in Key : Findable(k)' = Findable(k)
      /\ \A k \in Key : Settled(k) => Settled(k)'
  BY <1>1, SameNodesSettled
<1>5. \A n \in Findable(w.key)' : n = w'.x
  BY <1>1, <1>2, <1>4 DEF BoundInv
<1>6. AtHand'
  BY <1>1, <1>2 DEF AtHand, BoundInv, Holders
<1>7. QED
  BY <1>1, <1>2, <1>3, <1>4, <1>5, <1>6 DEF BoundInv

(* A removed node is queued and the caller is done with its number.        *)
LEMMA RemoveCallRcuBound == ASSUME Inv, BoundInv, RemoveCallRcu PROVE BoundInv'
<1>1. /\ w.pc = "call_rcu" /\ w' = IdleWriter /\ Unbind
      /\ UNCHANGED <<key, pid, tree, linked>>
  BY DEF RemoveCallRcu, heapVars
<1>2. /\ w.key \in Key /\ \A n \in Findable(w.key) : n = w.x
      /\ w.x \notin linked[0]
  BY <1>1, Bounds DEF BoundInv, Inv, WriterInv
<1>3. /\ Spoiled' \subseteq shared' /\ \A k \in Key \ {w.key} : SameCalls(k)
      /\ \A k \in Key : k = w.key /\ Findable(k)' = {} => Settled(k)'
  BY <1>1, <1>2, Unbinds DEF Inv, BoundInv, AtHand
<1>4. \A k \in Key : k = w.key => Findable(k)' = {}
  BY <1>1, <1>2 DEF Findable
<1>5. \A k \in Key : k # w.key /\ Settled(k) => Settled(k)'
  BY <1>1, <1>3, OthersSettled
<1>6. QED
  BY <1>1, <1>2, <1>3, <1>4, <1>5, SettledAgain

(* kfree() of a node its grace period is over for.                         *)
LEMMA RcuFreeBound ==
  ASSUME Inv, BoundInv, NEW c \in Node, pid_sl_node_rcu_free(c) PROVE BoundInv'
<1>1. /\ c \in dying /\ Kfree(c)
      /\ UNCHANGED <<tree, linked, reserved, bound, lost, shared, w>>
  BY DEF pid_sl_node_rcu_free, callVars
<1>2. \A n \in linked[0] : n # c /\ n \in Cell
  BY <1>1, CellKeys, Bounds DEF Inv, HeapInv
<1>3. SameNodes
  BY <1>1, <1>2 DEF SameNodes, Kfree, Inv, TypeOK
<1>4. QED
  BY <1>1, <1>3, QuietBound

(* Steps of readers.                                                       *)
LEMMA ReaderBound ==
  ASSUME Inv, BoundInv, NEW t \in Reader,
         (\E k \in Key : ReadBegin(t, k)) \/ ReaderStep(t)
  PROVE  BoundInv'
<1>1. SameNodes
  BY DEF SameNodes, ReadBegin, ReaderStep, Moves, ReadTree, ReadAdvance,
     ReadDescend, ReadLast, pid_rb_skiplist_lookup_rcu,
     pid_rb_skiplist_find_ge_rcu, pid_rb_skiplist_iter_next_rcu, Returns,
     rcu_read_unlock, heapVars, callVars
<1>2. /\ w'.pc = w.pc /\ w'.op = w.op /\ w'.key = w.key /\ w'.pid = w.pid
      /\ w'.own = w.own /\ w'.x = w.x
  <2>1. CASE rcu_read_unlock(t)
    BY <2>1 DEF rcu_read_unlock, Inv, TypeOK, WriterType
  <2>2. CASE UNCHANGED w
    BY <2>2
  <2>3. QED
    BY <2>1, <2>2 DEF ReadBegin, ReaderStep, Moves, ReadTree, ReadAdvance,
       ReadDescend, ReadLast, pid_rb_skiplist_lookup_rcu,
       pid_rb_skiplist_find_ge_rcu, pid_rb_skiplist_iter_next_rcu, Returns
<1>3. QED
  BY <1>1, <1>2, QuietBound

(* pid_rb_skiplist_init() finds every number free, and no node.            *)
LEMMA InitStepBound == ASSUME Inv, BoundInv, pid_rb_skiplist_init PROVE BoundInv'
<1>1. /\ w.pc = "down" /\ w'.pc = "idle" /\ InHand' = {}
      /\ tree' = {} /\ linked'[0] = {} /\ lost' = {} /\ shared' = {}
      /\ reserved' = reserved /\ bound' = bound
  BY Bounds DEF pid_rb_skiplist_init, IdleWriter, InHand, Inv, LevelInv
<1>2. \A k \in Key : reserved'[k] = {} /\ bound'[k] = {}
  BY <1>1 DEF BoundInv, Holders
<1>3. \A k \in Key : Settled(k)'
  BY <1>1, <1>2 DEF Settled, SettledAlone, Holders, Findable
<1>4. Spoiled' = {}
  BY <1>1 DEF Spoiled
<1>5. QED
  BY <1>1, <1>3, <1>4 DEF BoundInv, AtHand

(* Destruction of a list in which every number is free.                    *)
LEMMA DestroyBound ==
  ASSUME Inv, BoundInv, DestroySync \/ DestroyWalk \/ DestroyNode \/ DestroyHeader
  PROVE  BoundInv'
<1>1. /\ UNCHANGED <<reserved, bound, lost, shared>>
      /\ \A k \in Key : Holders(k) = {}
  <2>1. UNCHANGED <<reserved, bound, lost, shared>>
    BY DEF DestroySync, DestroyWalk, DestroyNode, DestroyHeader, callVars
  <2>2. QED
    BY <2>1 DEF DestroySync, DestroyWalk, DestroyNode, DestroyHeader, BoundInv
<1>2. /\ w.pc \in {"idle", "sync", "free"} /\ InHand = {}
      /\ w'.pc \in {"sync", "free", "down"} /\ InHand' = {}
  <2>1. w.pc \in {"idle", "sync", "free"}
    BY DEF DestroySync, DestroyWalk, DestroyNode, DestroyHeader
  <2>2. w'.pc \in {"sync", "free", "down"}
    <3>1. CASE DestroySync
      BY <3>1 DEF DestroySync, IdleWriter
    <3>2. CASE DestroyWalk
      BY <3>2 DEF DestroyWalk, Inv, TypeOK, WriterType
    <3>3. CASE DestroyNode
      BY <3>3 DEF DestroyNode, Inv, TypeOK, WriterType
    <3>4. CASE DestroyHeader
      BY <3>4 DEF DestroyHeader, IdleWriter
    <3>5. QED
      BY <3>1, <3>2, <3>3, <3>4
  <2>3. QED
    BY <2>1, <2>2 DEF InHand
<1>3. \A k \in Key \ shared : k \notin lost /\ Findable(k) = {}
  BY <1>1, <1>2 DEF BoundInv, Settled, SettledAlone, Holders
<1>4. /\ tree' \subseteq tree
      /\ \A n \in tree' : pid'[n] = pid[n] /\ key'[n] = key[n]
      /\ \A n \in linked'[0] : n \in linked[0] /\ key'[n] = key[n]
      /\ \A n \in linked'[0] : n \in tree => n \in tree'
  <2>1. CASE DestroySync \/ DestroyWalk \/ DestroyHeader
    BY <2>1 DEF DestroySync, DestroyWalk, DestroyHeader, heapVars
  <2>2. CASE DestroyNode
    <3>1. /\ Kfree(w.x) /\ tree' = tree \ {w.x}
          /\ linked'[0] = linked[0] \ {w.x}
      BY <2>2, Bounds DEF DestroyNode
    <3>2. linked[0] \subseteq Cell /\ tree \subseteq Cell
      BY CellKeys, Bounds DEF Inv
    <3>3. QED
      BY <3>1, <3>2 DEF Kfree, Inv, TypeOK
  <2>3. QED
    BY <2>1, <2>2
<1>5. Spoiled' \subseteq shared'
  BY <1>1, <1>4 DEF BoundInv, Spoiled
<1>6. \A k \in Key : Settled(k)'
  <2> SUFFICES ASSUME NEW k \in Key, k \notin shared' PROVE SettledAlone(k)'
    BY DEF Settled
  <2>1. Findable(k)' = {}
    BY <1>1, <1>3, <1>4 DEF Findable
  <2>2. QED
    BY <1>1, <1>3, <2>1 DEF SettledAlone, Holders
<1>7. \A k \in Key : Holders(k)' = {}
  BY <1>1 DEF Holders
<1>8. QED
  BY <1>2, <1>5, <1>6, <1>7 DEF BoundInv, AtHand

(* Every step keeps BoundInv.                                              *)
LEMMA NextBound == Inv /\ BoundInv /\ [Next]_vars => BoundInv'
<1> SUFFICES ASSUME Inv, BoundInv, [Next]_vars PROVE BoundInv'
  OBVIOUS
<1>1. ASSUME NEW k \in Key, NEW p \in Pid,
             Reserve(k, p) \/ Publish(k, p) \/ GiveBack(k, p)
      PROVE  BoundInv'
  BY <1>1, CallBound
<1>2. CASE pid_rb_skiplist_init
  BY <1>2, InitStepBound
<1>3. CASE DestroySync
  BY <1>3, DestroyBound
<1>4. CASE WriterStep
  BY <1>4, DestroyBound, SearchBound, InsertReplaceBound, InsertAllocBound,
     InsertNoMemoryBound, InsertLinkBound, RbInsertBound, RemoveAbsentBound,
     RemoveFoundBound, RemoveUnlinkBound, RemoveShrinkBound,
     RemoveCallRcuBound DEF WriterStep
<1>5. ASSUME NEW n \in Node, pid_sl_node_rcu_free(n) PROVE BoundInv'
  BY <1>5, RcuFreeBound
<1>6. ASSUME NEW t \in Reader, NEW c \in ReadCalls, ReadBegin(t, c[2])
      PROVE  BoundInv'
  <2>1. c[2] \in Key
    BY CallAssumption
  <2>2. QED
    BY <1>6, <2>1, ReaderBound
<1>7. ASSUME NEW t \in Reader, ReaderStep(t) PROVE BoundInv'
  BY <1>7, ReaderBound
<1>8. CASE UNCHANGED vars
  <2>1. SameNodes /\ w' = w
    BY <1>8 DEF vars, SameNodes
  <2>2. QED
    BY <2>1, QuietBound
<1>9. QED
  BY <1>1, <1>2, <1>3, <1>4, <1>5, <1>6, <1>7, <1>8 DEF Next

(* Before pid_rb_skiplist_init() every number is free.                     *)
LEMMA InitBound == Init => BoundInv
<1> SUFFICES ASSUME Init PROVE BoundInv
  OBVIOUS
<1>1. /\ w.pc = "down" /\ tree = {} /\ linked[0] = {} /\ lost = {}
      /\ \A k \in Key : reserved[k] = {} /\ bound[k] = {}
  BY Bounds DEF Init, IdleWriter
<1>2. (\A k \in Key : Settled(k)) /\ Spoiled = {}
  BY <1>1 DEF Settled, SettledAlone, Holders, Findable, Spoiled
<1>3. QED
  BY <1>1, <1>2 DEF BoundInv, AtHand, Holders

(* The nodes of every number one call has are those its calls have left,   *)
(* in every reachable state, and the tree has struct pids of shared        *)
(* numbers only.                                                           *)
THEOREM Bindings == Spec => []BoundInv
BY Invariance, InitBound, NextBound, PTL DEF Spec

(* What lookups are to find of a settled number.                           *)
LEMMA SettledBinding ==
  ASSUME Inv, NEW k \in Key, SettledAlone(k), k \notin lost
  PROVE  Binding(k) = bound[k]
<1>1. NULL \notin bound[k]
  BY Values DEF Inv, TypeOK, CallTypeOK
<1>2. ASSUME NEW p \in bound[k] PROVE Binding(k) = bound[k]
  <2>1. PICK n \in Findable(k) : pid[n] = p
    BY <1>2 DEF SettledAlone
  <2>2. \A m \in Findable(k) : m = n
    BY OneFindable
  <2>3. bound[k] = {p}
    BY <1>2 DEF SettledAlone, Holders
  <2>4. QED
    BY <1>1, <2>1, <2>2, <2>3 DEF Binding
<1>3. CASE bound[k] = {}
  <2>1. \A n \in Findable(k) : pid[n] = NULL
    BY <1>3 DEF SettledAlone, Holders
  <2>2. QED
    BY <1>3, <2>1 DEF Binding
<1>4. QED
  BY <1>2, <1>3

(* Between two operations pid_rb_skiplist_lookup_rcu() and its callers see *)
(* exactly what alloc_pid() published and free_pid() has not given back,   *)
(* whether the search started in the tree or at the header, but for the    *)
(* publications pid_rb_skiplist_insert() found no memory for and the       *)
(* numbers alloc_pid() gave to several calls.                              *)
THEOREM Exact == Spec => []IndexExact
<1>1. ASSUME Inv, BoundInv PROVE IndexExact
  <2> SUFFICES ASSUME w.pc = "idle", NEW k \in Key \ (lost \cup shared)
               PROVE  Binding(k) = bound[k]
    BY <1>1 DEF IndexExact, BoundInv
  <2>1. SettledAlone(k)
    BY <1>1 DEF BoundInv, InHand, Settled
  <2>2. QED
    BY <1>1, <2>1, SettledBinding
<1>2. QED
  BY <1>1, Invariance, Bindings, PTL

-----------------------------------------------------------------------------
(* What a reader may rely on in a state that satisfies ReadInv.            *)

(* The types of the reader's history.                                      *)
LEMMA HistoryFields ==
  ASSUME TypeOK, NEW t \in Reader
  PROVE  /\ r[t].stable \subseteq Int /\ r[t].stable \subseteq Key
         /\ r[t].visited \subseteq Int
         /\ r[t].key \in Int /\ r[t].raced \in BOOLEAN /\ r[t].hole \in BOOLEAN
         /\ r[t].torn \in BOOLEAN
         /\ r[t].seen \subseteq Pid /\ r[t].res \in Value
BY KeyAssumption, Pointers DEF TypeOK, ReaderType

(* Linked nodes are protected for every reader, and not private.           *)
LEMMA LinkedKept ==
  ASSUME Inv, NEW t \in Reader, NEW n \in linked[0] \cup tree \cup {Header}
  PROVE  n \in Cell /\ Protected(t, n) /\ n \notin Private
<1>1. tree \subseteq linked[0]
  BY Bounds DEF Inv, TreeInv
<1>2. n \in Cell /\ Protected(t, n)
  BY <1>1, CellKeys, Pointers, Bounds DEF Protected, Inv, HeapInv
<1>3. n \notin Private
  <2> SUFFICES ASSUME w.pc = "link", w.i = 0 PROVE n # w.x
    BY DEF Private
  <2>1. w.x \notin linked[0] /\ w.x \in allocated
    BY Bounds DEF Inv, WriterInv
  <2>2. w.x # Header
    BY <2>1, Pointers DEF Inv, TypeOK
  <2>3. QED
    BY <1>1, <2>1, <2>2
<1>4. QED
  BY <1>2, <1>3

(* A number that is stable in a section is on a node outside the tree, and *)
(* the cells before that node are those below the number.                  *)
LEMMA StableHome ==
  ASSUME Inv, ReadInv, NEW t \in Reading, NEW k \in r[t].stable
  PROVE  \E m \in linked[0] :
           /\ m \in Cell /\ key[m] = k /\ pid[m] \in Pid /\ m \notin tree
           /\ \A n \in Cell : Below(n, k) <=> pos[n] < pos[m]
<1>1. PICK m \in linked[0] : key[m] = k /\ pid[m] \in Pid /\ m \notin tree
  BY DEF ReadInv, HistoryInv, Findable
<1>2. m \in Cell /\ m \notin tree
  BY <1>1, CellKeys, Bounds DEF Inv
<1>3. \A n \in Cell : Below(n, k) <=> Precedes(n, m)
  BY <1>1, <1>2 DEF Below, Precedes
<1>4. QED
  BY <1>1, <1>2, <1>3, Order DEF Inv

(* Between operations on the list a live cell points on in the order of    *)
(* each of its levels, unless it is the node in hand and off that level.   *)
LEMMA LiveUpward ==
  ASSUME Inv, w.pc # "free", NEW n \in (allocated \ dying) \cup {Header},
         NEW i \in Lvl, forward[n][i] # NULL,
         w.pc \in {"unlink", "call_rcu"} /\ n = w.x => n \in linked[i]
  PROVE  forward[n][i] \notin Private /\ Precedes(n, forward[n][i])
<1>0. n \in Cell
  BY Pointers DEF Inv, TypeOK
<1>1. n \in linked[i] \cup {Header}
  <2>1. CASE n = Header
    BY <2>1
  <2>2. CASE n \in allocated \ dying /\ n \notin InHand
    <3>1. n \in linked[0]
      BY <2>2 DEF Inv, HeapInv
    <3>2. height[n] \in Int /\ i \in Int /\ ~(height[n] <= i)
      BY <1>0, <2>2, Bounds DEF Inv, HeapInv, TypeOK
    <3>3. QED
      BY <2>2, <3>1, <3>2, Bounds DEF Inv, LevelInv
  <2>3. CASE n \in allocated \ dying /\ n \in InHand
    <3>1. w.pc \in {"link", "unlink", "call_rcu"} /\ n = w.x
      BY <2>3 DEF InHand
    <3>2. CASE w.pc = "link"
      <4>1. ~(w.i <= i) /\ w.i \in Int /\ i \in Int
        BY <3>1, <3>2, Bounds, WriterFields DEF Inv, WriterInv
      <4>2. QED
        BY <3>1, <3>2, <4>1 DEF Inv, WriterInv
    <3>3. QED
      BY <3>1, <3>2
  <2>4. QED
    BY <2>1, <2>2, <2>3
<1>2. forward[n][i] \in linked[i] /\ pos[n] < pos[forward[n][i]]
  BY <1>1 DEF Inv, ChainInv, IsSuccessor
<1>3. forward[n][i] \in Cell
  BY <1>2, CellKeys DEF Inv
<1>4. forward[n][i] \notin Private
  BY <1>2, Bounds DEF Private, Inv, WriterInv
<1>5. QED
  BY <1>0, <1>2, <1>3, <1>4, Order DEF Inv

(* A protected cell is the header, a linked node, the node being removed,  *)
(* a removed one that is kept, or private.                                 *)
LEMMA CellKinds ==
  ASSUME Inv, NEW t \in Reader, NEW n \in Cell, Protected(t, n), n \notin Private
  PROVE  \/ n \in linked[0] \cup {Header}
         \/ w.pc \in {"unlink", "call_rcu"} /\ n = w.x
         \/ n \in dying /\ t \in gp[n]
<1>1. CASE n = Header \/ n \in dying
  BY <1>1 DEF Protected
<1>2. CASE n \in allocated \ dying /\ n \notin linked[0]
  <2>1. w.pc \in {"link", "unlink", "call_rcu"} /\ n = w.x
    BY <1>2 DEF Inv, HeapInv, InHand
  <2>2. ASSUME w.pc = "link" PROVE FALSE
    <3>1. ~(0 < w.i) /\ w.i >= 0 /\ w.i \in Int
      BY <1>2, <2>1, <2>2, Bounds, WriterFields DEF Inv, WriterInv
    <3>2. w.i = 0
      BY <3>1
    <3>3. QED
      BY <2>1, <2>2, <3>2 DEF Private
  <2>3. QED
    BY <2>1, <2>2
<1>3. CASE n \in linked[0]
  BY <1>3
<1>4. QED
  BY <1>1, <1>2, <1>3 DEF Protected

(* What lies ahead of a reader: wherever it stands, the list goes on in    *)
(* its order, no stable number is skipped, and the pointer of a node with  *)
(* the number it searches for is known.                                    *)
LEMMA Ahead ==
  ASSUME Inv, ReadInv, NEW t \in Reader, t \in Reading, NEW n \in Cell,
         Protected(t, n), n \notin Private
  PROVE  Upward(n) /\ Leads(t, n)
<1>0. w.pc # "free"
  BY DEF Inv, WriterInv, Active, Reading
<1>1. CASE n \in dying /\ t \in gp[n]
  BY <1>1 DEF ReadInv, RemovedInv
<1>2. CASE n \in linked[0] \cup {Header} \/ (w.pc \in {"unlink", "call_rcu"} /\ n = w.x)
  <2>1. n \in (allocated \ dying) \cup {Header}
    BY <1>2, Bounds DEF Inv, HeapInv, WriterInv
  <2>2. Upward(n)
    <3>1. CASE w.pc \in {"unlink", "call_rcu"} /\ n = w.x
      BY <3>1 DEF ReadInv, UnlinkedInv
    <3>2. CASE ~(w.pc \in {"unlink", "call_rcu"} /\ n = w.x)
      BY <1>0, <2>1, <3>2, LiveUpward DEF Upward
    <3>3. QED
      BY <3>1, <3>2
  <2>3. IsSuccessor(n, 0, forward[n][0])
    BY <1>0, <1>2, Bounds DEF Inv, ChainInv, ReadInv, UnlinkedInv
  <2>4. ASSUME NEW k \in r[t].stable, Below(n, k)
        PROVE  forward[n][0] # NULL /\ key[forward[n][0]] <= k
    <3>1. PICK m \in linked[0] : /\ m \in Cell /\ key[m] = k
                                 /\ \A c \in Cell : Below(c, k) <=> pos[c] < pos[m]
      BY StableHome
    <3>2. PICK s : s = forward[n][0]
      OBVIOUS
    <3>3. s # NULL /\ (m = s \/ pos[s] < pos[m]) /\ s \in linked[0]
      BY <2>3, <2>4, <3>1, <3>2 DEF IsSuccessor
    <3>4. s \in Cell /\ key[s] \in Int /\ k \in Int
      BY <3>3, CellKeys, Bounds, HistoryFields DEF Inv
    <3>5. m = s \/ Precedes(s, m)
      BY <3>1, <3>3, <3>4, Order DEF Inv
    <3>6. QED
      BY <3>1, <3>2, <3>3, <3>4, <3>5 DEF Precedes
  <2>5. ASSUME forward[n][0] # NULL, key[forward[n][0]] = r[t].key
        PROVE  Known(t, forward[n][0])
    <3>1. forward[n][0] \in linked[0]
      BY <2>3, <2>5 DEF IsSuccessor
    <3>2. QED
      BY <2>5, <3>1 DEF ReadInv, HistoryInv
  <2>6. QED
    BY <2>2, <2>4, <2>5 DEF Leads
<1>3. QED
  BY <1>1, <1>2, CellKinds

(* A node outside the tree that a reader can stand on and that has a       *)
(* stable number has a struct pid for it.                                  *)
LEMMA StableNode ==
  ASSUME Inv, BoundInv, ReadInv, NEW t \in Reader, t \in Reading, NEW n \in Cell,
         Protected(t, n), n \notin Private, key[n] \in r[t].stable, n \notin tree
  PROVE  pid[n] \in Pid
<1>1. PICK m \in linked[0] : key[m] = key[n] /\ pid[m] \in Pid /\ m \notin tree
  BY StableHome
<1>2. ~(n \in dying /\ t \in gp[n])
  BY DEF ReadInv, RemovedInv
<1>3. n # Header
  BY HistoryFields, KeyAssumption DEF Inv, HeapInv
<1>4. CASE n \in linked[0]
  BY <1>1, <1>4 DEF Inv, TreeInv
<1>5. CASE w.pc \in {"unlink", "call_rcu"} /\ n = w.x
  <2>1. key[m] = w.key
    BY <1>1, <1>5 DEF ReadInv, UnlinkedInv
  <2>2. m = n
    BY <1>1, <1>5, <2>1 DEF BoundInv, Findable
  <2>3. QED
    BY <1>1, <2>2
<1>6. QED
  BY <1>2, <1>3, <1>4, <1>5, CellKinds

-----------------------------------------------------------------------------
(* Steps of the writer and of RCU, as the readers see them.                *)

(* Reader t is where it was, and its history has only grown.               *)
Stays(t) ==
  /\ r'[t].pc = r[t].pc /\ r'[t].x = r[t].x /\ r'[t].next = r[t].next
  /\ r'[t].op = r[t].op /\ r'[t].key = r[t].key /\ r'[t].res = r[t].res
  /\ r'[t].visited = r[t].visited /\ r'[t].hole = r[t].hole
  /\ r'[t].torn = r[t].torn
  /\ r'[t].stable \subseteq r[t].stable /\ r[t].seen \subseteq r'[t].seen
  /\ r[t].raced => r'[t].raced

(* The numbers of which the tree has a struct pid stay, while there are    *)
(* readers, as long as its nodes do.                                       *)
LEMMA SpoiledStays ==
  ASSUME tree \subseteq tree',
         \A n \in tree : key'[n] = key[n] /\ pid'[n] = pid[n]
  PROVE  Spoiled \subseteq Spoiled'
BY DEF Spoiled

(* What t knows of a node whose pointer does not change it goes on to know.*)
LEMMA KnownStays ==
  ASSUME NEW t \in Reader, Stays(t), Spoiled \subseteq Spoiled', NEW n,
         pid'[n] = pid[n], Known(t, n)
  PROVE  Known(t, n)'
BY DEF Stays, Known

(* The cells t may stand on keep their keys and do not become private; no  *)
(* struct pid gives way to NULL, and the pointer of a node with the number *)
(* t searches for stays one that is known.                                 *)
Keeps(t) ==
  \A c \in Cell :
    Protected(t, c) /\ c \notin Private =>
      /\ c \notin Private' /\ key'[c] = key[c]
      /\ pid[c] \in Pid => pid'[c] \in Pid
      /\ key[c] = r[t].key /\ Known(t, c) => Known(t, c)'

(* A reader between its two loads finds what it would have found, or       *)
(* nothing below the number it searches for, or has been raced.            *)
SameWindow(t) ==
  InWindow(t) /\ ~r'[t].raced /\ forward'[r[t].x][0] # NULL =>
    \/ forward'[r[t].x][0] = forward[r[t].x][0]
    \/ key'[forward'[r[t].x][0]] >= r[t].key

(* The linked nodes bear out the history of t.                             *)
Bears(t) ==
  /\ \A k \in r'[t].stable : \E m \in Findable(k)' : pid'[m] \in Pid
  /\ \A n \in linked'[0] : key'[n] = r[t].key => Known(t, n)'

(* A reader that stays keeps its part of the invariant.                    *)
LEMMA ReaderStays ==
  ASSUME Inv, Inv', ReadInv, NEW t \in Reader, tree' = tree,
         Spoiled \subseteq Spoiled',
         Stays(t), t \in Reading => Keeps(t) /\ SameWindow(t)
  PROVE  WalkInv(t)' /\ EvalInv(t)' /\ DoneInv(t)'
<1>1. WalkInv(t)'
  <2> SUFFICES ASSUME r[t].pc \in {"walk", "last"} PROVE WalkInv(t)'
    BY DEF WalkInv, Stays
  <2>0. t \in Reading
    BY DEF Reading
  <2>1. /\ r[t].x \in Cell /\ Protected(t, r[t].x) /\ r[t].x \notin Private
    BY ReaderX DEF ReadInv, WalkInv
  <2>2. /\ r[t].x \notin Private' /\ key'[r[t].x] = key[r[t].x]
        /\ pid[r[t].x] \in Pid => pid'[r[t].x] \in Pid
    BY <2>0, <2>1 DEF Keeps
  <2>3. ASSUME InWindow(t), ~r'[t].raced, forward'[r[t].x][0] # NULL
        PROVE  key'[forward'[r[t].x][0]] >= r[t].key
    <3>1. CASE forward'[r[t].x][0] = forward[r[t].x][0]
      <4>1. Protected(t, forward[r[t].x][0]) /\ forward[r[t].x][0] \in Cell
        BY <2>1, <2>3, <3>1, Closure, CellKeys, Bounds, Pointers DEF Inv
      <4>2. forward[r[t].x][0] \notin Private
        BY <2>0, <2>1, <2>3, <3>1, Ahead, Bounds DEF Upward
      <4>3. key'[forward[r[t].x][0]] = key[forward[r[t].x][0]]
        BY <2>0, <4>1, <4>2 DEF Keeps
      <4>4. ~r[t].raced
        BY <2>3 DEF Stays
      <4>5. QED
        BY <2>3, <3>1, <4>3, <4>4 DEF ReadInv, WalkInv
    <3>2. QED
      BY <2>0, <2>3, <3>1 DEF SameWindow
  <2>4. InWindow(t)' => InWindow(t)
    BY DEF InWindow, Stays
  <2>5. /\ Below(r[t].x, r[t].key) => Below(r[t].x, r[t].key)'
        /\ \A k \in r[t].stable : Below(r[t].x, k) => Below(r[t].x, k)'
    BY <2>2 DEF Below, Stays
  <2>6. \A n \in tree : key'[n] = key[n]
    BY <2>0, LinkedKept DEF Keeps
  <2>7. WalkInv(t)
    BY DEF ReadInv
  <2>8. /\ r'[t].x = r[t].x /\ r'[t].key = r[t].key /\ r'[t].pc = r[t].pc
        /\ r'[t].op = r[t].op /\ r'[t].torn = r[t].torn
        /\ r'[t].visited = r[t].visited /\ r'[t].stable \subseteq r[t].stable
    BY DEF Stays
  <2>9. /\ r[t].visited = {} => Below(r[t].x, r[t].key)'
        /\ r[t].visited # {} => /\ r[t].pc = "last" /\ r[t].op = "iter"
                                /\ pid'[r[t].x] \in Pid
        /\ \A j \in r[t].visited : j <= key'[r[t].x]
        /\ \A k \in r'[t].stable : k \in r[t].visited \/ Below(r[t].x, k)'
    BY <2>2, <2>5, <2>7, <2>8 DEF WalkInv
  <2>10. r[t].visited = {} /\ ~r[t].torn /\ r[t].key \in r'[t].stable =>
           \A n \in tree : key'[n] = r[t].key => r[t].x = n
    BY <2>6, <2>7, <2>8 DEF WalkInv
  <2>11. InWindow(t)' /\ ~r'[t].raced /\ forward'[r[t].x][0] # NULL =>
           key'[forward'[r[t].x][0]] >= r[t].key
    BY <2>3, <2>4
  <2>12. QED
    BY <2>2, <2>8, <2>9, <2>10, <2>11 DEF WalkInv
<1>2. EvalInv(t)'
  <2> SUFFICES ASSUME r[t].pc = "eval" PROVE EvalInv(t)'
    BY DEF EvalInv, Stays
  <2>0. t \in Reading
    BY DEF Reading
  <2>1. CASE r[t].next = NULL
    <3>1. NULL \notin Private'
      BY Pointers DEF Inv, WriterInv, TypeOK, Private
    <3>2. QED
      BY <2>1, <3>1 DEF ReadInv, EvalInv, Stays
  <2>2. CASE r[t].next # NULL
    <3>1. /\ r[t].next \in Cell /\ Protected(t, r[t].next)
          /\ r[t].next \notin Private
      BY <2>2, ReaderNext DEF ReadInv, EvalInv
    <3>2. /\ r[t].next \notin Private' /\ key'[r[t].next] = key[r[t].next]
          /\ key[r[t].next] = r[t].key /\ Known(t, r[t].next) =>
               Known(t, r[t].next)'
      BY <2>0, <3>1 DEF Keeps, Stays, Known
    <3>3. EvalInv(t)
      BY DEF ReadInv
    <3>4. QED
      BY <2>2, <3>2, <3>3 DEF EvalInv, Stays
  <2>3. QED
    BY <2>1, <2>2
<1>3. DoneInv(t)'
  BY DEF ReadInv, DoneInv, Stays
<1>4. QED
  BY <1>1, <1>2, <1>3

(* Removed nodes that stay queued keep their part of the invariant.        *)
LEMMA RemovedStay ==
  ASSUME Inv, ReadInv, NEW n \in dying, NEW t \in gp[n], t \in Reading,
         forward'[n] = forward[n], tree' = tree,
         r'[t].key = r[t].key, r'[t].stable \subseteq r[t].stable, Keeps(t)
  PROVE  Upward(n)' /\ key'[n] \notin r'[t].stable /\ Leads(t, n)'
<1>1. n \in Cell /\ Protected(t, n) /\ t \in Reader /\ r[t].pc # "idle"
  BY CellKeys, Pointers DEF Inv, HeapInv, RcuInv, Reading, Protected, TypeOK
<1>2. n \notin Private
  BY WriterFields DEF Inv, WriterInv, Private
<1>3. key'[n] = key[n] /\ n \notin Private'
  BY <1>1, <1>2 DEF Keeps
<1>4. Upward(n) /\ key[n] \notin r[t].stable /\ Leads(t, n)
  BY DEF ReadInv, RemovedInv
<1>5. ASSUME NEW i \in Lvl, forward[n][i] # NULL
      PROVE  /\ forward[n][i] \in Cell /\ Protected(t, forward[n][i])
             /\ forward[n][i] \notin Private
             /\ forward[n][i] \notin Private'
             /\ key'[forward[n][i]] = key[forward[n][i]]
  <2>1. forward[n][i] \in Cell /\ Protected(t, forward[n][i])
    BY <1>1, <1>5, Closure, CellKeys, Pointers DEF Inv
  <2>2. forward[n][i] \notin Private
    BY <1>4, <1>5 DEF Upward
  <2>3. QED
    BY <2>1, <2>2 DEF Keeps
<1>6. Upward(n)'
  BY <1>3, <1>4, <1>5 DEF Upward, Precedes
<1>7. forward[n][0] # NULL /\ key[forward[n][0]] = r[t].key =>
        Known(t, forward[n][0])'
  BY <1>4, <1>5, Bounds DEF Keeps, Leads, Known
<1>8. Leads(t, n)'
  BY <1>3, <1>4, <1>5, <1>7, Bounds DEF Leads, Below
<1>9. QED
  BY <1>3, <1>4, <1>6, <1>8

(* A step of the writer or of RCU under which readers and the tree stay,   *)
(* and that queues no node, keeps ReadInv if the linked nodes bear it out. *)
LEMMA WriterReads ==
  ASSUME Inv, Inv', ReadInv, UnlinkedInv', tree' = tree,
         Spoiled \subseteq Spoiled',
         \A t \in Reader :
           Stays(t) /\ (t \in Reading => Keeps(t) /\ SameWindow(t) /\ Bears(t)),
         dying' \subseteq dying,
         \A n \in dying' : gp'[n] \subseteq gp[n] /\ forward'[n] = forward[n]
  PROVE  ReadInv'
<1>0. Reading' = Reading /\ Reading \subseteq Reader
  BY DEF Reading, Stays
<1>1. ASSUME NEW n \in dying', NEW t \in gp'[n] \cap Reading
      PROVE  Upward(n)' /\ key'[n] \notin r'[t].stable /\ Leads(t, n)'
  <2>1. n \in dying /\ t \in gp[n] /\ forward'[n] = forward[n]
    BY <1>1
  <2>2. t \in Reader /\ t \in Reading
    BY <1>0, <1>1
  <2>3. QED
    BY <2>1, <2>2, RemovedStay DEF Stays
<1>2. RemovedInv'
  BY <1>0, <1>1 DEF RemovedInv
<1>3. \A t \in Reader : WalkInv(t)' /\ EvalInv(t)' /\ DoneInv(t)'
  BY ReaderStays
<1>4. HistoryInv'
  <2> SUFFICES ASSUME NEW t \in Reading
               PROVE  /\ r'[t].key \in Key
                      /\ \A k \in r'[t].stable :
                           k >= r'[t].key /\ \E m \in Findable(k)' : pid'[m] \in Pid
                      /\ \A n \in linked'[0] : key'[n] = r'[t].key => Known(t, n)'
                      /\ r'[t].pc = "tree" => r'[t].visited = {}
    BY <1>0 DEF HistoryInv
  <2>1. Stays(t) /\ Bears(t)
    BY <1>0
  <2>2. QED
    BY <2>1 DEF Stays, Bears, ReadInv, HistoryInv
<1>5. QED
  BY <1>2, <1>3, <1>4 DEF ReadInv

(* Steps of the writer that store nothing but its own locals, or sl->level *)
(* with them.                                                              *)
LEMMA LocalReads ==
  ASSUME Inv, Inv', ReadInv,
         UNCHANGED <<heapVars, tree, rcuVars, linked, r>>,
         Private = {}, Private' = {}, UnlinkedInv'
  PROVE  ReadInv'
<1>1. UNCHANGED <<key, pid, height, forward, allocated, tree, dying, gp, linked, r>>
  BY DEF heapVars, rcuVars
<1>2. Spoiled' = Spoiled
  BY <1>1 DEF Spoiled
<1>3. \A t \in Reader : Stays(t) /\ Keeps(t) /\ SameWindow(t)
  BY <1>1, <1>2 DEF Stays, Keeps, SameWindow, Known
<1>4. \A t \in Reading : Bears(t)
  BY <1>1, <1>2 DEF ReadInv, HistoryInv, Bears, Findable, Known
<1>5. QED
  BY <1>1, <1>2, <1>3, <1>4, WriterReads

(* Without readers there is nothing to keep but the node in hand.          *)
LEMMA NoReaders ==
  ASSUME Inv, Active = {}, UnlinkedInv
  PROVE  ReadInv
<1>0. Reading = {}
  BY DEF Active, Reading
<1>1. HistoryInv
  BY <1>0 DEF HistoryInv
<1>2. RemovedInv
  BY <1>0 DEF RemovedInv
<1>3. \A t \in Reader : WalkInv(t) /\ EvalInv(t) /\ DoneInv(t)
  BY DEF Active, WalkInv, EvalInv, DoneInv
<1>4. QED
  BY <1>1, <1>2, <1>3 DEF ReadInv

(* pid_rb_skiplist_init(), and pid_rb_skiplist_destroy() once it frees,    *)
(* meet no reader.                                                         *)
LEMMA UnsharedReads ==
  ASSUME Inv, Inv',
         pid_rb_skiplist_init \/ DestroyWalk \/ DestroyNode \/ DestroyHeader
  PROVE  ReadInv'
<1>1. w'.pc \notin {"unlink", "call_rcu"} /\ r' = r /\ Active' = {}
  <2>1. CASE pid_rb_skiplist_init
    BY <2>1 DEF pid_rb_skiplist_init, IdleWriter, Inv, WriterInv, Active
  <2>2. CASE DestroyWalk
    <3>1. w'.pc = "free" /\ r' = r
      BY <2>2 DEF DestroyWalk, Inv, TypeOK, WriterType
    <3>2. QED
      BY <3>1 DEF Inv, WriterInv
  <2>3. CASE DestroyNode
    <3>1. w'.pc = "free" /\ r' = r
      BY <2>3 DEF DestroyNode, Inv, TypeOK, WriterType
    <3>2. QED
      BY <3>1 DEF Inv, WriterInv
  <2>4. CASE DestroyHeader
    BY <2>4 DEF DestroyHeader, IdleWriter, Inv, WriterInv, Active
  <2>5. QED
    BY <2>1, <2>2, <2>3, <2>4
<1>2. UnlinkedInv' /\ (Active = {})'
  BY <1>1 DEF UnlinkedInv
<1>3. QED
  BY <1>2, NoReaders, PTL

(* The history of the readers a change of a binding overlaps.              *)
LEMMA HistoryGrows ==
  ASSUME TypeOK, NEW k \in Key, NEW v \in Value, NEW b \in BOOLEAN,
         Observe(k, v, b), NEW t \in Reader
  PROVE  /\ Stays(t)
         /\ t \in Reading =>
              /\ k = r[t].key /\ v \in Pid => v \in r'[t].seen
              /\ v \notin Pid => k \notin r'[t].stable
              /\ b /\ k < r[t].key /\ InWindow(t) => r'[t].raced
<1>1. r[t] \in ReaderType
  BY DEF TypeOK
<1>2. CASE t \notin Reading
  BY <1>2 DEF Observe, Stays, Reading
<1>3. CASE t \in Reading
  <2> DEFINE seen == IF k = r[t].key /\ v \in Pid THEN r[t].seen \cup {v}
                     ELSE r[t].seen
             stable == IF v \in Pid THEN r[t].stable ELSE r[t].stable \ {k}
             raced == r[t].raced \/ (b /\ k < r[t].key /\ InWindow(t))
  <2>1. r'[t] = [r[t] EXCEPT !.seen = seen, !.stable = stable, !.raced = raced]
    BY <1>3 DEF Observe, Reading
  <2>2. /\ r[t].seen \subseteq seen /\ stable \subseteq r[t].stable
        /\ r[t].raced => raced
        /\ k = r[t].key /\ v \in Pid => v \in seen
        /\ v \notin Pid => k \notin stable
        /\ b /\ k < r[t].key /\ InWindow(t) => raced
    OBVIOUS
  <2> HIDE DEF seen, stable, raced
  <2>3. /\ r'[t].seen = seen /\ r'[t].stable = stable /\ r'[t].raced = raced
        /\ r'[t].pc = r[t].pc /\ r'[t].x = r[t].x /\ r'[t].next = r[t].next
        /\ r'[t].op = r[t].op /\ r'[t].key = r[t].key /\ r'[t].res = r[t].res
        /\ r'[t].visited = r[t].visited /\ r'[t].hole = r[t].hole
        /\ r'[t].torn = r[t].torn
    BY <1>1, <2>1 DEF ReaderType
  <2>4. QED
    BY <2>2, <2>3 DEF Stays
<1>4. QED
  BY <1>2, <1>3

(* The writer's steps between its stores.                                  *)
LEMMA QuietReads ==
  ASSUME Inv, Inv', BoundInv, ReadInv,
         \/ \E k \in Key, p \in Pid : Reserve(k, p) \/ Publish(k, p) \/ GiveBack(k, p)
         \/ DestroySync \/ SearchAdvance \/ SearchDescend
         \/ InsertNoMemory \/ RemoveAbsent
  PROVE  ReadInv'
<1>1. UNCHANGED <<heapVars, tree, rcuVars, linked, r>>
  BY DEF Reserve, GiveBack, Publish, BeginWrite, DestroySync,
     SearchAdvance, SearchDescend, InsertNoMemory, RemoveAbsent
<1>2. w.pc \in {"idle", "search"}
  BY DEF Reserve, GiveBack, Publish, BeginWrite, DestroySync,
     SearchAdvance, SearchDescend, InsertNoMemory, RemoveAbsent, SearchDone
<1>3. w'.pc \in {"idle", "search", "sync"}
  <2>1. CASE InsertNoMemory \/ RemoveAbsent
    BY <2>1 DEF InsertNoMemory, RemoveAbsent, IdleWriter
  <2>2. CASE SearchAdvance \/ SearchDescend
    BY <2>2 DEF SearchAdvance, SearchDescend, Inv, TypeOK, WriterType
  <2>3. ASSUME NEW k, NEW p, NEW o, NEW h, BeginWrite(o, k, p, h) PROVE w'.pc = "search"
    BY <2>3 DEF BeginWrite, IdleWriter
  <2>4. CASE DestroySync
    BY <2>4 DEF DestroySync, IdleWriter
  <2>5. QED
    BY <2>1, <2>2, <2>3, <2>4 DEF Reserve, GiveBack, Publish
<1>4. Private = {} /\ Private' = {} /\ UnlinkedInv'
  BY <1>2, <1>3 DEF Private, UnlinkedInv
<1>5. QED
  BY <1>1, <1>4, LocalReads

(* The node remove has found points to its successor; it is not in the     *)
(* tree, so that nothing is erased there.                                  *)
LEMMA FoundReads ==
  ASSUME Inv, Inv', BoundInv, ReadInv, RemoveFound PROVE ReadInv'
<1>1. /\ UNCHANGED <<key, pid, height, forward, allocated, dying, gp, linked, r>>
      /\ w.pc = "search" /\ tree' = tree \ {Candidate}
      /\ Candidate \in linked[0] /\ Candidate \notin tree /\ key[Candidate] = w.key
  BY AtCandidate DEF RemoveFound, SearchDone, Found, heapVars, rcuVars
<1>2. /\ w'.pc = "unlink" /\ w'.i = 0 /\ w'.x = Candidate /\ w'.key = w.key
  BY DEF RemoveFound, Inv, TypeOK, WriterType
<1>3. Private = {} /\ Private' = {} /\ tree' = tree
  BY <1>1, <1>2 DEF Private
<1>0. PICK x : x = Candidate
  OBVIOUS
<1>4. /\ x \in allocated' \ dying' /\ x \in Cell
      /\ \A j \in Lvl : x \in linked'[j] <=> 0 <= j /\ j < height'[x]
  <2>1. x \in Cell
    BY <1>0, <1>1, CellKeys, Bounds DEF Inv
  <2>2. QED
    BY <1>0, <1>2, <2>1 DEF Inv, WriterInv
<1>5. x \in linked'[0]
  BY <1>0, <1>1
<1>6. Upward(x)'
  <2> SUFFICES ASSUME NEW i \in Lvl, forward'[x][i] # NULL
               PROVE  forward'[x][i] \notin Private' /\ Precedes(x, forward[x][i])'
    BY DEF Upward
  <2>1. height'[x] \in Int /\ i \in Int /\ i >= 0
    BY <1>4, Bounds DEF Inv, TypeOK
  <2>2. ~(height'[x] <= i)
    BY <1>4 DEF Inv, HeapInv
  <2>3. x \in linked'[i]
    BY <1>4, <2>1, <2>2
  <2>4. forward'[x][i] \in linked'[i] /\ pos'[x] < pos'[forward'[x][i]]
    BY <1>2, <2>3 DEF Inv, ChainInv, IsSuccessor
  <2>5. forward[x][i] \in Cell
    BY <1>1, <2>4, CellKeys DEF Inv
  <2>6. pos' = pos
    BY <1>1, <1>3, SameOrder
  <2>7. Precedes(x, forward[x][i])
    BY <1>1, <1>4, <2>4, <2>5, <2>6, Order DEF Inv
  <2>8. QED
    BY <1>1, <1>3, <2>7 DEF Precedes
<1>7. IsSuccessor(x, 0, forward[x][0])'
  BY <1>2, <1>5, Bounds DEF Inv, ChainInv
<1>8. UnlinkedInv'
  BY <1>0, <1>1, <1>2, <1>3, <1>6, <1>7 DEF UnlinkedInv
<1>9. QED
  BY <1>1, <1>3, <1>8, LocalReads DEF heapVars, rcuVars

(* Dropping empty levels moves nothing.                                    *)
LEMMA ShrinkReads ==
  ASSUME Inv, Inv', BoundInv, ReadInv, RemoveShrink PROVE ReadInv'
<1>1. /\ UNCHANGED <<key, pid, height, forward, allocated, tree, dying, gp, linked, r>>
      /\ w.pc = "unlink"
  BY DEF RemoveShrink, heapVars, rcuVars
<1>2. w'.pc = "call_rcu" /\ w'.x = w.x /\ w'.key = w.key
  BY DEF RemoveShrink, Inv, TypeOK, WriterType
<1>3. Private = {} /\ Private' = {} /\ pos' = pos
  BY <1>1, <1>2, SameOrder DEF Private
<1>4. UnlinkedInv'
  BY <1>1, <1>2, <1>3
     DEF ReadInv, UnlinkedInv, Upward, Precedes, IsSuccessor
<1>5. QED
  BY <1>1, <1>3, <1>4, LocalReads DEF heapVars, rcuVars

(* The pointer of a findable node gives way to a struct pid, which the     *)
(* readers that search for the number have seen, or it was and is NULL.    *)
LEMMA ReplaceReads ==
  ASSUME Inv, Inv', BoundInv, ReadInv, InsertReplace PROVE ReadInv'
<1>1. UNCHANGED <<level, key, height, forward, tree, allocated, dying, gp, linked>>
  BY DEF InsertReplace, rcuVars
<1>2. /\ w.pc = "search" /\ w.key \in Key /\ w.pid \in Value /\ w'.pc = "idle"
      /\ Candidate \in linked[0] /\ key[Candidate] = w.key /\ Candidate \in Cell
  BY WriterFields, AtCandidate, Bounds, CellKeys
     DEF InsertReplace, SearchDone, Found, Inv, WriterInv, IdleWriter
<1>3. Private = {} /\ Private' = {} /\ UnlinkedInv'
  BY <1>2 DEF Private, UnlinkedInv
<1>4. pid'[Candidate] = w.pid /\ \A c \in Cell : c # Candidate => pid'[c] = pid[c]
  BY <1>2 DEF InsertReplace, Inv, TypeOK
<1>5. Observe(w.key, w.pid, FALSE)
  BY DEF InsertReplace
<1>6. ASSUME NEW t \in Reader
      PROVE  /\ Stays(t)
             /\ t \in Reading /\ w.key = r[t].key /\ w.pid \in Pid =>
                  w.pid \in r'[t].seen
  BY <1>2, <1>5, HistoryGrows DEF Inv
<1>7. Candidate \notin tree /\ (w.pid \in Pid \/ (w.pid = NULL /\ pid[Candidate] = NULL))
  <2>1. Findable(w.key) = {Candidate} /\ w.op = "insert"
    BY SearchFinds DEF InsertReplace, SearchDone
  <2>2. w.pid = NULL => pid[Candidate] = NULL
    BY <1>2, <2>1 DEF BoundInv, Binding
  <2>3. QED
    BY <1>2, <2>1, <2>2, Values DEF Findable
<1>8. Spoiled \subseteq Spoiled'
  <2>1. \A n \in tree : pid'[n] = pid[n]
    BY <1>4, <1>7, CellKeys DEF Inv
  <2>2. QED
    BY <1>1, <2>1, SpoiledStays
<1>9. ASSUME NEW t \in Reader, t \in Reading, NEW n \in Cell, key[n] = r[t].key,
             Known(t, n)
      PROVE  Known(t, n)'
  <2>1. CASE n = Candidate
    BY <1>2, <1>4, <1>6, <1>7, <1>9, <2>1 DEF Known
  <2>2. CASE n # Candidate
    BY <1>4, <1>6, <1>8, <1>9, <2>2, KnownStays
  <2>3. QED
    BY <2>1, <2>2
<1>10. ASSUME NEW t \in Reader, t \in Reading
       PROVE  Keeps(t) /\ SameWindow(t) /\ Bears(t)
  <2>1. SameWindow(t)
    BY <1>1 DEF SameWindow
  <2>2. \A c \in Cell : pid[c] \in Pid => pid'[c] \in Pid
    BY <1>4, <1>7, Values
  <2>3. Keeps(t)
    BY <1>1, <1>3, <1>9, <1>10, <2>2 DEF Keeps
  <2>4. ASSUME NEW k \in r'[t].stable
        PROVE  \E m \in Findable(k)' : pid'[m] \in Pid
    <3>1. k \in r[t].stable
      BY <1>6 DEF Stays
    <3>2. PICK m \in Findable(k) : pid[m] \in Pid
      BY <1>10, <3>1 DEF ReadInv, HistoryInv
    <3>3. m \in Cell /\ m \in Findable(k)'
      BY <1>1, CellKeys, Bounds DEF Inv, Findable
    <3>4. QED
      BY <2>2, <3>2, <3>3
  <2>5. ASSUME NEW n \in linked[0], key[n] = r[t].key PROVE Known(t, n)'
    BY <1>9, <1>10, <2>5, CellKeys, Bounds DEF Inv, ReadInv, HistoryInv
  <2>6. QED
    BY <1>1, <2>1, <2>3, <2>4, <2>5 DEF Bears
<1>11. QED
  BY <1>1, <1>3, <1>6, <1>8, <1>10, WriterReads

(* No reader can stand on a cell that is just being handed out.            *)
LEMMA AllocReads ==
  ASSUME Inv, Inv', BoundInv, ReadInv, InsertAlloc PROVE ReadInv'
<1>1. UNCHANGED <<tree, dying, gp, linked, r>> /\ w.pc = "search"
  BY DEF InsertAlloc, SearchDone, rcuVars
<1>2. PICK n \in Node \ allocated :
        /\ w'.pc = "link" /\ w'.x = n /\ w'.i = 0
        /\ \A c \in Cell : c # n => /\ key'[c] = key[c] /\ pid'[c] = pid[c]
                                    /\ forward'[c] = forward[c]
  <2>1. PICK lvl \in 1 .. PID_SL_MAX_LEVEL, n \in Node \ allocated :
          /\ key' = [key EXCEPT ![n] = w.key]
          /\ pid' = [pid EXCEPT ![n] = w.pid]
          /\ forward' = [forward EXCEPT ![n] = Empty]
          /\ w' = [w EXCEPT !.pc = "link", !.lvl = lvl, !.x = n, !.i = 0,
                            !.update = [i \in Lvl |-> IF i \in level .. lvl - 1
                                                      THEN Header ELSE @[i]]]
    BY DEF InsertAlloc
  <2>2. w'.pc = "link" /\ w'.x = n /\ w'.i = 0
    BY <2>1 DEF Inv, TypeOK, WriterType
  <2>3. \A c \in Cell : c # n => /\ key'[c] = key[c] /\ pid'[c] = pid[c]
                                /\ forward'[c] = forward[c]
    BY <2>1 DEF Inv, TypeOK
  <2>4. QED
    BY <2>2, <2>3
<1>3. Private = {} /\ Private' = {n} /\ UnlinkedInv'
  BY <1>1, <1>2 DEF Private, UnlinkedInv
<1>4. n # Header /\ n \notin linked[0] /\ n \notin dying
  BY <1>2, Pointers, Bounds DEF Inv, HeapInv
<1>5. \A m \in linked[0] : key'[m] = key[m] /\ pid'[m] = pid[m]
  BY <1>2, <1>4, CellKeys, Bounds DEF Inv
<1>6. Spoiled' = Spoiled
  BY <1>1, <1>5, Bounds DEF Inv, TreeInv, Spoiled
<1>7. ASSUME NEW t \in Reader, t \in Reading
      PROVE  Keeps(t) /\ SameWindow(t)
  <2>1. Keeps(t)
    BY <1>1, <1>2, <1>3, <1>4, <1>6 DEF Keeps, Protected, Known
  <2>2. SameWindow(t)
    <3>1. ASSUME InWindow(t) PROVE forward'[r[t].x] = forward[r[t].x]
      <4>1. r[t].x \in Cell /\ Protected(t, r[t].x)
        BY <3>1, ReaderX DEF InWindow
      <4>2. QED
        BY <1>2, <1>4, <4>1 DEF Protected
    <3>2. QED
      BY <3>1 DEF SameWindow
  <2>3. QED
    BY <2>1, <2>2
<1>8. \A t \in Reading : Bears(t)
  BY <1>1, <1>5, <1>6 DEF ReadInv, HistoryInv, Bears, Findable, Known
<1>9. \A m \in dying : forward'[m] = forward[m]
  BY <1>2, <1>4, CellKeys DEF Inv
<1>10. \A t \in Reader : Stays(t)
  BY <1>1 DEF Stays
<1>11. QED
  BY <1>1, <1>3, <1>7, <1>8, <1>9, <1>10, <1>6, WriterReads

(* kfree() after the grace period touches no cell a reader can stand on.   *)
LEMMA RcuFreeReads ==
  ASSUME Inv, Inv', BoundInv, ReadInv, NEW n \in Node, pid_sl_node_rcu_free(n)
  PROVE  ReadInv'
<1>1. UNCHANGED <<tree, gp, linked, w, r>> /\ n \in dying /\ gp[n] = {}
      /\ dying' = dying \ {n}
  BY DEF pid_sl_node_rcu_free
<1>2. \A c \in Cell : c # n => /\ key'[c] = key[c] /\ pid'[c] = pid[c]
                              /\ forward'[c] = forward[c]
  BY DEF pid_sl_node_rcu_free, Kfree, Inv, TypeOK
<1>3. /\ n # Header /\ \A i \in Lvl : n \notin linked[i]
      /\ w.pc \in {"unlink", "call_rcu"} => w.x # n
  BY <1>1, Pointers DEF Inv, HeapInv, WriterInv
<1>4. Private' = Private
  BY <1>1 DEF Private
<1>5. ASSUME NEW t \in Reader, NEW c \in Cell, Protected(t, c) PROVE c # n
  BY <1>1, <1>3, <1>5 DEF Protected
<1>6. \A m \in linked[0] : key'[m] = key[m] /\ pid'[m] = pid[m] /\ m \in Cell
                          /\ m # n
  BY <1>2, <1>3, CellKeys, Bounds DEF Inv
<1>7. Spoiled' = Spoiled
  BY <1>1, <1>6, Bounds DEF Inv, TreeInv, Spoiled
<1>8. ASSUME NEW t \in Reader, t \in Reading
      PROVE  Keeps(t) /\ SameWindow(t)
  <2>1. Keeps(t)
    BY <1>1, <1>2, <1>4, <1>5, <1>7 DEF Keeps, Known
  <2>2. SameWindow(t)
    <3>1. ASSUME InWindow(t) PROVE forward'[r[t].x] = forward[r[t].x]
      BY <1>2, <1>5, <3>1, ReaderX DEF InWindow
    <3>2. QED
      BY <3>1 DEF SameWindow
  <2>3. QED
    BY <2>1, <2>2
<1>9. \A t \in Reading : Bears(t)
  BY <1>1, <1>6, <1>7 DEF ReadInv, HistoryInv, Bears, Findable, Known
<1>10. \A m \in dying' : forward'[m] = forward[m]
  BY <1>1, <1>2, CellKeys DEF Inv
<1>11. \A t \in Reader : Stays(t)
  BY <1>1 DEF Stays
<1>12. UnlinkedInv'
  <2> SUFFICES ASSUME w.pc \in {"unlink", "call_rcu"} PROVE UnlinkedInv'
    BY <1>1 DEF UnlinkedInv
  <2>0. \A c \in Cell : c # n => pos'[c] = pos[c]
    BY <1>1, <1>2 DEF pos, Late
  <2>1. PICK x \in Cell : x = w.x /\ x \in allocated \ dying /\ x # n
    BY <1>3, Pointers DEF Inv, WriterInv, TypeOK
  <2>2. forward'[x] = forward[x] /\ key'[x] = key[x] /\ pos'[x] = pos[x]
    BY <1>2, <2>0, <2>1
  <2>3. ASSUME NEW i \in Lvl, forward[x][i] # NULL
        PROVE  /\ forward[x][i] \in Cell /\ forward[x][i] # n
               /\ key'[forward[x][i]] = key[forward[x][i]]
    <3>1. forward[x][i] \in Cell /\ forward[x][i] # n
      BY <1>1, <2>1, <2>3, CellKeys, Pointers DEF Inv, RcuInv
    <3>2. QED
      BY <1>2, <3>1
  <2>4. /\ Upward(x) /\ IsSuccessor(x, 0, forward[x][0])
        /\ x \notin tree /\ key[x] = w.key
    BY <2>1 DEF ReadInv, UnlinkedInv
  <2>5. Upward(x)'
    BY <1>1, <1>4, <2>2, <2>3, <2>4 DEF Upward, Precedes
  <2>6. IsSuccessor(x, 0, forward[x][0])'
    <3>1. forward[x][0] # NULL => pos'[forward[x][0]] = pos[forward[x][0]]
      BY <2>0, <2>3, Bounds
    <3>2. QED
      BY <1>1, <1>6, <2>0, <2>2, <2>4, <3>1 DEF IsSuccessor
  <2>7. QED
    BY <1>1, <2>1, <2>2, <2>4, <2>5, <2>6 DEF UnlinkedInv
<1>13. QED
  BY <1>1, <1>8, <1>9, <1>10, <1>11, <1>12, <1>7, WriterReads

(* A node that is linked is ahead of the readers below it.  One that comes *)
(* in between the two loads of a reader either has a number that reader    *)
(* does not search for, above it, or races it.                             *)
LEMMA LinkReads ==
  ASSUME Inv, Inv', BoundInv, ReadInv, InsertLink PROVE ReadInv'
<1>1. UNCHANGED <<level, key, pid, height, tree, allocated, dying, gp>>
  BY DEF InsertLink, rcuVars
<1>2. PICK x, i, u : x = w.x /\ i = w.i /\ u = w.update[w.i]
  OBVIOUS
<1>3. /\ w.pc = "link" /\ w.key \in Key /\ w.pid \in Value
      /\ x \in allocated \ dying /\ x \in Cell /\ key[x] = w.key /\ pid[x] = w.pid
      /\ x \notin tree /\ i \in Lvl /\ i \in Int /\ i >= 0
      /\ IsPredecessor(u, i)
  <2>1. /\ w.pc = "link" /\ w.key \in Key
        /\ x \in allocated \ dying /\ key[x] = w.key /\ pid[x] = w.pid
        /\ x \notin tree /\ i >= 0 /\ i < w.lvl
        /\ \A j \in Lvl : i <= j /\ j < w.lvl => IsPredecessor(w.update[j], j)
    BY <1>2 DEF InsertLink, Inv, WriterInv
  <2>2. i \in Lvl /\ i \in Int /\ w.pid \in Value
    BY <1>2, <2>1, WriterFields, IndexSteps, Bounds DEF Inv
  <2>3. x \in Cell
    BY <2>1, Pointers DEF Inv, TypeOK
  <2>4. QED
    BY <1>2, <2>1, <2>2, <2>3
<1>4. u \in linked[i] \cup {Header} /\ u \in Cell /\ u \notin dying
  BY <1>3, CellKeys, Pointers DEF IsPredecessor, Inv, HeapInv, TypeOK
<1>5. /\ forward'[u][i] = x
      /\ \A c \in Cell, j \in Lvl :
           ((c = x \/ c = u) /\ j = i) \/ forward'[c][j] = forward[c][j]
      /\ \A c \in Cell : c # x /\ c # u => forward'[c] = forward[c]
  <2>1. forward' = [forward EXCEPT ![x][i] = forward[u][i], ![u][i] = x]
    BY <1>2 DEF InsertLink
  <2>2. forward \in [Cell -> [Lvl -> Ptr]]
    BY DEF Inv, TypeOK
  <2>3. QED
    BY <2>1, <2>2, <1>3, <1>4
<1>6. w'.pc = "link" /\ w'.i = i + 1
  BY <1>2, <1>3 DEF InsertLink, Inv, TypeOK, WriterType
<1>7. Private' = {} /\ UnlinkedInv' /\ (i = 0 => Private = {x})
  BY <1>2, <1>3, <1>6 DEF Private, UnlinkedInv
<1>8. i = 0 => Observe(w.key, w.pid, TRUE)
  BY <1>2 DEF InsertLink
<1>9. i # 0 => r' = r
  BY <1>2 DEF InsertLink
<1>10. ASSUME NEW t \in Reader
       PROVE  /\ Stays(t)
              /\ t \in Reading /\ i = 0 =>
                   /\ w.key = r[t].key /\ w.pid \in Pid => w.pid \in r'[t].seen
                   /\ w.key < r[t].key /\ InWindow(t) => r'[t].raced
  <2>1. CASE i = 0
    BY <1>3, <1>8, <2>1, HistoryGrows DEF Inv
  <2>2. CASE i # 0
    BY <1>9, <2>2 DEF Stays
  <2>3. QED
    BY <2>1, <2>2
<1>11. Spoiled' = Spoiled
  BY <1>1 DEF Spoiled
<1>12. ASSUME NEW t \in Reader, t \in Reading PROVE Keeps(t) /\ SameWindow(t)
  <2>1. Keeps(t)
    BY <1>1, <1>7, <1>10, <1>11 DEF Keeps, Known, Stays
  <2>2. SameWindow(t)
    <3> SUFFICES ASSUME InWindow(t), ~r'[t].raced
                 PROVE  \/ forward'[r[t].x][0] = forward[r[t].x][0]
                        \/ key'[forward'[r[t].x][0]] >= r[t].key
      BY DEF SameWindow
    <3>1. r[t].x \in Cell /\ r[t].x \notin Private
      BY ReaderX DEF InWindow, ReadInv, WalkInv
    <3>2. CASE i = 0 /\ r[t].x = u
      <4>1. ~(w.key < r[t].key) /\ r[t].key \in Int /\ w.key \in Int
        BY <1>3, <1>10, <1>12, <3>2, HistoryFields, KeyAssumption DEF Inv
      <4>2. forward'[r[t].x][0] = x /\ key'[x] = w.key
        BY <1>1, <1>3, <1>5, <3>2
      <4>3. QED
        BY <4>1, <4>2
    <3>3. CASE ~(i = 0 /\ r[t].x = u)
      BY <1>5, <1>7, <3>1, <3>3, Bounds
    <3>4. QED
      BY <3>2, <3>3
  <2>3. QED
    BY <2>1, <2>2
<1>13. linked'[0] = IF i = 0 THEN linked[0] \cup {x} ELSE linked[0]
  BY <1>2, <1>3, Bounds DEF InsertLink, Inv, TypeOK
<1>14. ASSUME NEW t \in Reader, t \in Reading PROVE Bears(t)
  <2>1. ASSUME NEW k \in r'[t].stable
        PROVE  \E m \in Findable(k)' : pid'[m] \in Pid
    <3>1. k \in r[t].stable
      BY <1>10 DEF Stays
    <3>2. PICK m \in Findable(k) : pid[m] \in Pid
      BY <1>14, <3>1 DEF ReadInv, HistoryInv
    <3>3. m \in Findable(k)'
      BY <1>1, <1>13 DEF Findable
    <3>4. QED
      BY <1>1, <3>2, <3>3
  <2>2. ASSUME NEW n \in linked'[0], key[n] = r[t].key
        PROVE  Known(t, n)'
    <3>1. CASE n \in linked[0]
      BY <1>1, <1>10, <1>14, <1>11, <2>2, <3>1, KnownStays DEF ReadInv, HistoryInv
    <3>2. CASE n \notin linked[0]
      <4>1. n = x /\ i = 0
        BY <1>13, <3>2
      <4>2. pid'[n] \in r'[t].seen \cup {NULL}
        BY <1>1, <1>3, <1>10, <1>14, <2>2, <4>1 DEF Value
      <4>3. QED
        BY <4>2 DEF Known
    <3>3. QED
      BY <3>1, <3>2
  <2>3. QED
    BY <1>1, <2>1, <2>2 DEF Bears
<1>15. \A m \in dying : forward'[m] = forward[m]
  BY <1>3, <1>4, <1>5, CellKeys DEF Inv
<1>16. QED
  BY <1>1, <1>7, <1>10, <1>12, <1>14, <1>15, <1>11, WriterReads

(* rb_insert_node() takes a node into the tree, and with it its number out *)
(* of what lookups are to find; the readers in a search of the tree may    *)
(* end on it, the others stand where they stood in the order of the list.  *)
LEMMA TreeReads ==
  ASSUME Inv, Inv', ReadInv, rb_insert_node PROVE ReadInv'
<1> DEFINE added == IF OnTopLevel /\ \A n \in tree : key[n] # w.key THEN {w.x} ELSE {}
<1>1. /\ UNCHANGED <<key, pid, height, forward, allocated, dying, gp, linked>>
      /\ w.pc = "link" /\ w.i = w.lvl
      /\ tree' = tree \cup added /\ w' = IdleWriter
  BY DEF rb_insert_node, heapVars, rcuVars
<1>0. r' = [t \in Reader |->
              IF r[t].pc \in {"idle", "done"} \/ added = {} THEN r[t]
              ELSE [r[t] EXCEPT
                      !.cand   = IF r[t].pc = "tree" THEN r[t].cand \cup added
                                                     ELSE r[t].cand,
                      !.torn   = r[t].torn \/ r[t].pc = "tree",
                      !.stable = r[t].stable \ {w.key}]]
  BY DEF rb_insert_node
<1>2. PICK x : x = w.x
  OBVIOUS
<1>3. added \in {{}, {x}}
  BY <1>2
<1> HIDE DEF added
<1>4. /\ x \in allocated \ dying /\ x \notin tree /\ key[x] = w.key
      /\ x \in linked[0] /\ ~(w.i = 0)
  <2>1. 0 < w.i
    <3>1. w.lvl >= 1 /\ w.lvl \in Int
      BY <1>1, WriterFields, Bounds DEF Inv, WriterInv
    <3>2. QED
      BY <1>1, <3>1
  <2>2. QED
    BY <1>1, <1>2, <2>1, Bounds DEF Inv, WriterInv
<1>5. Private = {} /\ Private' = {} /\ UnlinkedInv'
  BY <1>1, <1>4 DEF Private, UnlinkedInv, IdleWriter
<1>6. CASE added = {}
  <2>1. tree' = tree /\ r' = r
    BY <1>0, <1>1, <1>6 DEF Inv, TypeOK
  <2>2. QED
    BY <1>1, <1>5, <2>1, LocalReads DEF heapVars, rcuVars
<1>7. CASE added = {x}
  <2>1. tree' = tree \cup {x} /\ Spoiled \subseteq Spoiled'
    BY <1>1, <1>7, SpoiledStays
  <2>2. ASSUME NEW t \in Reader
        PROVE  /\ r'[t].pc = r[t].pc /\ r'[t].x = r[t].x /\ r'[t].next = r[t].next
               /\ r'[t].op = r[t].op /\ r'[t].key = r[t].key /\ r'[t].res = r[t].res
               /\ r'[t].visited = r[t].visited /\ r'[t].hole = r[t].hole
               /\ r'[t].stable \subseteq r[t].stable /\ r'[t].seen = r[t].seen
               /\ r'[t].raced = r[t].raced
               /\ t \in Reading => w.key \notin r'[t].stable
               /\ t \notin Reading => r'[t].stable = r[t].stable
               /\ r[t].pc # "tree" => r'[t].torn = r[t].torn
    <3>1. r[t] \in ReaderType
      BY DEF Inv, TypeOK
    <3>2. CASE r[t].pc \in {"idle", "done"}
      BY <1>0, <3>2 DEF Reading
    <3>3. CASE r[t].pc \notin {"idle", "done"}
      <4>1. PICK c, torn, stable :
              /\ c = IF r[t].pc = "tree" THEN r[t].cand \cup added ELSE r[t].cand
              /\ torn = (r[t].torn \/ r[t].pc = "tree")
              /\ stable = r[t].stable \ {w.key}
        OBVIOUS
      <4>2. r'[t] = [r[t] EXCEPT !.cand = c, !.torn = torn, !.stable = stable]
        BY <1>0, <1>7, <3>3, <4>1
      <4>3. /\ r'[t].pc = r[t].pc /\ r'[t].x = r[t].x /\ r'[t].next = r[t].next
            /\ r'[t].op = r[t].op /\ r'[t].key = r[t].key /\ r'[t].res = r[t].res
            /\ r'[t].visited = r[t].visited /\ r'[t].hole = r[t].hole
            /\ r'[t].stable = stable /\ r'[t].seen = r[t].seen
            /\ r'[t].raced = r[t].raced /\ r'[t].torn = torn
        BY <3>1, <4>2 DEF ReaderType
      <4>4. r[t].pc # "tree" => r'[t].torn = r[t].torn
        BY <3>1, <4>1, <4>3 DEF ReaderType
      <4>5. t \in Reading
        BY <3>3 DEF Reading
      <4>6. QED
        BY <4>1, <4>3, <4>4, <4>5
    <3>4. QED
      BY <3>2, <3>3
  <2>3. ASSUME NEW k, k # w.key PROVE Findable(k)' = Findable(k)
    BY <1>1, <1>4, <2>1, <2>3 DEF Findable
  <2>4. Reading' = Reading /\ Reading \subseteq Reader
    BY <2>2 DEF Reading
  <2>5. ASSUME NEW t \in Reading, NEW n, Known(t, n) PROVE Known(t, n)'
    BY <1>1, <2>1, <2>2, <2>4, <2>5 DEF Known
  <2>6. HistoryInv'
    <3> SUFFICES ASSUME NEW t \in Reading
                 PROVE  /\ r'[t].key \in Key
                        /\ \A k \in r'[t].stable :
                             k >= r'[t].key /\ \E m \in Findable(k)' : pid[m] \in Pid
                        /\ \A n \in linked[0] : key[n] = r'[t].key => Known(t, n)'
                        /\ r'[t].pc = "tree" => r'[t].visited = {}
      BY <1>1, <2>4 DEF HistoryInv
    <3>1. /\ r'[t].key = r[t].key /\ r'[t].stable \subseteq r[t].stable
          /\ r'[t].pc = r[t].pc /\ r'[t].visited = r[t].visited
          /\ w.key \notin r'[t].stable
      BY <2>2, <2>4
    <3>2. QED
      BY <2>3, <2>5, <3>1 DEF ReadInv, HistoryInv
  <2>7. RemovedInv'
    <3> SUFFICES ASSUME NEW n \in dying, NEW t \in gp[n] \cap Reading
                 PROVE  Upward(n)' /\ key[n] \notin r'[t].stable /\ Leads(t, n)'
      <4>1. dying' = dying /\ gp' = gp /\ key' = key
        BY <1>1
      <4>2. QED
        BY <2>4, <4>1 DEF RemovedInv
    <3>1. Upward(n) /\ key[n] \notin r[t].stable /\ Leads(t, n)
      BY DEF ReadInv, RemovedInv
    <3>2. n \notin tree' /\ n \notin tree
      BY <1>4, <2>1, Bounds DEF Inv, TreeInv, HeapInv
    <3>3. Upward(n)'
      BY <1>1, <1>5, <2>1, <3>1, <3>2 DEF Upward, Precedes
    <3>4. r'[t].stable \subseteq r[t].stable /\ r'[t].key = r[t].key
      BY <2>2, <2>4
    <3>5. Leads(t, n)'
      BY <1>1, <2>5, <3>1, <3>2, <3>4 DEF Leads, Below
    <3>6. QED
      BY <3>1, <3>3, <3>4, <3>5
  <2>8. ASSUME NEW t \in Reader PROVE WalkInv(t)'
    <3> SUFFICES ASSUME r[t].pc \in {"walk", "last"} PROVE WalkInv(t)'
      BY <2>2 DEF WalkInv
    <3>1. t \in Reading /\ r'[t].torn = r[t].torn /\ WalkInv(t)
      BY <2>2 DEF Reading, ReadInv
    <3>2. w.key \notin r'[t].stable /\ r'[t].stable \subseteq r[t].stable
      BY <2>2, <3>1
    <3>3. \A k : Below(r[t].x, k) => Below(r[t].x, k)'
      BY <1>1, <2>1, <2>2 DEF Below
    <3>4. r[t].visited = {} /\ ~r[t].torn /\ r[t].key \in r'[t].stable =>
            \A n \in tree' : key[n] = r[t].key => r[t].x = n
      BY <1>4, <2>1, <3>1, <3>2 DEF WalkInv
    <3>5. InWindow(t)' = InWindow(t)
      BY <2>2 DEF InWindow
    <3>6. QED
      BY <1>1, <1>5, <2>2, <3>1, <3>2, <3>3, <3>4, <3>5 DEF WalkInv
  <2>9. ASSUME NEW t \in Reader PROVE EvalInv(t)'
    <3> SUFFICES ASSUME r[t].pc = "eval" PROVE EvalInv(t)'
      BY <2>2 DEF EvalInv
    <3>1. t \in Reading /\ r'[t].torn = r[t].torn /\ EvalInv(t)
      BY <2>2 DEF Reading, ReadInv
    <3>2. w.key \notin r'[t].stable /\ r'[t].stable \subseteq r[t].stable
      BY <2>2, <3>1
    <3>3. key[r[t].next] = r[t].key /\ r[t].key \in r'[t].stable => r[t].next # x
      BY <1>4, <3>2
    <3>4. QED
      BY <1>1, <1>5, <2>1, <2>2, <2>5, <3>1, <3>2, <3>3 DEF EvalInv
  <2>10. ASSUME NEW t \in Reader PROVE DoneInv(t)'
    <3> SUFFICES ASSUME r[t].pc = "done" PROVE DoneInv(t)'
      BY <2>2 DEF DoneInv
    <3>1. r'[t].torn = r[t].torn /\ r'[t].stable = r[t].stable /\ DoneInv(t)
      BY <2>2 DEF ReadInv, Reading
    <3>2. QED
      BY <2>1, <2>2, <3>1 DEF DoneInv
  <2>11. QED
    BY <1>5, <2>6, <2>7, <2>8, <2>9, <2>10 DEF ReadInv
<1>8. QED
  BY <1>3, <1>6, <1>7

(* A node that is unlinked takes its number out of every reader's stable   *)
(* set, and leaves the readers before it with the node behind it.          *)
LEMMA UnlinkReads ==
  ASSUME Inv, Inv', ReadInv, RemoveUnlink PROVE ReadInv'
<1>1. UNCHANGED <<level, key, pid, height, tree, allocated, dying, gp>>
  BY DEF RemoveUnlink, rcuVars
<1>2. PICK x, i, u : x = w.x /\ i = w.i /\ u = w.update[w.i]
  OBVIOUS
<1>3. /\ w.pc = "unlink" /\ x \in allocated \ dying /\ x \in Cell /\ x \in Node
      /\ key[x] = w.key /\ w.key \in Key /\ x \notin tree
      /\ i \in Lvl /\ i < level /\ IsPredecessor(u, i) /\ forward[u][i] = x
  <2>1. /\ w.pc = "unlink" /\ x \in allocated \ dying /\ key[x] = w.key
        /\ i >= 0 /\ i < level /\ forward[u][i] = x /\ x \notin tree
        /\ \A j \in Lvl : i <= j /\ j < level => IsPredecessor(w.update[j], j)
    BY <1>2 DEF RemoveUnlink, Unlinking, Inv, WriterInv
  <2>2. i \in Lvl /\ i \in Int
    BY <1>2, <2>1, WriterFields, IndexSteps, Bounds DEF Inv, TypeOK
  <2>3. x \in Node /\ key[x] \in Key
    BY <2>1 DEF Inv, TypeOK, HeapInv
  <2>4. QED
    BY <1>2, <2>1, <2>2, <2>3, Pointers
<1>4. u \in linked[i] \cup {Header} /\ u \in Cell /\ u \notin dying /\ u # x
  <2>1. u \in linked[i] \cup {Header} /\ pos[u] < place
    BY <1>3 DEF IsPredecessor
  <2>2. u \in Cell /\ u \notin dying
    BY <1>3, <2>1, CellKeys, Pointers DEF Inv, HeapInv, TypeOK
  <2>3. pos[x] = place /\ place \in Int
    BY <1>3, Order DEF Inv
  <2>4. u # x
    BY <2>1, <2>3
  <2>5. QED
    BY <2>1, <2>2, <2>4
<1>5. /\ forward'[u][i] = forward[x][i]
      /\ \A c \in Cell, j \in Lvl :
           (c = u /\ j = i) \/ forward'[c][j] = forward[c][j]
      /\ \A c \in Cell : c # u => forward'[c] = forward[c]
  <2>1. forward' = [forward EXCEPT ![u][i] = forward[x][i]]
    BY <1>2 DEF RemoveUnlink
  <2>2. forward \in [Cell -> [Lvl -> Ptr]]
    BY DEF Inv, TypeOK
  <2>3. QED
    BY <2>1, <2>2, <1>3, <1>4
<1>6. w'.pc = "unlink" /\ w'.x = x /\ w'.key = w.key
  BY <1>2, <1>3 DEF RemoveUnlink, Inv, TypeOK, WriterType
<1>7. Private = {} /\ Private' = {} /\ pos' = pos
  BY <1>1, <1>3, <1>6, SameOrder DEF Private
<1>8. linked'[0] = IF i = 0 THEN linked[0] \ {x} ELSE linked[0]
  BY <1>2, <1>3, Bounds DEF RemoveUnlink, Inv, TypeOK
<1>9. Upward(x) /\ IsSuccessor(x, 0, forward[x][0])
  BY <1>2, <1>3 DEF ReadInv, UnlinkedInv
<1>10. UnlinkedInv'
  <2>1. forward'[x] = forward[x] /\ key'[x] = key[x]
    BY <1>1, <1>3, <1>4, <1>5
  <2>2. Upward(x)'
    BY <1>1, <1>7, <1>9, <2>1 DEF Upward, Precedes
  <2>3. pos[x] \in Int
    BY <1>3, Order DEF Inv
  <2>4. IsSuccessor(x, 0, forward[x][0])'
    BY <1>7, <1>8, <1>9, <2>1, <2>3 DEF IsSuccessor
  <2>5. QED
    BY <1>1, <1>3, <1>6, <2>2, <2>4 DEF UnlinkedInv
<1>11. i = 0 => Observe(w.key, NULL, FALSE)
  BY <1>2 DEF RemoveUnlink
<1>12. i # 0 => r' = r
  BY <1>2 DEF RemoveUnlink
<1>13. ASSUME NEW t \in Reader
       PROVE  Stays(t) /\ (t \in Reading /\ i = 0 => w.key \notin r'[t].stable)
  <2>1. CASE i = 0
    BY <1>3, <1>11, <2>1, HistoryGrows, Pointers, CellAssumption DEF Inv
  <2>2. CASE i # 0
    BY <1>12, <2>2 DEF Stays
  <2>3. QED
    BY <2>1, <2>2
<1>14. Spoiled' = Spoiled
  BY <1>1 DEF Spoiled
<1>15. ASSUME NEW t \in Reader, t \in Reading PROVE Keeps(t) /\ SameWindow(t)
  <2>1. Keeps(t)
    BY <1>1, <1>7, <1>13, <1>14 DEF Keeps, Known, Stays
  <2>2. SameWindow(t)
    <3> SUFFICES ASSUME InWindow(t), ~r'[t].raced, forward'[r[t].x][0] # NULL
                 PROVE  \/ forward'[r[t].x][0] = forward[r[t].x][0]
                        \/ key'[forward'[r[t].x][0]] >= r[t].key
      BY DEF SameWindow
    <3>1. r[t].x \in Cell /\ r[t].pc = "last" /\ ~r[t].raced
      BY <1>13, ReaderX DEF InWindow, Stays
    <3>2. CASE i = 0 /\ r[t].x = u
      <4>1. key[x] >= r[t].key
        BY <1>3, <3>1, <3>2, Pointers DEF ReadInv, WalkInv
      <4>2. forward'[r[t].x][0] = forward[x][0]
        BY <1>5, <3>2
      <4>3. Precedes(x, forward[x][0])
        BY <1>9, <4>2, Bounds DEF Upward
      <4>4. /\ key[x] \in Int /\ r[t].key \in Int
            /\ key[forward[x][0]] \in Int
        BY <1>3, <4>2, CellKeys, HistoryFields, Pointers, Bounds DEF Inv
      <4>5. QED
        BY <1>1, <4>1, <4>2, <4>3, <4>4 DEF Precedes
    <3>3. CASE ~(i = 0 /\ r[t].x = u)
      BY <1>5, <3>1, <3>3, Bounds
    <3>4. QED
      BY <3>2, <3>3
  <2>3. QED
    BY <2>1, <2>2
<1>16. ASSUME NEW t \in Reader, t \in Reading PROVE Bears(t)
  <2>1. ASSUME NEW k \in r'[t].stable
        PROVE  \E m \in Findable(k)' : pid'[m] \in Pid
    <3>1. k \in r[t].stable
      BY <1>13 DEF Stays
    <3>2. PICK m \in Findable(k) : pid[m] \in Pid
      BY <1>16, <3>1 DEF ReadInv, HistoryInv
    <3>3. i = 0 => m # x
      BY <1>3, <1>13, <1>16, <2>1 DEF Findable
    <3>4. m \in Findable(k)'
      BY <1>1, <1>8, <3>3 DEF Findable
    <3>5. QED
      BY <1>1, <3>2, <3>4
  <2>2. ASSUME NEW n \in linked'[0], key[n] = r[t].key PROVE Known(t, n)'
    <3>1. n \in linked[0]
      BY <1>8
    <3>2. QED
      BY <1>1, <1>13, <1>16, <1>14, <2>2, <3>1, KnownStays DEF ReadInv, HistoryInv
  <2>3. QED
    BY <1>1, <2>1, <2>2 DEF Bears
<1>17. \A m \in dying : forward'[m] = forward[m]
  BY <1>4, <1>5, CellKeys DEF Inv
<1>18. QED
  BY <1>1, <1>10, <1>13, <1>15, <1>16, <1>17, <1>14, WriterReads

(* call_rcu(): the node queued still leads every reader in its section to  *)
(* all that was there throughout it.                                       *)
LEMMA CallRcuReads ==
  ASSUME Inv, Inv', BoundInv, ReadInv, RemoveCallRcu PROVE ReadInv'
<1>1. UNCHANGED <<key, pid, height, forward, tree, allocated, linked, r>>
  BY DEF RemoveCallRcu, heapVars
<1>2. PICK x : x = w.x
  OBVIOUS
<1>3. /\ w.pc = "call_rcu" /\ x \in allocated \ dying /\ x \in Node
      /\ x \in Cell /\ x \notin linked[0]
  BY <1>2, Pointers, Bounds DEF RemoveCallRcu, Inv, WriterInv, TypeOK
<1>4. /\ dying' = dying \cup {x} /\ gp'[x] = Active
      /\ \A n \in Node : n # x => gp'[n] = gp[n]
  BY <1>2, <1>3 DEF RemoveCallRcu, Inv, TypeOK
<1>5. w'.pc = "idle"
  BY DEF RemoveCallRcu, IdleWriter
<1>6. Private = {} /\ Private' = {} /\ UnlinkedInv' /\ Reading' = Reading
  BY <1>1, <1>3, <1>5 DEF Private, UnlinkedInv, Reading
<1>7. Spoiled' = Spoiled
  BY <1>1 DEF Spoiled
<1>8. HistoryInv'
  BY <1>1, <1>6, <1>7 DEF ReadInv, HistoryInv, Findable, Known
<1>9. \A t \in Reader : WalkInv(t)' /\ EvalInv(t)' /\ DoneInv(t)'
  BY <1>1, <1>6, <1>7 DEF ReadInv, WalkInv, EvalInv, DoneInv, InWindow, Below, Known
<1>10. ASSUME NEW n \in dying', NEW t \in gp'[n] \cap Reading
      PROVE  Upward(n) /\ key[n] \notin r[t].stable /\ Leads(t, n)
  <2>1. CASE n = x
    <3>1. t \in Reader /\ t \in Reading
      BY DEF Reading
    <3>2. Protected(t, x)
      BY <1>3 DEF Protected
    <3>3. Upward(x) /\ Leads(t, x)
      BY <1>3, <1>6, <3>1, <3>2, Ahead
    <3>4. ASSUME key[x] \in r[t].stable PROVE FALSE
      <4>1. PICK m \in linked[0] : key[m] = key[x] /\ m \notin tree
        BY <3>1, <3>4, StableHome
      <4>2. key[x] = w.key
        BY <1>2, <1>3 DEF ReadInv, UnlinkedInv
      <4>3. m = x
        BY <1>2, <1>3, <4>1, <4>2 DEF BoundInv, Findable
      <4>4. QED
        BY <1>3, <4>3
    <3>5. QED
      BY <2>1, <3>3, <3>4
  <2>2. CASE n # x
    <3>1. n \in dying /\ t \in gp[n] \cap Reading
      BY <1>4, <1>10, <2>2 DEF Inv, TypeOK
    <3>2. QED
      BY <3>1 DEF ReadInv, RemovedInv
  <2>3. QED
    BY <2>1, <2>2
<1>11. RemovedInv'
  BY <1>1, <1>6, <1>10, <1>7
     DEF RemovedInv, Upward, Leads, Precedes, Below, Known
<1>12. QED
  BY <1>6, <1>8, <1>9, <1>11 DEF ReadInv

-----------------------------------------------------------------------------
(* Steps of a reader.                                                      *)

(* A step of reader t, whose locals become l, keeps ReadInv if its own     *)
(* part holds of l: the others and the list are not touched.               *)
LEMMA ReaderReads ==
  ASSUME Inv, Inv', ReadInv, NEW t \in Reader, NEW l \in ReaderType, Moves(t, l),
         l.pc # "idle", r[t].pc # "done",
         r[t].pc # "idle" /\ l.pc # "done" =>
           /\ l.key = r[t].key /\ l.stable = r[t].stable /\ l.seen = r[t].seen
           /\ l.pc # "tree",
         r[t].pc = "idle" =>
           /\ l.key \in Key /\ l.visited = {}
           /\ \A k \in l.stable :
                k >= l.key /\ \E m \in Findable(k) : pid[m] \in Pid
           /\ \A n \in linked[0] : key[n] = l.key /\ l.key \notin Spoiled =>
                pid[n] \in l.seen \cup {NULL},
         WalkInv(t)', EvalInv(t)', DoneInv(t)'
  PROVE  ReadInv'
<1>1. UNCHANGED <<level, key, pid, height, forward, tree, allocated, dying, gp,
                  linked, w>>
  BY DEF Moves, heapVars, rcuVars
<1>2. r'[t] = l /\ \A u \in Reader : u # t => r'[u] = r[u]
  BY DEF Moves, Inv, TypeOK
<1>3. Private' = Private /\ pos' = pos /\ Spoiled' = Spoiled
  BY <1>1, SameOrder DEF Private, Spoiled
<1>4. HistoryInv'
  <2> SUFFICES ASSUME NEW u \in Reading'
               PROVE  /\ r'[u].key \in Key
                      /\ \A k \in r'[u].stable :
                           k >= r'[u].key /\ \E m \in Findable(k) : pid[m] \in Pid
                      /\ \A n \in linked[0] :
                           key[n] = r'[u].key /\ r'[u].key \notin Spoiled =>
                             pid[n] \in r'[u].seen \cup {NULL}
                      /\ r'[u].pc = "tree" => r'[u].visited = {}
    BY <1>1, <1>3 DEF HistoryInv, Findable, Known
  <2>1. u \in Reader /\ r'[u].pc \notin {"idle", "done"}
    BY DEF Reading
  <2>2. CASE u # t
    <3>1. r'[u] = r[u] /\ u \in Reading
      BY <1>2, <2>1, <2>2 DEF Reading
    <3>2. QED
      BY <3>1 DEF ReadInv, HistoryInv, Known
  <2>3. CASE u = t /\ r[t].pc # "idle"
    <3>1. t \in Reading /\ l.pc # "done"
      BY <1>2, <2>1, <2>3 DEF Reading
    <3>2. QED
      BY <1>2, <2>3, <3>1 DEF ReadInv, HistoryInv, Known
  <2>4. CASE u = t /\ r[t].pc = "idle"
    BY <1>2, <2>4
  <2>5. QED
    BY <2>2, <2>3, <2>4
<1>5. UnlinkedInv'
  BY <1>1, <1>3 DEF ReadInv, UnlinkedInv, Upward, Precedes, IsSuccessor
<1>6. RemovedInv'
  <2>1. \A n \in dying : \A u \in gp[n] \cap Reading' :
          /\ u \in Reading
          /\ r'[u].key = r[u].key /\ r'[u].stable = r[u].stable
          /\ r'[u].seen = r[u].seen
    <3> SUFFICES ASSUME NEW n \in dying, NEW u \in gp[n] \cap Reading'
                 PROVE  /\ u \in Reading
                        /\ r'[u].key = r[u].key /\ r'[u].stable = r[u].stable
                        /\ r'[u].seen = r[u].seen
      OBVIOUS
    <3>1. u \in Reader /\ r[u].pc # "idle" /\ r'[u].pc # "done"
      BY DEF Inv, RcuInv, Active, TypeOK, Reading
    <3>2. CASE u # t
      BY <1>2, <3>1, <3>2 DEF Reading
    <3>3. CASE u = t
      BY <1>2, <3>1, <3>3 DEF Reading
    <3>4. QED
      BY <3>2, <3>3
  <2>2. QED
    BY <1>1, <1>3, <2>1
       DEF ReadInv, RemovedInv, Upward, Leads, Precedes, Below, Known
<1>7. ASSUME NEW u \in Reader PROVE WalkInv(u)' /\ EvalInv(u)' /\ DoneInv(u)'
  <2>1. CASE u # t
    BY <1>1, <1>2, <1>3, <2>1
       DEF ReadInv, WalkInv, EvalInv, DoneInv, InWindow, Below, Known
  <2>2. QED
    BY <2>1
<1>8. QED
  BY <1>4, <1>5, <1>6, <1>7 DEF ReadInv

(* What a reader that enters knows of a number is what lookups are to find *)
(* of it, which is all its nodes have unless the tree has a struct pid.    *)
LEMMA BindingAt ==
  ASSUME Inv, NEW k \in Key
  PROVE  /\ Binding(k) # {} => \E m \in Findable(k) : pid[m] \in Pid
         /\ \A n \in linked[0] :
              key[n] = k /\ k \notin Spoiled => pid[n] \in Binding(k) \cup {NULL}
<1>1. \A m \in Findable(k) : pid[m] = NULL \/ pid[m] \in Pid
  BY CellKeys, Bounds, Values DEF Inv, Findable
<1>2. ASSUME NEW n \in linked[0], key[n] = k, k \notin Spoiled
      PROVE  pid[n] \in Binding(k) \cup {NULL}
  <2>1. CASE n \in tree
    BY <1>2, <2>1 DEF Spoiled
  <2>2. CASE n \notin tree
    BY <1>2, <2>2 DEF Binding, Findable
  <2>3. QED
    BY <2>1, <2>2
<1>3. QED
  BY <1>1, <1>2 DEF Binding

(* A reader that enters knows what is bound at that moment.                *)
LEMMA BeginReads ==
  ASSUME Inv, Inv', ReadInv, NEW t \in Reader, NEW c \in ReadCalls,
         ReadBegin(t, c[2])
  PROVE  ReadInv'
<1>1. c[2] \in Key
  BY CallAssumption
<1>2. PICK seen, stable : /\ seen = Binding(c[2])
                          /\ stable = {j \in Key : j >= c[2] /\ Binding(j) # {}}
  OBVIOUS
<1>3. PICK l : l = [IdleReader EXCEPT !.pc = "tree", !.key = c[2], !.cand = tree,
                                      !.seen = seen, !.stable = stable]
  OBVIOUS
<1>4. /\ l.pc = "tree" /\ l.key = c[2] /\ l.visited = {}
      /\ l.seen = seen /\ l.stable = stable
  BY <1>3 DEF IdleReader
<1>5. Moves(t, l) /\ r[t].pc = "idle"
  BY <1>2, <1>3 DEF ReadBegin
<1>6. r'[t] = l /\ l \in ReaderType
  BY <1>5 DEF Moves, Inv, TypeOK
<1>7. \A k \in l.stable : k >= l.key /\ \E m \in Findable(k) : pid[m] \in Pid
  BY <1>2, <1>4, BindingAt
<1>8. \A n \in linked[0] : key[n] = l.key /\ l.key \notin Spoiled =>
                             pid[n] \in l.seen \cup {NULL}
  BY <1>1, <1>2, <1>4, BindingAt
<1>9. WalkInv(t)' /\ EvalInv(t)' /\ DoneInv(t)'
  BY <1>4, <1>6 DEF WalkInv, EvalInv, DoneInv
<1>10. QED
  BY <1>1, <1>4, <1>5, <1>6, <1>7, <1>8, <1>9, ReaderReads

(* A search of the tree ends at or before the number, and on its node in   *)
(* the tree, if it has one, unless it was disturbed.                       *)
LEMMA TreeSearchReads ==
  ASSUME Inv, Inv', ReadInv, NEW t \in Reader, ReadTree(t) PROVE ReadInv'
<1>1. /\ r[t].pc = "tree" /\ r[t] \in ReaderType /\ r[t].cand \subseteq tree
      /\ t \in Reading
  BY ReaderFields DEF ReadTree, Inv, ReaderInv, Reading
<1>2. PICK x \in IF r[t].torn THEN AtOrBelow(r[t].cand, r[t].key) \cup {Header}
                 ELSE {rb_find_le(r[t].key)} :
        Moves(t, [r[t] EXCEPT !.pc = "walk", !.x = x, !.i = level - 1, !.cand = {}])
  BY DEF ReadTree
<1>3. PICK l : l = [r[t] EXCEPT !.pc = "walk", !.x = x, !.i = level - 1, !.cand = {}]
  OBVIOUS
<1>4. /\ l.pc = "walk" /\ l.x = x /\ l.key = r[t].key /\ l.torn = r[t].torn
      /\ l.visited = r[t].visited /\ l.stable = r[t].stable /\ l.seen = r[t].seen
  BY <1>1, <1>3 DEF ReaderType
<1>5. Moves(t, l)
  BY <1>2, <1>3
<1>6. r'[t] = l /\ l \in ReaderType /\ UNCHANGED <<key, tree, w>>
  BY <1>5 DEF Moves, heapVars, Inv, TypeOK
<1>7. /\ r[t].key \in Key /\ r[t].key \in Int /\ r[t].key \in Number
      /\ r[t].visited = {}
      /\ \A k \in r[t].stable : k >= r[t].key /\ k \in Int
  BY <1>1, HistoryFields, KeyAssumption, Pointers DEF ReadInv, HistoryInv, Inv
<1>8. x \in tree \cup {Header} /\ key[x] <= r[t].key
  <2>1. key[Header] <= r[t].key
    BY <1>7, KeyAssumption DEF Inv, HeapInv
  <2>2. CASE r[t].torn
    BY <1>1, <1>2, <2>1, <2>2 DEF AtOrBelow
  <2>3. CASE ~r[t].torn
    BY <1>2, <1>7, <2>3, FindLe DEF Inv
  <2>4. QED
    BY <2>2, <2>3
<1>9. x \in Cell /\ x \notin Private /\ key[x] \in Int
  BY <1>8, LinkedKept, CellKeys DEF Inv
<1>10. x \in tree \/ key[x] < r[t].key
  BY <1>7, <1>8, KeyAssumption DEF Inv, HeapInv
<1>11. \A k \in r[t].stable \cup {r[t].key} : Below(x, k)
  BY <1>7, <1>8, <1>9, <1>10 DEF Below
<1>12. ASSUME ~r[t].torn, NEW n \in tree, key[n] = r[t].key PROVE x = n
  <2>1. x = rb_find_le(r[t].key)
    BY <1>2, <1>12
  <2>2. x # Header /\ key[n] <= key[x]
    BY <1>7, <1>12, <2>1, FindLe DEF Inv
  <2>3. x \in tree /\ key[x] = key[n]
    BY <1>7, <1>8, <1>9, <1>12, <2>2
  <2>4. QED
    BY <1>12, <2>3, Bounds DEF Inv, TreeInv
<1>13. WalkInv(t)'
  <2>1. x \notin Private' /\ ~InWindow(t)'
    BY <1>4, <1>6, <1>9 DEF Private, InWindow
  <2>2. QED
    BY <1>4, <1>6, <1>7, <1>11, <1>12, <2>1 DEF WalkInv, Below
<1>14. EvalInv(t)' /\ DoneInv(t)'
  BY <1>4, <1>6 DEF EvalInv, DoneInv
<1>15. QED
  BY <1>1, <1>4, <1>5, <1>6, <1>13, <1>14, ReaderReads

(* The cell a walking reader loads comes after it, and is not private.     *)
LEMMA LoadedAhead ==
  ASSUME Inv, ReadInv, NEW t \in Reader, r[t].pc \in {"walk", "last"}
  PROVE  /\ r[t].x \in Cell /\ r[t].i \in Lvl /\ key[r[t].x] \in Int
         /\ Leads(t, r[t].x) /\ t \in Reading
         /\ Loaded(t) # NULL => /\ Loaded(t) \in Cell /\ Loaded(t) \notin Private
                                /\ key[Loaded(t)] \in Int
                                /\ Precedes(r[t].x, Loaded(t))
<1>1. /\ r[t].x \in Cell /\ Protected(t, r[t].x) /\ r[t].i \in Lvl
      /\ Loaded(t) \in Ptr /\ r[t].x \notin Private /\ t \in Reading
  BY ReaderX DEF ReadInv, WalkInv, Reading
<1>2. Upward(r[t].x) /\ Leads(t, r[t].x)
  BY <1>1, Ahead
<1>3. key[r[t].x] \in Int /\ (Loaded(t) # NULL => Loaded(t) \in Cell)
  BY <1>1, CellKeys, Pointers DEF Inv
<1>4. Loaded(t) # NULL => key[Loaded(t)] \in Int
  BY <1>3, CellKeys DEF Inv
<1>5. Loaded(t) # NULL => Loaded(t) \notin Private /\ Precedes(r[t].x, Loaded(t))
  BY <1>1, <1>2 DEF Upward, Loaded
<1>6. QED
  BY <1>1, <1>2, <1>3, <1>4, <1>5

(* x = next in the descent stays below the number searched for, and never  *)
(* leaves the node of that number in the tree.                             *)
LEMMA AdvanceReads ==
  ASSUME Inv, Inv', ReadInv, NEW t \in Reader, ReadAdvance(t)
  PROVE  ReadInv'
<1>1. /\ r[t].pc = "walk" /\ Loaded(t) # NULL /\ key[Loaded(t)] < r[t].key
      /\ r[t] \in ReaderType /\ t \in Reading
  BY ReaderFields DEF ReadAdvance, Before, Inv, Reading
<1>2. PICK l : l = [r[t] EXCEPT !.x = Loaded(t)]
  OBVIOUS
<1>3. /\ l.pc = "walk" /\ l.x = Loaded(t) /\ l.key = r[t].key /\ l.torn = r[t].torn
      /\ l.visited = r[t].visited /\ l.stable = r[t].stable /\ l.seen = r[t].seen
  BY <1>1, <1>2 DEF ReaderType
<1>4. Moves(t, l)
  BY <1>2 DEF ReadAdvance
<1>5. r'[t] = l /\ l \in ReaderType /\ UNCHANGED <<key, tree, w>>
  BY <1>4 DEF Moves, heapVars, Inv, TypeOK
<1>6. WalkInv(t)'
  <2>0. PICK n : n = Loaded(t)
    OBVIOUS
  <2>1. l.visited = {}
    BY <1>1, <1>3 DEF ReadInv, WalkInv
  <2>2. n \notin Private' /\ key[n] \in Int /\ r[t].key \in Int /\ key[n] < r[t].key
    BY <1>1, <1>5, <2>0, LoadedAhead, HistoryFields DEF Private, Inv
  <2>3. \A k \in l.stable : key[n] < k
    <3>1. \A k \in r[t].stable : k >= r[t].key /\ k \in Int
      BY <1>1, HistoryFields DEF ReadInv, HistoryInv, Inv
    <3>2. QED
      BY <1>3, <2>2, <3>1
  <2>4. ~InWindow(t)'
    BY <1>3, <1>5 DEF InWindow
  <2>5. ASSUME ~r[t].torn, r[t].key \in r[t].stable, NEW m \in tree,
               key[m] = r[t].key
        PROVE  FALSE
    <3>1. r[t].x = m
      BY <1>1, <1>3, <2>1, <2>5 DEF ReadInv, WalkInv
    <3>2. key[m] < key[n] \/ key[m] = key[n]
      BY <1>1, <2>0, <3>1, LoadedAhead DEF Precedes
    <3>3. QED
      BY <2>2, <2>5, <3>2
  <2>6. QED
    BY <1>3, <1>5, <2>0, <2>1, <2>2, <2>3, <2>4, <2>5 DEF WalkInv, Below
<1>7. EvalInv(t)' /\ DoneInv(t)'
  BY <1>3, <1>5 DEF EvalInv, DoneInv
<1>8. QED
  BY <1>1, <1>3, <1>4, <1>5, <1>6, <1>7, ReaderReads

(* The load that ends the descent opens the window.                        *)
LEMMA DescendReads ==
  ASSUME Inv, Inv', ReadInv, NEW t \in Reader, ReadDescend(t)
  PROVE  ReadInv'
<1>1. r[t].pc = "walk" /\ ~Before(t) /\ r[t] \in ReaderType /\ t \in Reading
  BY ReaderFields DEF ReadDescend, Inv, Reading
<1>2. PICK l : l = IF r[t].i > 0 THEN [r[t] EXCEPT !.i = @ - 1]
                                ELSE [r[t] EXCEPT !.pc = "last"]
  OBVIOUS
<1>3. /\ l.pc \in {"walk", "last"} /\ l.x = r[t].x /\ l.key = r[t].key
      /\ l.visited = r[t].visited /\ l.stable = r[t].stable /\ l.seen = r[t].seen
      /\ l.raced = r[t].raced /\ l.torn = r[t].torn
      /\ l.pc = "last" => ~(r[t].i > 0)
  BY <1>1, <1>2 DEF ReaderType
<1>4. Moves(t, l)
  BY <1>2 DEF ReadDescend
<1>5. r'[t] = l /\ l \in ReaderType /\ UNCHANGED <<key, tree, forward, w>>
  BY <1>4 DEF Moves, heapVars, Inv, TypeOK
<1>6. WalkInv(t)'
  <2>1. WalkInv(t) /\ r[t].visited = {}
    BY <1>1 DEF ReadInv, WalkInv
  <2>2. ASSUME l.pc = "last", forward[l.x][0] # NULL
        PROVE  key[forward[l.x][0]] >= l.key
    <3>0. r[t].i \in Lvl /\ r[t].i \in Int /\ r[t].i >= 0
      BY ReaderFields, Bounds DEF Inv
    <3>1. r[t].i = 0
      BY <1>3, <2>2, <3>0
    <3>2. ~(key[forward[l.x][0]] < l.key) /\ key[forward[l.x][0]] \in Int
      BY <1>1, <1>3, <2>2, <3>1, LoadedAhead DEF Before, Loaded
    <3>3. l.key \in Int
      BY <1>3, HistoryFields DEF Inv
    <3>4. QED
      BY <3>2, <3>3
  <2>3. InWindow(t)' => l.pc = "last"
    BY <1>5 DEF InWindow
  <2>4. Private' = Private
    BY <1>5 DEF Private
  <2>5. QED
    BY <1>1, <1>3, <1>5, <2>1, <2>2, <2>3, <2>4 DEF WalkInv, Below
<1>7. EvalInv(t)' /\ DoneInv(t)'
  BY <1>3, <1>5 DEF EvalInv, DoneInv
<1>8. QED
  BY <1>1, <1>3, <1>4, <1>5, <1>6, <1>7, ReaderReads

(* The second load of forward[0] gives the node the answer is taken from.  *)
LEMMA LastReads ==
  ASSUME Inv, Inv', ReadInv, NEW t \in Reader, ReadLast(t) PROVE ReadInv'
<1>1. r[t].pc = "last" /\ r[t] \in ReaderType /\ r[t].i = 0 /\ t \in Reading
  BY ReaderFields DEF ReadLast, Inv, ReaderInv, Reading
<1>2. PICK l : l = [r[t] EXCEPT !.next = Loaded(t), !.pc = "eval"]
  OBVIOUS
<1>3. /\ l.pc = "eval" /\ l.next = Loaded(t) /\ l.key = r[t].key /\ l.op = r[t].op
      /\ l.visited = r[t].visited /\ l.stable = r[t].stable /\ l.seen = r[t].seen
      /\ l.raced = r[t].raced /\ l.torn = r[t].torn
  BY <1>1, <1>2 DEF ReaderType
<1>4. Moves(t, l)
  BY <1>2 DEF ReadLast
<1>5. r'[t] = l /\ l \in ReaderType /\ UNCHANGED <<key, pid, tree, w>>
  BY <1>4 DEF Moves, heapVars, Inv, TypeOK
<1>6. EvalInv(t)'
  <2>0. PICK n, x : n = Loaded(t) /\ x = r[t].x
    OBVIOUS
  <2>1. n = forward[x][0] /\ WalkInv(t)
    BY <1>1, <2>0 DEF Loaded, ReadInv
  <2>2. n \notin Private'
    <3>1. Private' = Private /\ NULL \notin Private
      BY <1>5, Pointers DEF Inv, WriterInv, Private, TypeOK
    <3>2. QED
      BY <1>1, <2>0, <3>1, LoadedAhead
  <2>3. l.visited # {} => l.op = "iter"
    BY <1>1, <1>3, <2>1 DEF WalkInv
  <2>4. ASSUME NEW k \in l.stable
        PROVE  k \in l.visited \/ (n # NULL /\ key[n] <= k)
    <3>1. k \in l.visited \/ Below(x, k)
      BY <1>1, <1>3, <2>0, <2>1, <2>4 DEF WalkInv
    <3>2. Leads(t, x)
      BY <1>1, <2>0, LoadedAhead
    <3>3. QED
      BY <1>3, <2>1, <2>4, <3>1, <3>2 DEF Leads
  <2>5. ASSUME n # NULL
        PROVE  /\ \A j \in l.visited : j < key[n] \/ (j = key[n] /\ j \in Spoiled)
               /\ l.visited = {} /\ ~l.raced => key[n] >= l.key
               /\ key[n] = l.key => Known(t, n)
               /\ key[n] = l.key /\ l.visited = {} /\ ~l.torn /\ l.key \in l.stable =>
                    n \notin tree
    <3>1. Precedes(x, n) /\ key[x] \in Int /\ key[n] \in Int
      BY <1>1, <2>0, <2>5, LoadedAhead
    <3>2. ASSUME NEW j \in l.visited, ~(j < key[n])
          PROVE  j = key[n] /\ j \in Spoiled
      <4>1. j <= key[x] /\ j \in Int /\ pid[x] \in Pid
        BY <1>1, <1>3, <2>0, <2>1, HistoryFields DEF WalkInv, Inv
      <4>2. j = key[n] /\ j = key[x] /\ x \in tree
        BY <3>1, <3>2, <4>1 DEF Precedes
      <4>3. j \in Key
        BY <4>2, Bounds DEF Inv, HeapInv, TreeInv
      <4>4. QED
        BY <4>1, <4>2, <4>3, Values DEF Spoiled
    <3>3. l.visited = {} /\ ~l.raced => key[n] >= l.key
      BY <1>1, <1>3, <2>0, <2>1, <2>5 DEF WalkInv, InWindow
    <3>4. key[n] = l.key => Known(t, n)
      <4>1. Leads(t, x)
        BY <1>1, <2>0, LoadedAhead
      <4>2. QED
        BY <1>3, <2>1, <2>5, <4>1 DEF Leads
    <3>5. ASSUME key[n] = l.key, l.visited = {}, ~l.torn, l.key \in l.stable, n \in tree
          PROVE  FALSE
      <4>1. x = n
        BY <1>1, <1>3, <2>0, <2>1, <3>5 DEF WalkInv
      <4>2. QED
        BY <3>1, <3>5, <4>1 DEF Precedes
    <3>6. QED
      BY <3>2, <3>3, <3>4, <3>5
  <2>6. Spoiled' = Spoiled /\ (Known(t, n) => Known(t, n)')
    BY <1>3, <1>5 DEF Spoiled, Known
  <2>7. QED
    BY <1>3, <1>5, <2>0, <2>2, <2>3, <2>4, <2>5, <2>6 DEF EvalInv
<1>7. WalkInv(t)' /\ DoneInv(t)'
  BY <1>3, <1>5 DEF WalkInv, DoneInv
<1>8. QED
  BY <1>1, <1>3, <1>4, <1>5, <1>6, <1>7, ReaderReads

(* The node a reader evaluates is one it may stand on.                     *)
LEMMA EvalNode ==
  ASSUME Inv, ReadInv, NEW t \in Reader, r[t].pc = "eval", r[t].next # NULL
  PROVE  /\ r[t].next \in Cell /\ r[t].next \notin Private
         /\ Protected(t, r[t].next) /\ key[r[t].next] \in Int
         /\ pid[r[t].next] \in Value /\ t \in Reading
<1>1. /\ r[t].next \in Cell /\ Protected(t, r[t].next)
      /\ pid[r[t].next] \in Value
  BY ReaderNext
<1>2. r[t].next \notin Private /\ t \in Reading
  BY DEF ReadInv, EvalInv, Reading
<1>3. QED
  BY <1>1, <1>2, CellKeys DEF Inv

(* A read that ends keeps ReadInv if its answer is right.                  *)
LEMMA AnswerReads ==
  ASSUME Inv, Inv', ReadInv, NEW t \in Reader, NEW l \in ReaderType, Moves(t, l),
         r[t].pc = "eval", l.pc = "done", DoneInv(t)'
  PROVE  ReadInv'
<1>1. r'[t] = l
  BY DEF Moves, Inv, TypeOK
<1>2. WalkInv(t)' /\ EvalInv(t)'
  BY <1>1 DEF WalkInv, EvalInv
<1>3. QED
  BY <1>2, ReaderReads

(* The answer of pid_rb_skiplist_lookup_rcu() is known, and is NULL for a  *)
(* stable number only after one of the two races: the node found is        *)
(* outside the tree, and its own pointer is the answer.                    *)
LEMMA LookupReads ==
  ASSUME Inv, Inv', BoundInv, ReadInv, NEW t \in Reader,
         pid_rb_skiplist_lookup_rcu(t)
  PROVE  ReadInv'
<1>1. /\ r[t].pc = "eval" /\ r[t].op \in {"none", "lookup"}
      /\ r[t] \in ReaderType /\ t \in Reading
  BY ReaderFields DEF pid_rb_skiplist_lookup_rcu, AtEnd, Inv, Reading
<1>2. PICK n : n = r[t].next
  OBVIOUS
<1>3. PICK res : res = IF KeyAt(n) = {r[t].key} THEN pid[n] ELSE NULL
  OBVIOUS
<1>4. PICK stable : stable = r[t].stable \cap {r[t].key}
  OBVIOUS
<1>5. PICK l : l = [IdleReader EXCEPT !.pc = "done", !.op = "lookup",
                      !.key = r[t].key, !.res = res, !.seen = r[t].seen,
                      !.raced = r[t].raced, !.torn = r[t].torn, !.stable = stable]
  OBVIOUS
<1>6. Moves(t, l)
  BY <1>2, <1>3, <1>4, <1>5 DEF pid_rb_skiplist_lookup_rcu, Returns
<1>7. r'[t] = l /\ l \in ReaderType /\ UNCHANGED <<key, pid, tree>>
  BY <1>6 DEF Moves, heapVars, Inv, TypeOK
<1>8. /\ l.pc = "done" /\ l.op = "lookup" /\ l.key = r[t].key /\ l.res = res
      /\ l.stable = stable /\ l.seen = r[t].seen /\ l.raced = r[t].raced
      /\ l.torn = r[t].torn
  BY <1>5 DEF IdleReader
<1>9. ASSUME res # NULL, r[t].key \notin Spoiled PROVE res \in r[t].seen
  <2>1. n # NULL /\ key[n] = r[t].key /\ res = pid[n]
    BY <1>3, <1>9 DEF KeyAt
  <2>2. pid[n] \in r[t].seen \cup {NULL}
    BY <1>1, <1>2, <1>9, <2>1 DEF ReadInv, EvalInv, Known
  <2>3. QED
    BY <1>9, <2>1, <2>2
<1>10. ASSUME r[t].key \in stable, ~r[t].raced, ~r[t].torn PROVE res # NULL
  <2>1. r[t].visited = {} /\ r[t].key \in Int /\ r[t].key \in r[t].stable
    BY <1>1, <1>4, <1>10, HistoryFields DEF ReadInv, EvalInv, Inv
  <2>2. n # NULL /\ key[n] <= r[t].key /\ key[n] >= r[t].key
    BY <1>1, <1>2, <1>10, <2>1 DEF ReadInv, EvalInv
  <2>3. key[n] = r[t].key
    BY <1>1, <1>2, <2>1, <2>2, EvalNode
  <2>4. n \notin tree
    BY <1>1, <1>2, <1>10, <2>1, <2>2, <2>3 DEF ReadInv, EvalInv
  <2>5. n \in Cell /\ n \notin Private /\ Protected(t, n)
    BY <1>1, <1>2, <2>2, EvalNode
  <2>6. pid[n] \in Pid
    BY <1>1, <2>1, <2>3, <2>4, <2>5, StableNode
  <2>7. res = pid[n]
    BY <1>3, <2>2, <2>3 DEF KeyAt
  <2>8. QED
    BY <2>6, <2>7, CellAssumption
<1>11. DoneInv(t)'
  <2>1. Spoiled' = Spoiled
    BY <1>7 DEF Spoiled
  <2>2. QED
    BY <1>7, <1>8, <1>9, <1>10, <2>1 DEF DoneInv
<1>12. QED
  BY <1>1, <1>6, <1>7, <1>8, <1>11, AnswerReads

(* pid_rb_skiplist_find_ge_rcu() gives any node, and nothing is said of it.*)
LEMMA FindGeReads ==
  ASSUME Inv, Inv', ReadInv, NEW t \in Reader, pid_rb_skiplist_find_ge_rcu(t)
  PROVE  ReadInv'
<1>1. r[t].pc = "eval"
  BY DEF pid_rb_skiplist_find_ge_rcu, AtEnd
<1>2. PICK res : res = IF r[t].next = NULL THEN NULL ELSE pid[r[t].next]
  OBVIOUS
<1>3. PICK k, stable : k = r[t].key /\ stable = IdleReader.stable \cap {r[t].key}
  OBVIOUS
<1>4. PICK l : l = [IdleReader EXCEPT !.pc = "done", !.op = "find_ge", !.key = k,
                      !.res = res, !.seen = IdleReader.seen,
                      !.raced = IdleReader.raced, !.torn = IdleReader.torn,
                      !.stable = stable]
  OBVIOUS
<1>5. Moves(t, l)
  BY <1>2, <1>3, <1>4 DEF pid_rb_skiplist_find_ge_rcu, Returns
<1>6. r'[t] = l /\ l \in ReaderType
  BY <1>5 DEF Moves, Inv, TypeOK
<1>7. l.pc = "done" /\ l.op = "find_ge"
  BY <1>4 DEF IdleReader
<1>8. DoneInv(t)'
  BY <1>6, <1>7 DEF DoneInv
<1>9. QED
  BY <1>1, <1>5, <1>6, <1>7, <1>8, AnswerReads

(* Each round of pid_rb_skiplist_iter_next_rcu() takes the next number that *)
(* is stable, or one below it, and stands on a node with a struct pid.     *)
LEMMA IterReads ==
  ASSUME Inv, Inv', ReadInv, NEW t \in Reader,
         pid_rb_skiplist_iter_next_rcu(t)
  PROVE  ReadInv'
<1>1. r[t].pc = "eval" /\ r[t] \in ReaderType /\ t \in Reading
  BY ReaderFields DEF pid_rb_skiplist_iter_next_rcu, AtEnd, Inv, Reading
<1>2. PICK n : n = r[t].next
  OBVIOUS
<1>3. CASE IterEnds(t) \/ pid[n] = NULL
  <2>1. PICK hole \in BOOLEAN : hole <=> ~IterEnds(t)
    OBVIOUS
  <2>2. PICK l : l = [r[t] EXCEPT !.op = "iter", !.hole = hole, !.res = NULL,
                                  !.x = NULL, !.next = NULL, !.pc = "done"]
    OBVIOUS
  <2>3. Moves(t, l)
    <3>1. hole = ~IterEnds(t)
      BY <2>1 DEF IterEnds
    <3>2. QED
      BY <1>2, <1>3, <2>2, <3>1 DEF pid_rb_skiplist_iter_next_rcu
  <2>4. r'[t] = l /\ l \in ReaderType
    BY <2>3 DEF Moves, Inv, TypeOK
  <2>5. /\ l.pc = "done" /\ l.op = "iter" /\ l.visited = r[t].visited
        /\ l.stable = r[t].stable /\ l.raced = r[t].raced /\ l.hole = hole
    BY <1>1, <2>2 DEF ReaderType
  <2>6. ASSUME ~r[t].raced, IterEnds(t), NEW k \in r[t].stable
        PROVE  k \in r[t].visited
    <3>1. n = NULL \/ (n # NULL /\ r[t].visited = {} /\ key[n] < r[t].key)
      BY <1>2, <2>6 DEF IterEnds
    <3>2. CASE n = NULL
      BY <1>1, <1>2, <2>6, <3>2 DEF ReadInv, EvalInv
    <3>3. CASE n # NULL /\ r[t].visited = {} /\ key[n] < r[t].key
      <4>1. key[n] >= r[t].key
        BY <1>1, <1>2, <2>6, <3>3 DEF ReadInv, EvalInv
      <4>2. key[n] \in Int /\ r[t].key \in Int
        BY <1>1, <1>2, <3>3, EvalNode, HistoryFields DEF Inv
      <4>3. QED
        BY <3>3, <4>1, <4>2
    <3>4. QED
      BY <3>1, <3>2, <3>3
  <2>7. DoneInv(t)'
    BY <2>1, <2>4, <2>5, <2>6 DEF DoneInv
  <2>8. QED
    BY <1>1, <2>3, <2>4, <2>5, <2>7, AnswerReads
<1>4. CASE ~(IterEnds(t) \/ pid[n] = NULL)
  <2>1. n # NULL
    BY <1>2, <1>4 DEF IterEnds
  <2>2. n \in Cell /\ n \notin Private /\ key[n] \in Int /\ pid[n] \in Value
    BY <1>1, <1>2, <2>1, EvalNode
  <2>3. pid[n] \in Pid
    BY <1>4, <2>2, Values
  <2>4. PICK visited, res : visited = r[t].visited \cup {key[n]} /\ res = pid[n]
    OBVIOUS
  <2>5. PICK l : l = [r[t] EXCEPT !.op = "iter", !.res = res, !.visited = visited,
                                  !.x = n, !.next = NULL, !.pc = "last"]
    OBVIOUS
  <2>6. Moves(t, l)
    BY <1>2, <1>4, <2>4, <2>5 DEF pid_rb_skiplist_iter_next_rcu
  <2>7. r'[t] = l /\ l \in ReaderType /\ UNCHANGED <<key, pid, tree, w>>
    BY <2>6 DEF Moves, heapVars, Inv, TypeOK
  <2>8. /\ l.pc = "last" /\ l.op = "iter" /\ l.key = r[t].key /\ l.x = n
        /\ l.visited = visited /\ l.stable = r[t].stable /\ l.seen = r[t].seen
    BY <1>1, <2>5 DEF ReaderType
  <2>9. visited # {} /\ \A j \in visited : j <= key[n]
    <3>1. \A j \in r[t].visited : (j < key[n] \/ j = key[n]) /\ j \in Int
      BY <1>1, <1>2, <2>1, HistoryFields DEF ReadInv, EvalInv, Inv
    <3>2. QED
      BY <2>2, <2>4, <3>1
  <2>10. ASSUME NEW k \in r[t].stable PROVE k \in visited \/ key[n] < k
    <3>1. k \in r[t].visited \/ key[n] <= k
      BY <1>1, <1>2, <2>10 DEF ReadInv, EvalInv
    <3>2. k \in Int
      BY HistoryFields DEF Inv
    <3>3. QED
      BY <2>2, <2>4, <3>1, <3>2
  <2>11. WalkInv(t)'
    <3>1. ~InWindow(t)' /\ n \notin Private'
      BY <2>2, <2>7, <2>8, <2>9 DEF InWindow, Private
    <3>2. QED
      BY <2>3, <2>7, <2>8, <2>9, <2>10, <3>1 DEF WalkInv, Below
  <2>12. EvalInv(t)' /\ DoneInv(t)'
    BY <2>7, <2>8 DEF EvalInv, DoneInv
  <2>13. QED
    BY <1>1, <2>6, <2>7, <2>8, <2>11, <2>12, ReaderReads
<1>5. QED
  BY <1>3, <1>4

(* rcu_read_unlock() forgets the reader.                                   *)
LEMMA UnlockReads ==
  ASSUME Inv, Inv', ReadInv, NEW t \in Reader, rcu_read_unlock(t) PROVE ReadInv'
<1>1. UNCHANGED <<level, key, pid, height, forward, tree, allocated, dying, linked>>
  BY DEF rcu_read_unlock, heapVars
<1>2. r'[t].pc = "idle" /\ \A u \in Reader : u # t => r'[u] = r[u]
  BY DEF rcu_read_unlock, IdleReader, Inv, TypeOK
<1>3. w'.pc = w.pc /\ w'.x = w.x /\ w'.i = w.i /\ w'.key = w.key
  BY DEF rcu_read_unlock, Inv, TypeOK, WriterType
<1>4. \A n \in Node : gp'[n] = gp[n] \ {t}
  BY DEF rcu_read_unlock
<1>5. Private' = Private /\ pos' = pos /\ Spoiled' = Spoiled
  BY <1>1, <1>3, SameOrder DEF Private, Spoiled
<1>6. Reading' \subseteq Reading /\ \A u \in Reading' : r'[u] = r[u]
  BY <1>2 DEF Reading
<1>7. HistoryInv'
  BY <1>1, <1>5, <1>6 DEF ReadInv, HistoryInv, Findable, Known
<1>8. UnlinkedInv'
  BY <1>1, <1>3, <1>5 DEF ReadInv, UnlinkedInv, Upward, Precedes, IsSuccessor
<1>9. RemovedInv'
  <2>1. \A n \in dying : \A u \in gp'[n] : u \in gp[n]
    BY <1>4 DEF Inv, TypeOK
  <2>2. QED
    BY <1>1, <1>5, <1>6, <2>1
       DEF ReadInv, RemovedInv, Upward, Leads, Precedes, Below, Known
<1>10. ASSUME NEW u \in Reader PROVE WalkInv(u)' /\ EvalInv(u)' /\ DoneInv(u)'
  <2>1. CASE u # t
    BY <1>1, <1>2, <1>5, <2>1
       DEF ReadInv, WalkInv, EvalInv, DoneInv, InWindow, Below, Known
  <2>2. CASE u = t
    BY <1>2, <2>2 DEF WalkInv, EvalInv, DoneInv
  <2>3. QED
    BY <2>1, <2>2
<1>11. QED
  BY <1>7, <1>8, <1>9, <1>10 DEF ReadInv

-----------------------------------------------------------------------------
(* The theorems about readers.                                             *)

(* Every step keeps ReadInv.                                               *)
LEMMA NextReads == Inv /\ Inv' /\ BoundInv /\ ReadInv /\ [Next]_vars => ReadInv'
<1> SUFFICES ASSUME Inv, Inv', BoundInv, ReadInv, [Next]_vars PROVE ReadInv'
  OBVIOUS
<1>1. CASE \/ \E k \in Key, p \in Pid : Reserve(k, p) \/ Publish(k, p) \/ GiveBack(k, p)
           \/ DestroySync
  BY <1>1, QuietReads
<1>2. CASE pid_rb_skiplist_init
  BY <1>2, UnsharedReads
<1>3. CASE WriterStep
  BY <1>3, QuietReads, ReplaceReads, AllocReads, LinkReads, TreeReads, FoundReads,
     UnlinkReads, ShrinkReads, CallRcuReads, UnsharedReads DEF WriterStep
<1>4. ASSUME NEW n \in Node, pid_sl_node_rcu_free(n) PROVE ReadInv'
  BY <1>4, RcuFreeReads
<1>5. ASSUME NEW t \in Reader, NEW c \in ReadCalls, ReadBegin(t, c[2])
      PROVE  ReadInv'
  BY <1>5, BeginReads
<1>6. ASSUME NEW t \in Reader, ReaderStep(t) PROVE ReadInv'
  BY <1>6, TreeSearchReads, AdvanceReads, DescendReads, LastReads, LookupReads,
     FindGeReads, IterReads, UnlockReads DEF ReaderStep
<1>7. CASE UNCHANGED vars
  <2>1. pos' = pos /\ Spoiled' = Spoiled
    BY <1>7, SameOrder DEF vars, Spoiled
  <2>2. UNCHANGED <<key, pid, forward, tree, dying, gp, linked, w, r>>
    BY <1>7 DEF vars
  <2>3. HistoryInv' /\ UnlinkedInv' /\ RemovedInv'
    BY <2>1, <2>2 DEF ReadInv, HistoryInv, UnlinkedInv, RemovedInv, Reading,
       Upward, Leads, Precedes, Below, Private, IsSuccessor, Findable, Known
  <2>4. \A t \in Reader : WalkInv(t)' /\ EvalInv(t)' /\ DoneInv(t)'
    BY <2>1, <2>2 DEF ReadInv, WalkInv, EvalInv, DoneInv, Private, InWindow,
       Below, Known
  <2>5. QED
    BY <2>3, <2>4 DEF ReadInv
<1>8. QED
  BY <1>1, <1>2, <1>3, <1>4, <1>5, <1>6, <1>7 DEF Next

(* The invariant of the readers holds in every reachable state: a reader   *)
(* the tree has let in, or under whom a node was removed, still meets all  *)
(* that stayed.                                                            *)
THEOREM ReadInvariance == Spec => []ReadInv
<1>1. Init /\ Inv => ReadInv
  <2> SUFFICES ASSUME Init, Inv PROVE ReadInv
    OBVIOUS
  <2>1. Active = {}
    BY DEF Init, Active, IdleReader
  <2>2. UnlinkedInv
    BY DEF Init, UnlinkedInv, IdleWriter
  <2>3. QED
    BY <2>1, <2>2, NoReaders
<1>2. QED
  BY <1>1, InitInv, InitBound, NextInv, NextBound, NextReads, PTL DEF Spec

(* pid_rb_skiplist_lookup_rcu() returns only what lookups were to find     *)
(* during the section, although a number may have two nodes, unless two    *)
(* calls of alloc_pid() have left a struct pid in the tree for it; and it  *)
(* misses a number lookups were to find throughout only if a smaller one   *)
(* was linked between its two loads of forward[0] or a node was inserted   *)
(* into the tree under it.                                                 *)
THEOREM LookupsRight == Spec => []LookupRight
<1>1. ReadInv => LookupRight
  BY DEF ReadInv, DoneInv, LookupRight
<1>2. QED
  BY <1>1, ReadInvariance, PTL

(* pid_rb_skiplist_iter_next_rcu() visits every number that lookups were   *)
(* to find throughout, unless it meets a placeholder or that race, and     *)
(* none twice, but one of which the tree has a struct pid.                 *)
THEOREM IterationsRight == Spec => []IterationRight
<1>1. ReadInv => IterationRight
  <2> SUFFICES ASSUME ReadInv, NEW t \in Reader, r[t].op = "iter"
               PROVE  /\ r[t].pc = "eval" /\ ~IterEnds(t) /\ pid[r[t].next] # NULL =>
                           \A k \in r[t].visited :
                             \/ k < key[r[t].next]
                             \/ k = key[r[t].next] /\ k \in Spoiled
                      /\ r[t].pc = "done" /\ ~r[t].raced /\ ~r[t].hole =>
                           r[t].stable \subseteq r[t].visited
    BY DEF IterationRight
  <2>1. EvalInv(t) /\ DoneInv(t)
    BY DEF ReadInv
  <2>2. QED
    BY <2>1 DEF EvalInv, DoneInv, IterEnds
<1>2. QED
  BY <1>1, ReadInvariance, PTL
=============================================================================
