---------------------------- MODULE PidSkiplist ----------------------------
(***************************************************************************)
(* The skip list that replaces the IDR of a PID namespace                  *)
(* (skiplist/pid_skiplist.c).  One writer at a time, serialised by         *)
(* pidmap_lock, inserts and removes nodes; any number of readers walk the  *)
(* list inside rcu_read_lock() with no lock.  Every store the writer       *)
(* makes to memory a reader can reach is an action of its own, and so is   *)
(* every pointer load of a reader, so readers run between any two stores.  *)
(* Stores become visible in program order (x86, the machine the project    *)
(* builds for).                                                            *)
(*                                                                         *)
(* Memory is a finite pool of cells.  call_rcu() queues a removed cell     *)
(* with the readers active at that moment; it is freed, and may be handed  *)
(* out again, once all of them have left their read-side sections.         *)
(***************************************************************************)
EXTENDS Integers

CONSTANTS
  Node,               \* heap cells a list node can occupy
  Header,             \* the cell of sl->header
  Key,                \* PID numbers
  INT_MIN,            \* the key of the header, below every PID number
  Pid,                \* struct pid pointers
  Reader,             \* threads in RCU read-side sections
  ReadCalls,          \* the calls readers make: <<operation, number>>
  InsertPids,         \* the pointers the writer inserts
  PID_SL_MAX_LEVEL,
  NULL,
  ABSENT              \* "no entry" in the abstract map

ASSUME KeyAssumption ==
  /\ Key \subseteq Int
  /\ INT_MIN \in Int
  /\ \A k \in Key : INT_MIN < k

ASSUME LevelAssumption == PID_SL_MAX_LEVEL \in Nat \ {0}

ASSUME CellAssumption ==
  /\ Header \notin Node
  /\ NULL \notin Node \cup {Header} \cup Pid
  /\ ABSENT \notin Pid \cup {NULL}

ReaderOp == {"lookup", "find_ge", "iter"}

ASSUME CallAssumption ==
  /\ ReadCalls \subseteq ReaderOp \X Key
  /\ InsertPids \subseteq Pid \cup {NULL}

VARIABLES
  level,      \* sl->level; 0 before pid_skiplist_init()
  key,        \* cell -> node->key
  pid,        \* cell -> node->pid
  height,     \* cell -> node->level, the length of node->forward
  forward,    \* cell -> node->forward
  allocated,  \* the node cells handed out by kzalloc()
  dying,      \* the cells queued by call_rcu()
  gp,         \* cell -> the readers its grace period still waits for
  linked,     \* history: level -> the nodes on the list of that level
  w,          \* the writer: its program counter and local variables
  r           \* reader -> its program counter and local variables

heapVars == <<key, pid, height, forward, allocated>>
rcuVars  == <<dying, gp>>
vars     == <<level, key, pid, height, forward, allocated, dying, gp,
              linked, w, r>>

Cell   == Node \cup {Header}
Lvl    == 0 .. PID_SL_MAX_LEVEL - 1
Value  == Pid \cup {NULL}

Empty == [i \in Lvl |-> NULL]
-----------------------------------------------------------------------------
(* The abstract map: a number is present from the store that links its     *)
(* node at level 0 to the store that unlinks it there.                     *)
NodeOf(k) == CHOOSE n \in linked[0] : key[n] = k
Present(k) == \E n \in linked[0] : key[n] = k
Map == [k \in Key |-> IF Present(k) THEN pid[NodeOf(k)] ELSE ABSENT]

(* The readers inside a read-side critical section.                        *)
Active == {t \in Reader : r[t].pc # "idle"}

IdleWriter == [pc |-> "idle", op |-> "none", key |-> INT_MIN, pid |-> NULL,
               x |-> NULL, i |-> 0, lvl |-> 0, update |-> Empty, wait |-> {}]

IdleReader == [pc |-> "idle", op |-> "none", key |-> INT_MIN, x |-> NULL,
               next |-> NULL, i |-> 0, res |-> NULL, visited |-> {},
               seen |-> {}, stable |-> {}, raced |-> FALSE, hole |-> FALSE]

(* A reader between its two loads of forward[0]: the one that ended the    *)
(* descent and the one it takes its answer from.                           *)
InWindow(t) == r[t].pc = "last" /\ r[t].visited = {}

(* What a map update means to the readers it overlaps (history only):      *)
(* seen grows by the pointer k is bound to, stable loses k when k is       *)
(* unbound, raced records that a number below the one searched for came in *)
(* between the two loads.                                                  *)
Observe(k, v, inserted) ==
  r' = [t \in Reader |->
          IF t \notin Active THEN r[t]
          ELSE [r[t] EXCEPT
                  !.seen   = IF k = r[t].key /\ v \in Pid THEN @ \cup {v} ELSE @,
                  !.stable = IF v \in Pid THEN @ ELSE @ \ {k},
                  !.raced  = @ \/ (inserted /\ k < r[t].key /\ InWindow(t))]]
-----------------------------------------------------------------------------
Init ==
  /\ level = 0
  /\ key = [n \in Cell |-> INT_MIN]
  /\ pid = [n \in Cell |-> NULL]
  /\ height = [n \in Cell |-> IF n = Header THEN PID_SL_MAX_LEVEL ELSE 0]
  /\ forward = [n \in Cell |-> Empty]
  /\ allocated = {}
  /\ dying = {}
  /\ gp = [n \in Node |-> {}]
  /\ linked = [i \in Lvl |-> {}]
  /\ w = [IdleWriter EXCEPT !.pc = "down"]
  /\ r = [t \in Reader |-> IdleReader]

(* pid_skiplist_init(): the header, with PID_SL_MAX_LEVEL null pointers.   *)
pid_skiplist_init ==
  /\ w.pc = "down"
  /\ level' = 1
  /\ forward' = [forward EXCEPT ![Header] = Empty]
  /\ w' = IdleWriter
  /\ UNCHANGED <<key, pid, height, allocated, rcuVars, linked, r>>
-----------------------------------------------------------------------------
(* The writer.  The search for the predecessors of a key is common to      *)
(* pid_skiplist_insert() and pid_skiplist_remove().                        *)

BeginWrite(op, k, p) ==
  /\ w.pc = "idle"
  /\ w' = [IdleWriter EXCEPT !.pc = "search", !.op = op, !.key = k, !.pid = p,
                             !.x = Header, !.i = level - 1]
  /\ UNCHANGED <<level, heapVars, rcuVars, linked, r>>

pid_skiplist_insert(k, p) == BeginWrite("insert", k, p)
pid_skiplist_remove(k)    == BeginWrite("remove", k, NULL)

(* Mutant: <= for <.                                                       *)
NextIsBelowOrAt ==
  forward[w.x][w.i] # NULL /\ key[forward[w.x][w.i]] <= w.key

(* while (x->forward[i] && x->forward[i]->key < key) x = x->forward[i];    *)
NextIsBelow ==
  forward[w.x][w.i] # NULL /\ key[forward[w.x][w.i]] < w.key

SearchAdvance ==
  /\ w.pc = "search" /\ w.i >= 0
  /\ NextIsBelow
  /\ w' = [w EXCEPT !.x = forward[w.x][w.i]]
  /\ UNCHANGED <<level, heapVars, rcuVars, linked, r>>

(* update[i] = x; and on to the level below.                               *)
SearchDescend ==
  /\ w.pc = "search" /\ w.i >= 0
  /\ ~NextIsBelow
  /\ w' = [w EXCEPT !.update[w.i] = w.x, !.i = @ - 1]
  /\ UNCHANGED <<level, heapVars, rcuVars, linked, r>>

(* The node after the last predecessor, and whether it holds the key.      *)
Candidate == forward[w.x][0]
Found     == Candidate # NULL /\ key[Candidate] = w.key

SearchDone == w.pc = "search" /\ w.i = -1

(* Mutant: the node found is taken over even if it has another key.        *)
InsertTakesOver ==
  /\ SearchDone /\ w.op = "insert" /\ Candidate # NULL
  /\ key' = [key EXCEPT ![Candidate] = w.key]
  /\ pid' = [pid EXCEPT ![Candidate] = w.pid]
  /\ Observe(w.key, w.pid, FALSE)
  /\ w' = IdleWriter
  /\ UNCHANGED <<level, height, forward, allocated, rcuVars, linked>>

(* The key is present: only its struct pid pointer is replaced.            *)
InsertReplace ==
  /\ SearchDone /\ w.op = "insert" /\ Found
  /\ pid' = [pid EXCEPT ![Candidate] = w.pid]
  /\ Observe(w.key, w.pid, FALSE)
  /\ w' = IdleWriter
  /\ UNCHANGED <<level, key, height, forward, allocated, rcuVars, linked>>

(* Mutant: the maximum is passed by one.                                   *)
UncappedLevel == 1 .. PID_SL_MAX_LEVEL + 1

(* pid_sl_random_level(): any height up to the maximum.  (32 random bits,  *)
(* four a level, give the heights 1 .. 8 and 16; all are allowed here.)    *)
pid_sl_random_level == 1 .. PID_SL_MAX_LEVEL

(* sl->level is raised, with the header as predecessor on the new levels,  *)
(* before the node is allocated.                                           *)
InsertRaise ==
  /\ SearchDone /\ w.op = "insert" /\ ~Found
  /\ \E lvl \in pid_sl_random_level :
       /\ w' = [w EXCEPT !.pc = "alloc", !.x = NULL, !.lvl = lvl,
                         !.update = [i \in Lvl |-> IF i \in level .. lvl - 1
                                                   THEN Header ELSE @[i]]]
       /\ level' = IF lvl > level THEN lvl ELSE level
  /\ UNCHANGED <<heapVars, rcuVars, linked, r>>

(* pid_sl_node_alloc() succeeds: a zeroed node, still private.             *)
InsertAlloc ==
  /\ w.pc = "alloc"
  /\ \E n \in Node \ allocated :
       /\ allocated' = allocated \cup {n}
       /\ key'     = [key EXCEPT ![n] = w.key]
       /\ pid'     = [pid EXCEPT ![n] = w.pid]
       /\ height'  = [height EXCEPT ![n] = w.lvl]
       /\ forward' = [forward EXCEPT ![n] = Empty]
       /\ w' = [w EXCEPT !.pc = "link", !.x = n, !.i = 0]
  /\ UNCHANGED <<level, rcuVars, linked, r>>

(* pid_sl_node_alloc() fails: -ENOMEM, with sl->level already raised.      *)
InsertNoMemory ==
  /\ w.pc = "alloc"
  /\ w' = IdleWriter
  /\ UNCHANGED <<level, heapVars, rcuVars, linked, r>>

(* One round of the linking loop, from level 0 up.                         *)
InsertLink ==
  LET u == w.update[w.i] IN
  /\ w.pc = "link"
  /\ forward' = [forward EXCEPT ![w.x][w.i] = forward[u][w.i],
                                ![u][w.i] = w.x]
  /\ linked' = [linked EXCEPT ![w.i] = @ \cup {w.x}]
  /\ IF w.i = 0 THEN Observe(w.key, w.pid, TRUE) ELSE UNCHANGED r
  /\ w' = IF w.i + 1 < w.lvl THEN [w EXCEPT !.i = @ + 1] ELSE IdleWriter
  /\ UNCHANGED <<level, key, pid, height, allocated, rcuVars>>

(* if (!x || x->key != key) return;                                        *)
RemoveAbsent ==
  /\ SearchDone /\ w.op = "remove" /\ ~Found
  /\ w' = IdleWriter
  /\ UNCHANGED <<level, heapVars, rcuVars, linked, r>>

RemoveFound ==
  /\ SearchDone /\ w.op = "remove" /\ Found
  /\ w' = [w EXCEPT !.pc = "unlink", !.x = Candidate, !.i = 0]
  /\ UNCHANGED <<level, heapVars, rcuVars, linked, r>>

(* The unlinking loop goes on while the predecessor points to the node.    *)
Unlinking == w.i < level /\ forward[w.update[w.i]][w.i] = w.x

(* Mutant: the removed node's own pointer is cleared as well.              *)
RemoveUnlinkClears ==
  /\ w.pc = "unlink" /\ Unlinking
  /\ forward' = [forward EXCEPT ![w.update[w.i]][w.i] = forward[w.x][w.i],
                                ![w.x][w.i] = NULL]
  /\ linked' = [linked EXCEPT ![w.i] = @ \ {w.x}]
  /\ IF w.i = 0 THEN Observe(w.key, NULL, FALSE) ELSE UNCHANGED r
  /\ w' = [w EXCEPT !.i = @ + 1]
  /\ UNCHANGED <<level, key, pid, height, allocated, rcuVars>>

RemoveUnlink ==
  /\ w.pc = "unlink" /\ Unlinking
  /\ forward' = [forward EXCEPT ![w.update[w.i]][w.i] = forward[w.x][w.i]]
  /\ linked' = [linked EXCEPT ![w.i] = @ \ {w.x}]
  /\ IF w.i = 0 THEN Observe(w.key, NULL, FALSE) ELSE UNCHANGED r
  /\ w' = [w EXCEPT !.i = @ + 1]
  /\ UNCHANGED <<level, key, pid, height, allocated, rcuVars>>

(* Mutant: the top level is dropped without a look at it.                  *)
ShrinksAlways(l) == l = IF level > 1 THEN level - 1 ELSE 1

(* Empty levels at the top are dropped: l is where the loop                *)
(* while (new_level > 1 && !header->forward[new_level - 1]) stops.         *)
ShrinksTo(l) ==
  /\ l = 1 \/ forward[Header][l - 1] # NULL
  /\ \A m \in l .. level - 1 : forward[Header][m] = NULL

RemoveShrink ==
  /\ w.pc = "unlink" /\ ~Unlinking
  /\ \E l \in 1 .. level : ShrinksTo(l) /\ level' = l
  /\ w' = [w EXCEPT !.pc = "call_rcu", !.i = 0, !.update = Empty]
  /\ UNCHANGED <<heapVars, rcuVars, linked, r>>

(* Mutant: the node is not queued at all.                                  *)
RemoveForgets ==
  /\ w.pc = "call_rcu"
  /\ w' = IdleWriter
  /\ UNCHANGED <<level, heapVars, rcuVars, linked, r>>

(* Mutant: the node is freed without a grace period.                       *)
RemoveAtOnce ==
  /\ w.pc = "call_rcu"
  /\ dying' = dying \cup {w.x}
  /\ w' = IdleWriter
  /\ UNCHANGED <<level, heapVars, gp, linked, r>>

(* call_rcu(): the node is freed after the readers active now have left.   *)
RemoveCallRcu ==
  /\ w.pc = "call_rcu"
  /\ dying' = dying \cup {w.x}
  /\ gp' = [gp EXCEPT ![w.x] = Active]
  /\ w' = IdleWriter
  /\ UNCHANGED <<level, heapVars, linked, r>>

(* kfree(): the contents of the cell are lost.                             *)
Kfree(n) ==
  /\ allocated' = allocated \ {n}
  /\ key'     = [key EXCEPT ![n] = INT_MIN]
  /\ pid'     = [pid EXCEPT ![n] = NULL]
  /\ height'  = [height EXCEPT ![n] = 0]
  /\ forward' = [forward EXCEPT ![n] = Empty]

pid_sl_node_rcu_free(n) ==
  /\ n \in dying /\ gp[n] = {}
  /\ dying' = dying \ {n}
  /\ Kfree(n)
  /\ UNCHANGED <<level, gp, linked, w, r>>

(* pid_skiplist_destroy(): synchronize_rcu(), then every node left on the  *)
(* list, then the header.  The caller has dropped the last reference to    *)
(* the namespace, so no reader enters from here on.                        *)
DestroySync ==
  /\ w.pc = "idle"
  /\ w' = [IdleWriter EXCEPT !.pc = "sync", !.wait = Active]
  /\ UNCHANGED <<level, heapVars, rcuVars, linked, r>>

DestroyWalk ==
  /\ w.pc = "sync" /\ w.wait = {}
  /\ w' = [w EXCEPT !.pc = "free", !.x = forward[Header][0]]
  /\ UNCHANGED <<level, heapVars, rcuVars, linked, r>>

(* Mutant: the walk does not move on.                                      *)
DestroyNodeStays ==
  /\ w.pc = "free" /\ w.x # NULL
  /\ linked' = [i \in Lvl |-> linked[i] \ {w.x}]
  /\ Kfree(w.x)
  /\ UNCHANGED <<level, rcuVars, w, r>>

DestroyNode ==
  /\ w.pc = "free" /\ w.x # NULL
  /\ w' = [w EXCEPT !.x = forward[w.x][0]]
  /\ linked' = [i \in Lvl |-> linked[i] \ {w.x}]
  /\ Kfree(w.x)
  /\ UNCHANGED <<level, rcuVars, r>>

DestroyHeader ==
  /\ w.pc = "free" /\ w.x = NULL
  /\ level' = 0
  /\ forward' = [forward EXCEPT ![Header] = Empty]
  /\ w' = [IdleWriter EXCEPT !.pc = "down"]
  /\ UNCHANGED <<key, pid, height, allocated, rcuVars, linked, r>>
-----------------------------------------------------------------------------
(* The readers.  All three operations start with the same descent.         *)

(* A step of reader t stores nothing but its local variables.              *)
Moves(t, locals) ==
  /\ r' = [r EXCEPT ![t] = locals]
  /\ UNCHANGED <<level, heapVars, rcuVars, linked, w>>

ReadBegin(t, op, k) ==
  /\ r[t].pc = "idle"
  /\ w.pc \notin {"down", "sync", "free"}
  /\ Moves(t, [IdleReader EXCEPT !.pc = "walk", !.op = op, !.key = k,
                                 !.x = Header, !.i = level - 1,
                                 !.seen = {Map[k]} \cap Pid,
                                 !.stable = {j \in Key : Map[j] \in Pid}])

(* One load, next = READ_ONCE(x->forward[i]), and the test of next->key,   *)
(* which no one changes while the node is allocated.                       *)
Loaded(t) == forward[r[t].x][r[t].i]

(* Mutant: <= for <.                                                       *)
BeforeOrAt(t) == Loaded(t) # NULL /\ key[Loaded(t)] <= r[t].key

Before(t) == Loaded(t) # NULL /\ key[Loaded(t)] < r[t].key

ReadAdvance(t) ==
  /\ r[t].pc = "walk" /\ Before(t)
  /\ Moves(t, [r[t] EXCEPT !.x = Loaded(t)])

ReadDescend(t) ==
  /\ r[t].pc = "walk" /\ ~Before(t)
  /\ IF r[t].i > 0 THEN Moves(t, [r[t] EXCEPT !.i = @ - 1])
                   ELSE Moves(t, [r[t] EXCEPT !.pc = "last"])

(* The descent over, x->forward[0] is read a second time.                  *)
ReadLast(t) ==
  /\ r[t].pc = "last"
  /\ Moves(t, [r[t] EXCEPT !.next = Loaded(t), !.pc = "eval"])

(* The pointer READ_ONCE() gets from a node, if there is a node.           *)
PidAt(n) == IF n = NULL THEN NULL ELSE pid[n]

(* The key of the node, as a set: empty when there is none.                *)
KeyAt(n) == IF n = NULL THEN {} ELSE {key[n]}

Returns(t, res, visited) ==
  Moves(t, [r[t] EXCEPT !.res = res, !.visited = visited, !.x = NULL,
                        !.next = NULL, !.pc = "done"])

(* Mutant: the key of the node is not compared.                            *)
LookupAny(t) ==
  /\ r[t].pc = "eval" /\ r[t].op = "lookup"
  /\ Returns(t, PidAt(r[t].next), {})

pid_skiplist_lookup_rcu(t) ==
  /\ r[t].pc = "eval" /\ r[t].op = "lookup"
  /\ Returns(t, IF KeyAt(r[t].next) = {r[t].key} THEN pid[r[t].next] ELSE NULL,
                {})

pid_skiplist_find_ge_rcu(t) ==
  /\ r[t].pc = "eval" /\ r[t].op = "find_ge"
  /\ Returns(t, PidAt(r[t].next), KeyAt(r[t].next))

(* One call of pid_skiplist_iter_next_rcu() and the body of the loop       *)
(* around it: the cursor moves to next, and the loop ends on a NULL.  The  *)
(* first call also gives up on a node below start_key.                     *)
IterEnds(t) ==
  \/ r[t].next = NULL
  \/ r[t].visited = {} /\ key[r[t].next] < r[t].key

(* Mutant: the cursor is not advanced.                                     *)
IterStays(t) ==
  /\ r[t].pc = "eval" /\ r[t].op = "iter"
  /\ IF IterEnds(t) \/ pid[r[t].next] = NULL
     THEN Returns(t, NULL, r[t].visited)
     ELSE Moves(t, [r[t] EXCEPT !.visited = @ \cup {key[r[t].next]},
                                !.next = NULL, !.pc = "last"])

pid_skiplist_iter_next_rcu(t) ==
  /\ r[t].pc = "eval" /\ r[t].op = "iter"
  /\ IF IterEnds(t) \/ pid[r[t].next] = NULL
     THEN Moves(t, [r[t] EXCEPT !.hole = ~IterEnds(t), !.res = NULL,
                                !.x = NULL, !.next = NULL, !.pc = "done"])
     ELSE Moves(t, [r[t] EXCEPT !.visited = @ \cup {key[r[t].next]},
                                !.res = pid[r[t].next], !.x = r[t].next,
                                !.next = NULL, !.pc = "last"])

(* The read-side section ends; grace periods stop waiting for it.          *)
rcu_read_unlock(t) ==
  /\ r[t].pc = "done"
  /\ r' = [r EXCEPT ![t] = IdleReader]
  /\ gp' = [n \in Node |-> gp[n] \ {t}]
  /\ w' = [w EXCEPT !.wait = @ \ {t}]
  /\ UNCHANGED <<level, heapVars, dying, linked>>
-----------------------------------------------------------------------------
InsertSteps == InsertReplace \/ InsertRaise \/ InsertAlloc \/ InsertNoMemory
                 \/ InsertLink

RemoveSteps == RemoveAbsent \/ RemoveFound \/ RemoveUnlink \/ RemoveShrink
                 \/ RemoveCallRcu

DestroySteps == DestroyWalk \/ DestroyNode \/ DestroyHeader

WriterStep == SearchAdvance \/ SearchDescend \/ InsertSteps \/ RemoveSteps
                \/ DestroySteps

ReaderStep(t) ==
  \/ ReadAdvance(t) \/ ReadDescend(t) \/ ReadLast(t)
  \/ pid_skiplist_lookup_rcu(t) \/ pid_skiplist_find_ge_rcu(t)
  \/ pid_skiplist_iter_next_rcu(t) \/ rcu_read_unlock(t)

Next ==
  \/ pid_skiplist_init
  \/ \E k \in Key, p \in InsertPids : pid_skiplist_insert(k, p)
  \/ \E k \in Key : pid_skiplist_remove(k)
  \/ DestroySync
  \/ WriterStep
  \/ \E n \in Node : pid_sl_node_rcu_free(n)
  \/ \E t \in Reader, c \in ReadCalls : ReadBegin(t, c[1], c[2])
  \/ \E t \in Reader : ReaderStep(t)

Spec == Init /\ [][Next]_vars

(* A writer holds a spin lock and does not sleep, a reader does not sleep  *)
(* inside its section, and RCU runs every callback whose grace period has  *)
(* ended.  Nothing forces anyone to start an operation.                    *)
Fairness ==
  /\ WF_vars(WriterStep)
  /\ \A t \in Reader : WF_vars(ReaderStep(t))
  /\ \A n \in Node : WF_vars(pid_sl_node_rcu_free(n))

FairSpec == Spec /\ Fairness
-----------------------------------------------------------------------------
(* Properties.                                                             *)

Height == 0 .. PID_SL_MAX_LEVEL
Index  == -1 .. PID_SL_MAX_LEVEL
Number == Key \cup {INT_MIN}
Ptr    == Cell \cup {NULL}

WriterType ==
  [pc : {"down", "idle", "search", "alloc", "link", "unlink", "call_rcu",
         "sync", "free"},
   op : {"none", "insert", "remove"}, key : Number, pid : Value, x : Ptr,
   i : Index, lvl : Height, update : [Lvl -> Ptr], wait : SUBSET Reader]

ReaderType ==
  [pc : {"idle", "walk", "last", "eval", "done"},
   op : {"none"} \cup ReaderOp, key : Number, x : Ptr, next : Ptr,
   i : Lvl, res : Value, visited : SUBSET Number, seen : SUBSET Pid,
   stable : SUBSET Key, raced : BOOLEAN, hole : BOOLEAN]

(* Every variable of the list, of its writer and of its readers has the    *)
(* type its C declaration and its use give it.                             *)
TypeOK ==
  /\ level \in Height
  /\ key \in [Cell -> Number]
  /\ pid \in [Cell -> Value]
  /\ height \in [Cell -> Height]
  /\ forward \in [Cell -> [Lvl -> Ptr]]
  /\ allocated \subseteq Node
  /\ dying \subseteq Node
  /\ gp \in [Node -> SUBSET Reader]
  /\ linked \in [Lvl -> SUBSET Node]
  /\ w \in WriterType
  /\ r \in [Reader -> ReaderType]

(* n is what forward[i] of m must be: the linked node with the least key   *)
(* above m's, or NULL when there is none.                                  *)
IsSuccessor(m, i, n) ==
  IF n = NULL
  THEN \A o \in linked[i] : ~(key[m] < key[o])
  ELSE /\ n \in linked[i]
       /\ key[m] < key[n]
       /\ \A o \in linked[i] : key[m] < key[o] => o = n \/ key[n] < key[o]

(* Between any two stores of insert and remove, the list of every level is *)
(* sorted, without duplicate keys, and holds exactly the nodes linked on   *)
(* it: each forward pointer is the true successor.                         *)
ChainOK ==
  w.pc # "free" =>
    \A i \in Lvl : \A m \in linked[i] \cup {Header} :
      IsSuccessor(m, i, forward[m][i])

(* A node stands on every level below its height, except while the writer  *)
(* is linking or unlinking it; no list reaches above sl->level.  This is   *)
(* what lets pid_skiplist_remove() stop at the first level it does not     *)
(* find the node on.                                                       *)
TowersOK ==
  /\ \A i \in Lvl : \A n \in linked[i] : i < height[n]
  /\ \A i \in Lvl : level <= i => linked[i] = {}
  /\ w.pc \in {"idle", "search", "alloc"} =>
       \A n \in linked[0], i \in Lvl : i < height[n] => n \in linked[i]

(* Every cell a reader is about to dereference is the header or a node     *)
(* that is allocated and that its grace period still protects, and the     *)
(* index is within the node's forward array.                               *)
Protected(t, n) ==
  \/ n = Header
  \/ n \in allocated /\ (n \in dying => t \in gp[n])

NoUseAfterFree ==
  \A t \in Reader :
    /\ r[t].pc \in {"walk", "last"} =>
         Protected(t, r[t].x) /\ r[t].i < height[r[t].x]
    /\ r[t].pc = "eval" =>
         r[t].next = NULL \/ Protected(t, r[t].next)
    /\ w.pc \in {"down", "free"} => r[t].pc = "idle"

(* Between two operations of the writer every allocated node is either on  *)
(* the list or queued for freeing, never both, and once the list has been  *)
(* destroyed only queued nodes are left: nothing leaks on any path, and    *)
(* nothing is freed twice.                                                 *)
NoLeak ==
  /\ w.pc \in {"idle", "search"} => allocated = linked[0] \cup dying
  /\ w.pc = "down" => allocated = dying
  /\ \A i \in Lvl : linked[i] \cap dying = {}

(* A lookup that returns a struct pid returns one the number was bound to  *)
(* at some moment of the read-side section.                                *)
LookupSound ==
  \A t \in Reader :
    r[t].pc = "done" /\ r[t].op = "lookup" /\ r[t].res # NULL =>
      r[t].res \in r[t].seen

(* A lookup misses a number bound throughout its section only if a smaller *)
(* number was inserted between its two loads of forward[0].                *)
LookupMissesOnlyInWindow ==
  \A t \in Reader :
    /\ r[t].pc = "done" /\ r[t].op = "lookup"
    /\ r[t].key \in r[t].stable
    => r[t].res # NULL \/ r[t].raced

(* The node find_ge ends on is the first one at or above the number, as    *)
(* far as numbers bound throughout the section are concerned, unless a     *)
(* smaller number was inserted between its two loads of forward[0].        *)
FindGeIsFirst ==
  \A t \in Reader :
    r[t].pc = "done" /\ r[t].op = "find_ge" /\ ~r[t].raced =>
      /\ \A j \in r[t].visited : j >= r[t].key
      /\ \A k \in r[t].stable :
           k >= r[t].key => \E j \in r[t].visited : j <= k

(* An iteration that is not cut short by a placeholder, nor by that race,  *)
(* visits every number at or above start_key bound throughout it, however  *)
(* many nodes are removed under its cursor.                                *)
IterationComplete ==
  \A t \in Reader :
    /\ r[t].pc = "done" /\ r[t].op = "iter"
    /\ ~r[t].raced /\ ~r[t].hole
    => \A k \in r[t].stable : k >= r[t].key => k \in r[t].visited

(* An iteration visits numbers in strictly increasing order, so it ends    *)
(* and never delivers a number twice, even from a removed cursor.          *)
IterationIncreases ==
  [][\A t \in Reader :
       r[t].op = "iter" /\ r[t].pc # "idle" /\ r'[t].pc # "idle" =>
         \A j \in r'[t].visited \ r[t].visited, k \in r[t].visited : k < j]_vars

(* The list, walked without a lock and changed one store at a time, is a   *)
(* map that changes atomically.                                            *)
Abstract == INSTANCE PidMap WITH map <- Map
ImplementsMap == Abstract!Spec

(* Every node pid_skiplist_remove() hands to call_rcu() is freed: no walk  *)
(* goes on for ever, however often the writer inserts and removes nodes    *)
(* ahead of it.                                                            *)
RemovedAreFreed == \A n \in Node : n \in dying ~> n \notin dying

(* pid_skiplist_destroy() outlasts the readers and empties the list.       *)
DestroyCompletes == w.pc = "sync" ~> w.pc = "down"
-----------------------------------------------------------------------------
(* What pid.h says of lookups, with no exception for concurrent writers: a *)
(* number bound throughout the section can be found.                       *)
LookupComplete ==
  \A t \in Reader :
    r[t].pc = "done" /\ r[t].op = "lookup" /\ r[t].key \in r[t].stable =>
      r[t].res # NULL
=============================================================================
