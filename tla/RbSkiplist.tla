----------------------------- MODULE RbSkiplist -----------------------------
(***************************************************************************)
(* The skip list with a red-black tree over the nodes of the highest level *)
(* (rb-skiplist/pid_rb_skiplist.c), driven the way alloc_pid() and         *)
(* free_pid() of rb-skiplist/pid.c drive it: a number is reserved with a   *)
(* NULL pointer, then published or given back, later removed.  A number    *)
(* with a NULL pointer looks free, so several calls may get it.            *)
(*                                                                         *)
(* As in PidSkiplist there is one writer, serialised by pidmap_lock, whose *)
(* stores are actions of their own, and readers that load one pointer per  *)
(* action.  The tree is the set of its nodes: rotations move no node in or *)
(* out.  A writer searches the tree under the lock and gets the exact      *)
(* answer; a reader whose search a rotation overlaps may be led past any   *)
(* part of the tree, so it gets any node on the right side, or the header. *)
(***************************************************************************)
EXTENDS Integers

CONSTANTS
  Node,               \* heap cells a list node can occupy
  Header,             \* the cell of sl->header
  Key,                \* PID numbers
  INT_MIN,            \* the key of the header, below every PID number
  Pid,                \* struct pid pointers
  Reader,             \* threads in RCU read-side sections
  ReadCalls,          \* the calls readers make: <<operation, number>>
  PID_SL_MAX_LEVEL,
  NULL

ASSUME KeyAssumption ==
  /\ Key \subseteq Int
  /\ INT_MIN \in Int
  /\ \A k \in Key : INT_MIN < k

ASSUME LevelAssumption == PID_SL_MAX_LEVEL \in Nat \ {0}

ASSUME CellAssumption ==
  /\ Header \notin Node
  /\ NULL \notin Node \cup {Header} \cup Pid

ReaderOp == {"lookup", "find_ge", "iter"}

ASSUME CallAssumption == ReadCalls \subseteq ReaderOp \X Key

VARIABLES
  level,      \* sl->level; 0 before pid_rb_skiplist_init()
  key,        \* cell -> node->key
  pid,        \* cell -> node->pid
  height,     \* cell -> node->level, the length of node->forward
  forward,    \* cell -> node->forward
  tree,       \* the nodes of sl->top_rb_root, those with in_rb_tree set
  allocated,  \* the node cells handed out by kzalloc()
  dying,      \* the cells queued by call_rcu()
  gp,         \* cell -> the readers its grace period still waits for
  linked,     \* history: level -> the nodes on the list of that level
  reserved,   \* number -> the struct pids it is reserved for
  bound,      \* number -> the struct pids published with it
  lost,       \* history: numbers whose publication found no memory
  shared,     \* history: numbers taken for free while they had a holder
  w,          \* the writer: its program counter and local variables
  r           \* reader -> its program counter and local variables

heapVars == <<key, pid, height, forward, allocated>>
rcuVars  == <<dying, gp>>
callVars == <<reserved, bound, lost, shared>>
vars     == <<level, key, pid, height, forward, tree, allocated, dying, gp,
              linked, reserved, bound, lost, shared, w, r>>

Cell  == Node \cup {Header}
Lvl   == 0 .. PID_SL_MAX_LEVEL - 1
Value == Pid \cup {NULL}
Height == 0 .. PID_SL_MAX_LEVEL
Empty == [i \in Lvl |-> NULL]

(* The struct pids that have a number.                                     *)
Holders(k) == reserved[k] \cup bound[k]

(* A search that the tree leads starts on the node there that has the      *)
(* number and passes it: it can find those outside the tree.  A node with  *)
(* NULL looks like no node to every caller.                                *)
Findable(k) == {n \in linked[0] : key[n] = k /\ n \notin tree}
Binding(k) == {pid[n] : n \in Findable(k)} \ {NULL}

Active == {t \in Reader : r[t].pc # "idle"}

(* The numbers of which a node in the tree, out of the sight of every      *)
(* search for them, has a struct pid.                                      *)
Spoiled == {k \in Key : \E n \in tree : key[n] = k /\ pid[n] # NULL}

IdleWriter == [pc |-> "idle", op |-> "none", key |-> INT_MIN, pid |-> NULL,
               own |-> NULL, x |-> NULL, i |-> 0, lvl |-> 0, update |-> Empty, wait |-> {}]

IdleReader == [pc |-> "idle", op |-> "none", key |-> INT_MIN, x |-> NULL,
               next |-> NULL, i |-> 0, res |-> NULL, visited |-> {},
               cand |-> {}, seen |-> {}, stable |-> {}, raced |-> FALSE,
               torn |-> FALSE, hole |-> FALSE]

(* A reader between the load of forward[0] that ended its descent and the  *)
(* one it takes its answer from.                                           *)
InWindow(t) == r[t].pc = "last" /\ r[t].visited = {}

(* What a store that binds number k to v means to the readers it overlaps  *)
(* (history only): seen has every pointer lookups were to find of the      *)
(* number it looks for, stable the numbers from there on of which they     *)
(* were to find one throughout, raced says that a smaller one came in      *)
(* between the two loads.                                                  *)
Observe(k, v, inserted) ==
  r' = [t \in Reader |->
          IF r[t].pc \in {"idle", "done"} THEN r[t]
          ELSE [r[t] EXCEPT
                  !.seen   = IF k = r[t].key /\ v \in Pid THEN @ \cup {v} ELSE @,
                  !.stable = IF v \in Pid THEN @ ELSE @ \ {k},
                  !.raced  = @ \/ (inserted /\ k < r[t].key /\ InWindow(t))]]

(* rb_find_le(): the tree node with the largest key at or below k, or the  *)
(* header.                                                                 *)
AtOrBelow(S, k) == {n \in S : key[n] <= k}

rb_find_le(k) ==
  LET C == AtOrBelow(tree, k) IN
  IF C = {} THEN Header
  ELSE CHOOSE n \in C : \A m \in C : key[m] <= key[n]
-----------------------------------------------------------------------------
Init ==
  /\ level = 0
  /\ key = [n \in Cell |-> INT_MIN]
  /\ pid = [n \in Cell |-> NULL]
  /\ height = [n \in Cell |-> IF n = Header THEN PID_SL_MAX_LEVEL ELSE 0]
  /\ forward = [n \in Cell |-> Empty]
  /\ tree = {}
  /\ allocated = {}
  /\ dying = {}
  /\ gp = [n \in Node |-> {}]
  /\ linked = [i \in Lvl |-> {}]
  /\ reserved = [k \in Key |-> {}]
  /\ bound = [k \in Key |-> {}]
  /\ lost = {}
  /\ shared = {}
  /\ w = [IdleWriter EXCEPT !.pc = "down"]
  /\ r = [t \in Reader |-> IdleReader]

pid_rb_skiplist_init ==
  /\ w.pc = "down"
  /\ level' = 1
  /\ forward' = [forward EXCEPT ![Header] = Empty]
  /\ tree' = {}
  /\ w' = IdleWriter
  /\ lost' = {}
  /\ shared' = {}
  /\ UNCHANGED <<key, pid, height, allocated, rcuVars, linked, reserved, bound,
                 r>>
-----------------------------------------------------------------------------
(* Mutant: insertion does not ask the tree.                                *)
InsertFromHeader(op, k) == IF op = "insert" THEN Header ELSE rb_find_le(k)

(* The calls of the allocator.  Insertion asks the tree where to start     *)
(* only when the list is as high as the header; removal always does.       *)
StartOf(op, k) ==
  IF op = "insert" /\ level # height[Header] THEN Header ELSE rb_find_le(k)

BeginWrite(op, k, p, own) ==
  /\ w.pc = "idle"
  /\ w' = [IdleWriter EXCEPT !.pc = "search", !.op = op, !.key = k, !.pid = p,
                             !.own = own, !.x = StartOf(op, k), !.i = level - 1]
  /\ UNCHANGED <<level, heapVars, tree, rcuVars, linked, reserved, bound, lost, r>>

(* alloc_pid() has found a number whose lookup gives NULL, which the       *)
(* placeholder of another call does too.                                   *)
Reserve(k, p) ==
  /\ \A j \in Key : p \notin Holders(j)
  /\ Binding(k) = {}
  /\ BeginWrite("insert", k, NULL, p)
  /\ shared' = IF Holders(k) = {} THEN shared ELSE shared \cup {k}

(* alloc_pid() replaces the placeholder.                                   *)
Publish(k, p) ==
  /\ p \in reserved[k]
  /\ BeginWrite("insert", k, p, p)
  /\ UNCHANGED shared

(* free_pid(), or an allocation that failed, gives the number back.        *)
GiveBack(k, p) ==
  /\ p \in Holders(k)
  /\ BeginWrite("remove", k, NULL, p)
  /\ UNCHANGED shared

(* What the caller of an insertion has then.                               *)
Bind ==
  /\ reserved' = [reserved EXCEPT ![w.key] = IF w.pid = NULL THEN @ \cup {w.own}
                                                            ELSE @ \ {w.own}]
  /\ bound' = [bound EXCEPT ![w.key] = IF w.pid = NULL THEN @ ELSE @ \cup {w.own}]
  /\ UNCHANGED shared

(* while (x->forward[i] && x->forward[i]->key < key) x = x->forward[i];    *)
NextIsBelow ==
  forward[w.x][w.i] # NULL /\ key[forward[w.x][w.i]] < w.key

SearchAdvance ==
  /\ w.pc = "search" /\ w.i >= 0
  /\ NextIsBelow
  /\ w' = [w EXCEPT !.x = forward[w.x][w.i]]
  /\ UNCHANGED <<level, heapVars, tree, rcuVars, linked, callVars, r>>

(* update[i] = x; and on to the level below.                               *)
SearchDescend ==
  /\ w.pc = "search" /\ w.i >= 0
  /\ ~NextIsBelow
  /\ w' = [w EXCEPT !.update[w.i] = w.x, !.i = @ - 1]
  /\ UNCHANGED <<level, heapVars, tree, rcuVars, linked, callVars, r>>

(* The node after the last one below the key, and whether it has the key.  *)
Candidate == forward[w.x][0]
Found == Candidate # NULL /\ key[Candidate] = w.key
SearchDone(op) == w.pc = "search" /\ w.i = -1 /\ w.op = op

(* pid_rb_skiplist_insert() of a number it has found.                      *)
InsertReplace ==
  /\ SearchDone("insert") /\ Found
  /\ pid' = [pid EXCEPT ![Candidate] = w.pid]
  /\ Observe(w.key, w.pid, FALSE)
  /\ Bind
  /\ w' = IdleWriter
  /\ UNCHANGED <<level, key, height, forward, tree, allocated, rcuVars,
                 linked, lost>>

(* A number that was not found: the list is raised to the height of the    *)
(* new node, the added levels starting at the header, and the node is      *)
(* allocated, which no reader sees.                                        *)
Raise(lvl) == level' = IF lvl > level THEN lvl ELSE level

InsertAlloc ==
  /\ SearchDone("insert") /\ ~Found
  /\ \E lvl \in 1 .. PID_SL_MAX_LEVEL, x \in Node \ allocated :
       /\ Raise(lvl)
       /\ allocated' = allocated \cup {x}
       /\ key' = [key EXCEPT ![x] = w.key]
       /\ pid' = [pid EXCEPT ![x] = w.pid]
       /\ height' = [height EXCEPT ![x] = lvl]
       /\ forward' = [forward EXCEPT ![x] = Empty]
       /\ w' = [w EXCEPT !.pc = "link", !.lvl = lvl, !.x = x, !.i = 0,
                         !.update = [i \in Lvl |-> IF i \in level .. lvl - 1
                                                   THEN Header ELSE @[i]]]
  /\ UNCHANGED <<tree, rcuVars, linked, callVars, r>>

(* -ENOMEM, with the list raised: a reservation is given up, but           *)
(* alloc_pid() does not look at the result when it publishes.              *)
InsertNoMemory ==
  /\ SearchDone("insert") /\ ~Found
  /\ \E lvl \in 1 .. PID_SL_MAX_LEVEL : Raise(lvl)
  /\ IF w.pid = NULL THEN UNCHANGED callVars
     ELSE Bind /\ lost' = lost \cup {w.key}
  /\ w' = IdleWriter
  /\ UNCHANGED <<heapVars, tree, rcuVars, linked, r>>

(* One level: x->forward[i], which no reader loads before it has met x on  *)
(* the level, and the pointer that links x.                                *)
InsertLink ==
  LET x == w.x  u == w.update[w.i] IN
  /\ w.pc = "link" /\ w.i < w.lvl
  /\ forward' = [forward EXCEPT ![x][w.i] = forward[u][w.i], ![u][w.i] = x]
  /\ linked' = [linked EXCEPT ![w.i] = @ \cup {x}]
  /\ IF w.i = 0 THEN Observe(w.key, w.pid, TRUE) ELSE UNCHANGED r
  /\ w' = [w EXCEPT !.i = @ + 1]
  /\ UNCHANGED <<level, key, pid, height, tree, allocated, rcuVars, callVars>>

(* Mutant: the tree takes every node, also below the highest level.        *)
AnyHeight == TRUE

(* lvl == sl->level && lvl == sl->header->level                            *)
OnTopLevel == w.lvl = level /\ w.lvl = height[Header]

(* rb_insert_node(), which leaves a key the tree has already; then the     *)
(* call returns.  A reader in the middle of a search of the tree may have  *)
(* been led astray, and lookups of the number now pass the node.           *)
rb_insert_node ==
  LET added == IF OnTopLevel /\ \A n \in tree : key[n] # w.key THEN {w.x} ELSE {}
  IN
  /\ w.pc = "link" /\ w.i = w.lvl
  /\ tree' = tree \cup added
  /\ r' = [t \in Reader |->
             IF r[t].pc \in {"idle", "done"} \/ added = {} THEN r[t]
             ELSE [r[t] EXCEPT
                     !.cand   = IF r[t].pc = "tree" THEN @ \cup added ELSE @,
                     !.torn   = @ \/ r[t].pc = "tree",
                     !.stable = @ \ {w.key}]]
  /\ Bind
  /\ w' = IdleWriter
  /\ UNCHANGED <<level, heapVars, rcuVars, linked, lost>>
-----------------------------------------------------------------------------
(* pid_rb_skiplist_remove().  The caller is done with the number after it, *)
(* found or not.  When its last holder is, all is as before, unless the    *)
(* tree still has a struct pid for it.                                     *)
Unbind ==
  /\ reserved' = [reserved EXCEPT ![w.key] = @ \ {w.own}]
  /\ bound' = [bound EXCEPT ![w.key] = @ \ {w.own}]
  /\ lost' = lost \ {w.key}
  /\ shared' = IF Holders(w.key) \subseteq {w.own}
               THEN shared \ ({w.key} \ Spoiled) ELSE shared

RemoveAbsent ==
  /\ SearchDone("remove") /\ ~Found
  /\ Unbind
  /\ w' = IdleWriter
  /\ UNCHANGED <<level, heapVars, tree, rcuVars, linked, r>>

(* A node found is erased from the tree, if it is there.                   *)
RemoveFound ==
  /\ SearchDone("remove") /\ Found
  /\ tree' = tree \ {Candidate}
  /\ w' = [w EXCEPT !.pc = "unlink", !.x = Candidate, !.i = 0]
  /\ UNCHANGED <<level, heapVars, rcuVars, linked, callVars, r>>

Unlinking == w.i < level /\ forward[w.update[w.i]][w.i] = w.x

(* Mutant: the removed node's own pointer is cleared.                      *)
RemoveUnlinkClears ==
  LET u == w.update[w.i] IN
  /\ w.pc = "unlink" /\ Unlinking
  /\ forward' = [forward EXCEPT ![u][w.i] = forward[w.x][w.i], ![w.x][w.i] = NULL]
  /\ linked' = [linked EXCEPT ![w.i] = @ \ {w.x}]
  /\ IF w.i = 0 THEN Observe(w.key, NULL, FALSE) ELSE UNCHANGED r
  /\ w' = [w EXCEPT !.i = @ + 1]
  /\ UNCHANGED <<level, key, pid, height, tree, allocated, rcuVars, callVars>>

RemoveUnlink ==
  LET u == w.update[w.i] IN
  /\ w.pc = "unlink" /\ Unlinking
  /\ forward' = [forward EXCEPT ![u][w.i] = forward[w.x][w.i]]
  /\ linked' = [linked EXCEPT ![w.i] = @ \ {w.x}]
  /\ IF w.i = 0 THEN Observe(w.key, NULL, FALSE) ELSE UNCHANGED r
  /\ w' = [w EXCEPT !.i = @ + 1]
  /\ UNCHANGED <<level, key, pid, height, tree, allocated, rcuVars, callVars>>

(* The new level: the highest that is in use, and 1 at least.              *)
ShrinksTo(n) ==
  /\ n \in 1 .. level
  /\ n = 1 \/ forward[Header][n - 1] # NULL
  /\ \A i \in n + 1 .. level : forward[Header][i - 1] = NULL

RemoveShrink ==
  /\ w.pc = "unlink" /\ ~Unlinking
  /\ \E n \in Height : ShrinksTo(n) /\ level' = n
  /\ w' = [w EXCEPT !.pc = "call_rcu", !.i = 0, !.update = Empty]
  /\ UNCHANGED <<heapVars, tree, rcuVars, linked, callVars, r>>

(* Mutant: the node is freed without a grace period.                       *)
RemoveAtOnce ==
  /\ w.pc = "call_rcu"
  /\ dying' = dying \cup {w.x}
  /\ Unbind
  /\ w' = IdleWriter
  /\ UNCHANGED <<level, heapVars, tree, gp, linked, r>>

RemoveCallRcu ==
  /\ w.pc = "call_rcu"
  /\ dying' = dying \cup {w.x}
  /\ gp' = [gp EXCEPT ![w.x] = Active]
  /\ Unbind
  /\ w' = IdleWriter
  /\ UNCHANGED <<level, heapVars, tree, linked, r>>

(* kfree(): the contents of the cell are lost.                             *)
Kfree(n) ==
  /\ allocated' = allocated \ {n}
  /\ key'     = [key EXCEPT ![n] = INT_MIN]
  /\ pid'     = [pid EXCEPT ![n] = NULL]
  /\ height'  = [height EXCEPT ![n] = 0]
  /\ forward' = [forward EXCEPT ![n] = Empty]

pid_sl_node_rcu_free(n) ==
  /\ n \in dying /\ gp[n] = {}
  /\ dying' = dying \ {n}
  /\ Kfree(n)
  /\ UNCHANGED <<level, tree, gp, linked, callVars, w, r>>

(* pid_rb_skiplist_destroy(), when the last reference to the namespace has *)
(* gone: every number was given back and no reader enters any more.        *)
DestroySync ==
  /\ w.pc = "idle" /\ \A k \in Key : Holders(k) = {}
  /\ w' = [IdleWriter EXCEPT !.pc = "sync", !.wait = Active]
  /\ UNCHANGED <<level, heapVars, tree, rcuVars, linked, callVars, r>>

DestroyWalk ==
  /\ w.pc = "sync" /\ w.wait = {}
  /\ w' = [w EXCEPT !.pc = "free", !.x = forward[Header][0]]
  /\ UNCHANGED <<level, heapVars, tree, rcuVars, linked, callVars, r>>

DestroyNode ==
  /\ w.pc = "free" /\ w.x # NULL
  /\ tree' = tree \ {w.x}
  /\ w' = [w EXCEPT !.x = forward[w.x][0]]
  /\ linked' = [i \in Lvl |-> linked[i] \ {w.x}]
  /\ Kfree(w.x)
  /\ UNCHANGED <<level, rcuVars, callVars, r>>

DestroyHeader ==
  /\ w.pc = "free" /\ w.x = NULL
  /\ level' = 0
  /\ forward' = [forward EXCEPT ![Header] = Empty]
  /\ w' = [IdleWriter EXCEPT !.pc = "down"]
  /\ UNCHANGED <<key, pid, height, tree, allocated, rcuVars, linked, callVars,
                 r>>
-----------------------------------------------------------------------------
(* The readers.                                                            *)

Moves(t, locals) ==
  /\ r' = [r EXCEPT ![t] = locals]
  /\ UNCHANGED <<level, heapVars, tree, rcuVars, linked, callVars, w>>

(* All three read operations start with the same descent, for a number k;  *)
(* which of them it was shows when it is over.                             *)
ReadBegin(t, k) ==
  /\ r[t].pc = "idle"
  /\ w.pc \notin {"down", "sync", "free"}
  /\ Moves(t, [IdleReader EXCEPT !.pc = "tree", !.key = k, !.cand = tree,
                                 !.seen = Binding(k),
                                 !.stable = {j \in Key : j >= k /\ Binding(j) # {}}])

(* rb_find_le() without the lock, then the load of sl->level.              *)
ReadTree(t) ==
  /\ r[t].pc = "tree"
  /\ \E x \in IF r[t].torn THEN AtOrBelow(r[t].cand, r[t].key) \cup {Header}
                           ELSE {rb_find_le(r[t].key)} :
       Moves(t, [r[t] EXCEPT !.pc = "walk", !.x = x, !.i = level - 1,
                             !.cand = {}])

Loaded(t) == forward[r[t].x][r[t].i]
Before(t) == Loaded(t) # NULL /\ key[Loaded(t)] < r[t].key

ReadAdvance(t) ==
  /\ r[t].pc = "walk" /\ Before(t)
  /\ Moves(t, [r[t] EXCEPT !.x = Loaded(t)])

ReadDescend(t) ==
  /\ r[t].pc = "walk" /\ ~Before(t)
  /\ IF r[t].i > 0 THEN Moves(t, [r[t] EXCEPT !.i = @ - 1])
                   ELSE Moves(t, [r[t] EXCEPT !.pc = "last"])

(* x->forward[0] is read a second time.                                    *)
ReadLast(t) ==
  /\ r[t].pc = "last"
  /\ Moves(t, [r[t] EXCEPT !.next = Loaded(t), !.pc = "eval"])

KeyAt(n) == IF n = NULL THEN {} ELSE {key[n]}

AtEnd(t, op) ==
  /\ r[t].pc = "eval" /\ r[t].op \in {"none", op}
  /\ <<op, r[t].key>> \in ReadCalls

(* What the history of the call is good for is over, but for a lookup.     *)
Returns(t, op, res) ==
  LET e == IF op = "lookup" THEN r[t] ELSE IdleReader IN
  Moves(t, [IdleReader EXCEPT !.pc = "done", !.op = op, !.key = r[t].key,
              !.res = res, !.seen = e.seen, !.raced = e.raced, !.torn = e.torn,
              !.stable = e.stable \cap {r[t].key}])

(* Mutant: the key of the node is not compared.                            *)
LookupAny(t) ==
  /\ AtEnd(t, "lookup")
  /\ Returns(t, "lookup",
             IF r[t].next = NULL THEN NULL ELSE pid[r[t].next])

pid_rb_skiplist_lookup_rcu(t) ==
  /\ AtEnd(t, "lookup")
  /\ Returns(t, "lookup",
             IF KeyAt(r[t].next) = {r[t].key} THEN pid[r[t].next] ELSE NULL)

pid_rb_skiplist_find_ge_rcu(t) ==
  /\ AtEnd(t, "find_ge")
  /\ Returns(t, "find_ge",
             IF r[t].next = NULL THEN NULL ELSE pid[r[t].next])

(* One call of pid_rb_skiplist_iter_next_rcu() and the body of the loop    *)
(* around it, which ends on a NULL.                                        *)
IterEnds(t) ==
  \/ r[t].next = NULL
  \/ r[t].visited = {} /\ key[r[t].next] < r[t].key

pid_rb_skiplist_iter_next_rcu(t) ==
  /\ AtEnd(t, "iter")
  /\ IF IterEnds(t) \/ pid[r[t].next] = NULL
     THEN Moves(t, [r[t] EXCEPT !.op = "iter", !.hole = ~IterEnds(t),
                                !.res = NULL, !.x = NULL, !.next = NULL,
                                !.pc = "done"])
     ELSE Moves(t, [r[t] EXCEPT !.op = "iter", !.res = pid[r[t].next],
                                !.visited = @ \cup {key[r[t].next]},
                                !.x = r[t].next, !.next = NULL, !.pc = "last"])

rcu_read_unlock(t) ==
  /\ r[t].pc = "done"
  /\ r' = [r EXCEPT ![t] = IdleReader]
  /\ gp' = [n \in Node |-> gp[n] \ {t}]
  /\ w' = [w EXCEPT !.wait = @ \ {t}]
  /\ UNCHANGED <<level, heapVars, tree, dying, linked, callVars>>
-----------------------------------------------------------------------------
WriterStep ==
  \/ SearchAdvance \/ SearchDescend
  \/ InsertReplace \/ InsertAlloc \/ InsertNoMemory
  \/ InsertLink \/ rb_insert_node
  \/ RemoveAbsent \/ RemoveFound \/ RemoveUnlink \/ RemoveShrink
  \/ RemoveCallRcu
  \/ DestroyWalk \/ DestroyNode \/ DestroyHeader

ReaderStep(t) ==
  \/ ReadTree(t) \/ ReadAdvance(t) \/ ReadDescend(t) \/ ReadLast(t)
  \/ pid_rb_skiplist_lookup_rcu(t) \/ pid_rb_skiplist_find_ge_rcu(t)
  \/ pid_rb_skiplist_iter_next_rcu(t) \/ rcu_read_unlock(t)

Next ==
  \/ pid_rb_skiplist_init
  \/ \E k \in Key, p \in Pid : Reserve(k, p) \/ Publish(k, p) \/ GiveBack(k, p)
  \/ DestroySync
  \/ WriterStep
  \/ \E n \in Node : pid_sl_node_rcu_free(n)
  \/ \E t \in Reader, c \in ReadCalls : ReadBegin(t, c[2])
  \/ \E t \in Reader : ReaderStep(t)

Spec == Init /\ [][Next]_vars
-----------------------------------------------------------------------------
(* Properties.                                                             *)

Number == Key \cup {INT_MIN}
Index  == -1 .. PID_SL_MAX_LEVEL
Ptr    == Cell \cup {NULL}

WriterType ==
  [pc : {"down", "idle", "search", "link", "unlink", "call_rcu",
         "sync", "free"},
   op : {"none", "insert", "remove"}, key : Number, pid : Value, own : Value,
   x : Ptr, i : Index, lvl : Height, update : [Lvl -> Ptr],
   wait : SUBSET Reader]

ReaderType ==
  [pc : {"idle", "tree", "walk", "last", "eval", "done"},
   op : {"none"} \cup ReaderOp, key : Number, x : Ptr, next : Ptr, i : Lvl,
   res : Value, visited : SUBSET Number, cand : SUBSET Node,
   seen : SUBSET Pid, stable : SUBSET Key, raced : BOOLEAN, torn : BOOLEAN,
   hole : BOOLEAN]

CallTypeOK ==
  /\ reserved \in [Key -> SUBSET Pid] /\ bound \in [Key -> SUBSET Pid]
  /\ lost \subseteq Key /\ shared \subseteq Key

(* Every variable of the list, of its writer and of its readers has the    *)
(* type its C declaration and its use give it.                             *)
TypeOK ==
  /\ level \in Height
  /\ key \in [Cell -> Number]
  /\ pid \in [Cell -> Value]
  /\ height \in [Cell -> Height]
  /\ forward \in [Cell -> [Lvl -> Ptr]]
  /\ tree \subseteq Node
  /\ allocated \subseteq Node
  /\ dying \subseteq Node
  /\ gp \in [Node -> SUBSET Reader]
  /\ linked \in [Lvl -> SUBSET Node]
  /\ CallTypeOK
  /\ w \in WriterType
  /\ r \in [Reader -> ReaderType]

(* The order of the list.  Two nodes may have one key; the one in the tree *)
(* comes first then.                                                       *)
Precedes(m, n) ==
  key[m] < key[n] \/ (key[m] = key[n] /\ m \in tree /\ n \notin tree)

(* Between any two stores every forward pointer leads to the next node of  *)
(* its level, in that order, although the search for a number may start on *)
(* a node that has it.                                                     *)
ChainOK ==
  w.pc # "free" =>
    \A i \in Lvl : \A m \in linked[i] \cup {Header} :
      LET n == forward[m][i]
          After == {o \in linked[i] : Precedes(m, o)}
      IN IF n = NULL THEN After = {}
         ELSE n \in After /\ \A o \in After \ {n} : Precedes(n, o)

(* A number has two nodes at most, and the first of two is in the tree.    *)
(* Tree nodes are on the list on every level, so that a search may start   *)
(* on them wherever sl->level is, and insertion, which asks the tree only  *)
(* when sl->level is the header's, never passes over a used tree.          *)
TreeOK ==
  w.pc # "free" =>
    /\ \A n \in tree : height[n] = PID_SL_MAX_LEVEL /\ \A i \in Lvl : n \in linked[i]
    /\ \A m, n \in linked[0] : key[m] = key[n] /\ m # n => (m \in tree) # (n \in tree)
    /\ tree # {} => level = PID_SL_MAX_LEVEL

Protected(t, n) ==
  \/ n = Header
  \/ n \in allocated /\ (n \in dying => t \in gp[n])

(* Every cell a reader is about to dereference, on the list or in the      *)
(* tree, is allocated and protected by its grace period, and the index is  *)
(* within the node's forward array.                                        *)
NoUseAfterFree ==
  \A t \in Reader :
    /\ \A n \in r[t].cand : Protected(t, n)
    /\ r[t].pc \in {"walk", "last"} =>
         Protected(t, r[t].x) /\ r[t].i < height[r[t].x]
    /\ r[t].pc = "eval" =>
         r[t].next = NULL \/ Protected(t, r[t].next)
    /\ w.pc \in {"down", "free"} => r[t].pc = "idle"

(* Between two operations every allocated node is either on the list or    *)
(* queued for freeing, never both; after the list is destroyed only queued *)
(* nodes are left.                                                         *)
NoLeak ==
  /\ w.pc \in {"idle", "search"} => allocated = linked[0] \cup dying
  /\ w.pc = "down" => allocated = dying
  /\ \A i \in Lvl : linked[i] \cap dying = {}

(* The list, the tree and the heap agree between any two stores.           *)
StructureOK == TypeOK /\ ChainOK /\ TreeOK /\ NoLeak

(* Between two operations lookups see exactly what the callers published   *)
(* and did not give back, but for two kinds of numbers: those whose        *)
(* publication had to allocate a second node and found no memory, and      *)
(* those alloc_pid() took for free while another call had them, until all  *)
(* have given them back.  Only of the latter can the tree have a struct    *)
(* pid, which it keeps.                                                    *)
IndexExact ==
  w.pc = "idle" =>
    /\ \A k \in Key \ (lost \cup shared) : Binding(k) = bound[k]
    /\ Spoiled \subseteq shared

(* A lookup returns a struct pid only if lookups were to find it during    *)
(* the section, or the tree has one for the number that is never taken     *)
(* out; and it misses a number they were to find throughout only if a      *)
(* smaller number was inserted between its two loads of forward[0] or a    *)
(* node was inserted into the tree while it searched there.                *)
LookupRight ==
  \A t \in Reader :
    r[t].pc = "done" /\ r[t].op = "lookup" =>
      /\ r[t].res # NULL /\ r[t].key \notin Spoiled => r[t].res \in r[t].seen
      /\ r[t].key \in r[t].stable => r[t].res # NULL \/ r[t].raced \/ r[t].torn

(* An iteration visits every number that lookups were to find throughout   *)
(* it, unless it meets a node with NULL or that race, and visits none      *)
(* twice even where a number has two nodes, but a number of which the tree *)
(* has a struct pid.                                                       *)
IterationRight ==
  \A t \in Reader :
    r[t].op = "iter" =>
      /\ r[t].pc = "eval" /\ ~IterEnds(t) /\ pid[r[t].next] # NULL =>
           \A k \in r[t].visited :
             k < key[r[t].next] \/ (k = key[r[t].next] /\ k \in Spoiled)
      /\ r[t].pc = "done" /\ ~r[t].raced /\ ~r[t].hole =>
           r[t].stable \subseteq r[t].visited
-----------------------------------------------------------------------------
(* What the comment in pid_rb_skiplist_destroy() says: the tree has been   *)
(* emptied before, by the removal of every number.                         *)
TreeEmptiedBefore == w.pc = "sync" => tree = {}
=============================================================================
