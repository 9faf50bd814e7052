--------------------------- MODULE PidSkiplistInv ---------------------------
(***************************************************************************)
(* The inductive invariant behind the safety properties of PidSkiplist:    *)
(* what the writer knows between two of its stores, the shape of the list, *)
(* and what each reader is protected from losing.                          *)
(***************************************************************************)
EXTENDS PidSkiplist

(* The node the writer holds and the list may not: one it is linking, is   *)
(* unlinking, or has unlinked and not yet queued for freeing.              *)
InHand == IF w.pc \in {"link", "unlink", "call_rcu"} THEN {w.x} ELSE {}

HeapInv ==
  /\ key[Header] = INT_MIN /\ height[Header] = PID_SL_MAX_LEVEL
  /\ \A n \in allocated : key[n] \in Key
  /\ dying \subseteq allocated
  /\ \A i \in Lvl : linked[i] \subseteq allocated \ dying
  /\ allocated = linked[0] \cup dying \cup InHand
  /\ \A n \in allocated, i \in Lvl : height[n] <= i => forward[n][i] = NULL

LevelInv ==
  /\ w.pc # "down" => level >= 1
  /\ w.pc = "down" => linked[0] = {}
  /\ \A i \in Lvl : level <= i => linked[i] = {}
  /\ \A i \in Lvl : \A n \in linked[i] : i < height[n]
  /\ \A i \in Lvl : \A n \in linked[i] \ InHand :
       \A j \in Lvl : j < height[n] => n \in linked[j]
  /\ \A i \in Lvl : \A m, n \in linked[i] : key[m] = key[n] => m = n

(* u is the last cell of level i with a key below the writer's.            *)
IsPredecessor(u, i) ==
  /\ u \in linked[i] \cup {Header}
  /\ key[u] < w.key
  /\ \A o \in linked[i] : key[o] < w.key => ~(key[u] < key[o])

WriterInv ==
  /\ w.pc = "search" =>
       /\ w.op \in {"insert", "remove"}
       /\ w.key \in Key
       /\ w.i < level
       /\ w.i >= 0 => w.x \in linked[w.i] \cup {Header} /\ key[w.x] < w.key
       /\ w.i = -1 => w.x = w.update[0]
       /\ \A j \in Lvl : w.i < j /\ j < level => IsPredecessor(w.update[j], j)
  /\ w.pc = "alloc" =>
       /\ w.key \in Key
       /\ w.lvl >= 1 /\ w.lvl <= level
       /\ \A j \in Lvl : j < level => IsPredecessor(w.update[j], j)
       /\ \A o \in linked[0] : key[o] # w.key
  /\ w.pc = "link" =>
       /\ w.key \in Key
       /\ w.x \in allocated \ dying
       /\ key[w.x] = w.key /\ pid[w.x] = w.pid /\ height[w.x] = w.lvl
       /\ w.i >= 0 /\ w.i < w.lvl /\ w.lvl <= level
       /\ \A j \in Lvl : w.x \in linked[j] <=> j < w.i
       /\ \A j \in Lvl : w.i <= j /\ j < w.lvl => IsPredecessor(w.update[j], j)
       /\ \A j \in Lvl : w.i <= j => forward[w.x][j] = NULL
       /\ \A o \in linked[0] : o # w.x => key[o] # w.key
  /\ w.pc = "unlink" =>
       /\ w.x \in allocated \ dying
       /\ key[w.x] = w.key
       /\ w.i >= 0 /\ w.i <= level
       /\ \A j \in Lvl : w.x \in linked[j] <=> w.i <= j /\ j < height[w.x]
       /\ \A j \in Lvl : w.i <= j /\ j < level => IsPredecessor(w.update[j], j)
  /\ w.pc = "call_rcu" =>
       /\ w.x \in allocated \ dying
       /\ \A j \in Lvl : w.x \notin linked[j]
  /\ w.pc = "sync" => Active \subseteq w.wait
  /\ w.pc \in {"free", "down"} => Active = {}
  /\ w.pc = "free" =>
       /\ \A m \in linked[0] : IsSuccessor(m, 0, forward[m][0])
       /\ w.x = NULL => linked[0] = {}
       /\ w.x # NULL => /\ w.x \in linked[0]
                        /\ \A o \in linked[0] : o = w.x \/ key[w.x] < key[o]

(* What makes call_rcu() enough: a live cell points only to live nodes,    *)
(* and a node some reader's grace period protects points only to nodes     *)
(* protected for that reader, so a reader can never walk out of what it    *)
(* is protected from losing.                                               *)
RcuInv ==
  /\ \A n \in Node : gp[n] \subseteq Active
  /\ w.pc # "free" =>
       \A n \in (allocated \ dying) \cup {Header}, i \in Lvl :
         LET s == forward[n][i] IN
         s # NULL => s \in allocated \ dying /\ i < height[s]
  /\ \A n \in dying, i \in Lvl : \A t \in gp[n] :
       LET s == forward[n][i] IN
       s # NULL => Protected(t, s) /\ i < height[s]

ReaderInv ==
  \A t \in Reader :
    /\ r[t].pc \in {"walk", "last"} =>
         Protected(t, r[t].x) /\ r[t].i < height[r[t].x]
    /\ r[t].pc \in {"last", "eval"} => r[t].i = 0
    /\ r[t].pc = "eval" /\ r[t].next # NULL =>
         Protected(t, r[t].next) /\ 0 < height[r[t].next]

(* The writer's local facts, the shape of the list and the protection of   *)
(* readers hold together before and after every store and every load.      *)
Inv == TypeOK /\ HeapInv /\ LevelInv /\ ChainOK /\ WriterInv /\ RcuInv /\ ReaderInv
-----------------------------------------------------------------------------
(* What the answers of the readers rest on.                                *)

(* A node the writer has allocated and no one else can know of.            *)
Private == IF w.pc = "link" /\ w.i = 0 THEN {w.x} ELSE {}

(* Keys go up along the pointers of n, and none leads to a private node.   *)
Upward(n) ==
  \A i \in Lvl :
    forward[n][i] # NULL =>
      forward[n][i] \notin Private /\ key[n] < key[forward[n][i]]

(* From n, the next node on level 0 is not beyond a number above n that is *)
(* bound throughout the section of t; if it has the number t searches for, *)
(* its pointer is one of those seen.                                       *)
Leads(t, n) ==
  /\ \A k \in r[t].stable :
       key[n] < k => forward[n][0] # NULL /\ key[forward[n][0]] <= k
  /\ forward[n][0] # NULL /\ key[forward[n][0]] = r[t].key =>
       pid[forward[n][0]] \in r[t].seen \cup {NULL}

(* A number bound throughout a section is on a linked node; the pointer a  *)
(* linked node has for the number searched for is one of those seen.       *)
BoundInv ==
  \A t \in Active :
    /\ \A k \in r[t].stable : \E m \in linked[0] : key[m] = k /\ pid[m] \in Pid
    /\ \A n \in linked[0] :
         key[n] = r[t].key => pid[n] \in r[t].seen \cup {NULL}

(* The node being removed still points to its successor on level 0, and    *)
(* its key is on no other node there.                                      *)
UnlinkedInv ==
  w.pc \in {"unlink", "call_rcu"} =>
    /\ Upward(w.x)
    /\ IsSuccessor(w.x, 0, forward[w.x][0])
    /\ \A o \in linked[0] : key[o] = key[w.x] => o = w.x

(* What a reader finds on a removed node that is kept for it: the numbers  *)
(* bound throughout its section are on other nodes, and are ahead.         *)
RemovedInv ==
  \A n \in dying : \A t \in gp[n] :
    Upward(n) /\ key[n] \notin r[t].stable /\ Leads(t, n)

(* A reader on its way is below the number searched for until the first    *)
(* answer, and at the last number visited after it.  Between the two loads *)
(* of forward[0] the second will give no less than that number, unless a   *)
(* smaller one has come in.                                                *)
WalkInv(t) ==
  r[t].pc \in {"walk", "last"} =>
    /\ r[t].x \notin Private
    /\ r[t].visited = {} => key[r[t].x] < r[t].key
    /\ r[t].visited # {} => r[t].pc = "last" /\ r[t].op = "iter"
    /\ \A j \in r[t].visited : j <= key[r[t].x]
    /\ \A k \in r[t].stable :
         k >= r[t].key => k \in r[t].visited \/ key[r[t].x] < k
    /\ InWindow(t) /\ ~r[t].raced /\ forward[r[t].x][0] # NULL =>
         key[forward[r[t].x][0]] >= r[t].key

(* A reader that has its node is no further than the first number not      *)
(* visited that was bound throughout.                                      *)
EvalInv(t) ==
  r[t].pc = "eval" =>
    /\ r[t].next \notin Private
    /\ r[t].visited # {} => r[t].op = "iter"
    /\ \A k \in r[t].stable :
         k >= r[t].key =>
           k \in r[t].visited \/ (r[t].next # NULL /\ key[r[t].next] <= k)
    /\ r[t].next # NULL =>
         /\ \A j \in r[t].visited : j < key[r[t].next]
         /\ r[t].visited = {} /\ ~r[t].raced => key[r[t].next] >= r[t].key
         /\ key[r[t].next] = r[t].key =>
              pid[r[t].next] \in r[t].seen \cup {NULL}

(* What each answer means once it is given.                                *)
DoneInv(t) ==
  r[t].pc = "done" =>
    /\ r[t].op = "lookup" =>
         /\ r[t].res # NULL => r[t].res \in r[t].seen
         /\ r[t].key \in r[t].stable => r[t].res # NULL \/ r[t].raced
    /\ r[t].op = "find_ge" /\ ~r[t].raced =>
         /\ \A j \in r[t].visited : j >= r[t].key
         /\ \A k \in r[t].stable :
              k >= r[t].key => \E j \in r[t].visited : j <= k
    /\ r[t].op = "iter" /\ ~r[t].raced /\ ~r[t].hole =>
         \A k \in r[t].stable : k >= r[t].key => k \in r[t].visited

(* Together with Inv this is inductive, and gives the promises made to     *)
(* readers.                                                                *)
ReadInv ==
  /\ BoundInv /\ UnlinkedInv /\ RemovedInv
  /\ \A t \in Reader : WalkInv(t) /\ EvalInv(t) /\ DoneInv(t)
=============================================================================
