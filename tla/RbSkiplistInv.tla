--------------------------- MODULE RbSkiplistInv ---------------------------
(***************************************************************************)
(* The inductive invariant behind the safety properties of RbSkiplist.     *)
(* Two nodes may have one key, so the order of the list is not that of the *)
(* keys; pos numbers the nodes in the order they have.                     *)
(***************************************************************************)
EXTENDS RbSkiplist

(* The position of a cell, and that of a node outside the tree with the    *)
(* writer's key.                                                           *)
Late(n) == IF n \in tree THEN 0 ELSE 1
pos   == [n \in Cell |-> 2 * key[n] + Late(n)]
place == 2 * w.key + 1

(* The node the writer holds and the list may not: one it is linking, is   *)
(* unlinking, or has unlinked and not yet queued for freeing.              *)
InHand == IF w.pc \in {"link", "unlink", "call_rcu"} THEN {w.x} ELSE {}

HeapInv ==
  /\ key[Header] = INT_MIN /\ height[Header] = PID_SL_MAX_LEVEL
  /\ \A n \in allocated : key[n] \in Key
  /\ dying \subseteq allocated
  /\ \A i \in Lvl : linked[i] \subseteq allocated \ dying
  /\ allocated = linked[0] \cup dying \cup InHand
  /\ \A n \in allocated, i \in Lvl : height[n] <= i => forward[n][i] = NULL

LevelInv ==
  /\ w.pc # "down" => level >= 1
  /\ w.pc = "down" => linked[0] = {}
  /\ \A i \in Lvl : level <= i => linked[i] = {}
  /\ \A i \in Lvl : \A n \in linked[i] : i < height[n]
  /\ \A i \in Lvl : \A n \in linked[i] \ InHand :
       \A j \in Lvl : j < height[n] => n \in linked[j]
  /\ \A i \in Lvl : \A m, n \in linked[i] : pos[m] = pos[n] => m = n

(* The tree is part of the top level, and of two nodes with one key        *)
(* exactly one is in it.                                                   *)
TreeInv ==
  /\ \A n \in tree : height[n] = PID_SL_MAX_LEVEL /\ \A i \in Lvl : n \in linked[i]
  /\ \A m, n \in linked[0] : key[m] = key[n] /\ m # n => (m \in tree) # (n \in tree)
  /\ tree # {} => level = PID_SL_MAX_LEVEL

(* n is what forward[i] of m must be.                                      *)
IsSuccessor(m, i, n) ==
  IF n = NULL
  THEN \A o \in linked[i] : ~(pos[m] < pos[o])
  ELSE /\ n \in linked[i]
       /\ pos[m] < pos[n]
       /\ \A o \in linked[i] : pos[m] < pos[o] => o = n \/ pos[n] < pos[o]

ChainInv ==
  w.pc # "free" =>
    \A i \in Lvl : \A m \in linked[i] \cup {Header} :
      IsSuccessor(m, i, forward[m][i])

(* u is the last cell of level i before the place of the writer's key.     *)
IsPredecessor(u, i) ==
  /\ u \in linked[i] \cup {Header}
  /\ pos[u] < place
  /\ \A o \in linked[i] : pos[o] < place => ~(pos[u] < pos[o])

(* A search for a key that is in the tree starts, and stays, on its node:  *)
(* the node it ends on, which is the one after, is never in the tree.      *)
WriterInv ==
  /\ w.pc = "search" =>
       /\ w.op \in {"insert", "remove"}
       /\ w.key \in Key /\ w.own \in Pid
       /\ w.i < level
       /\ w.i >= 0 => w.x \in linked[w.i] \cup {Header} /\ pos[w.x] < place
       /\ w.i = -1 => w.x = w.update[0]
       /\ \A j \in Lvl : w.i < j /\ j < level => IsPredecessor(w.update[j], j)
       /\ \A n \in tree : key[n] = w.key => w.x = n
  /\ w.pc = "link" =>
       /\ w.key \in Key /\ w.own \in Pid
       /\ w.x \in allocated \ dying /\ w.x \notin tree
       /\ key[w.x] = w.key /\ pid[w.x] = w.pid /\ height[w.x] = w.lvl
       /\ w.i >= 0 /\ w.i <= w.lvl /\ w.lvl >= 1 /\ w.lvl <= level
       /\ \A j \in Lvl : w.x \in linked[j] <=> j < w.i
       /\ \A j \in Lvl : w.i <= j /\ j < w.lvl => IsPredecessor(w.update[j], j)
       /\ \A j \in Lvl : w.i <= j => forward[w.x][j] = NULL
       /\ \A o \in linked[0] : o # w.x => pos[o] # place
  /\ w.pc = "unlink" =>
       /\ w.x \in allocated \ dying /\ w.x \notin tree
       /\ key[w.x] = w.key
       /\ w.i >= 0 /\ w.i <= level
       /\ \A j \in Lvl : w.x \in linked[j] <=> w.i <= j /\ j < height[w.x]
       /\ \A j \in Lvl : w.i <= j /\ j < level => IsPredecessor(w.update[j], j)
  /\ w.pc = "call_rcu" =>
       /\ w.x \in allocated \ dying
       /\ \A j \in Lvl : w.x \notin linked[j]
  /\ w.pc = "sync" => Active \subseteq w.wait
  /\ w.pc \in {"free", "down"} => Active = {}
  /\ w.pc = "free" =>
       /\ \A m \in linked[0] : IsSuccessor(m, 0, forward[m][0])
       /\ w.x = NULL => linked[0] = {}
       /\ w.x # NULL => /\ w.x \in linked[0]
                        /\ \A o \in linked[0] : o = w.x \/ pos[w.x] < pos[o]

(* A live cell points only to live nodes, and a node some reader's grace   *)
(* period protects points only to nodes protected for that reader.         *)
RcuInv ==
  /\ \A n \in Node : gp[n] \subseteq Active
  /\ w.pc # "free" =>
       \A n \in (allocated \ dying) \cup {Header}, i \in Lvl :
         LET s == forward[n][i] IN
         s # NULL => s \in allocated \ dying /\ i < height[s]
  /\ \A n \in dying, i \in Lvl : \A t \in gp[n] :
       LET s == forward[n][i] IN
       s # NULL => Protected(t, s) /\ i < height[s]

(* No node of the tree is taken out while there are readers.               *)
ReaderInv ==
  \A t \in Reader :
    /\ r[t].pc = "tree" => r[t].cand \subseteq tree
    /\ r[t].pc # "tree" => r[t].cand = {}
    /\ r[t].pc \in {"walk", "last"} =>
         Protected(t, r[t].x) /\ r[t].i < height[r[t].x]
    /\ r[t].pc \in {"last", "eval"} => r[t].i = 0
    /\ r[t].pc = "eval" /\ r[t].next # NULL =>
         Protected(t, r[t].next) /\ 0 < height[r[t].next]

(* The writer's local facts, the shape of the list and of the tree and the *)
(* protection of readers hold together before and after every store.       *)
Inv ==
  /\ TypeOK /\ HeapInv /\ LevelInv /\ TreeInv /\ ChainInv
  /\ WriterInv /\ RcuInv /\ ReaderInv
-----------------------------------------------------------------------------
(* What the callers have made of a number, and the nodes it has.           *)

(* A number that one call has and no operation is working on is bound to   *)
(* the pointer of its findable node, has at most a placeholder while it is *)
(* reserved, and nothing findable when it is free or its publication was   *)
(* lost.                                                                   *)
SettledAlone(k) ==
  /\ \A p, q \in Holders(k) : p = q
  /\ reserved[k] \cap bound[k] = {}
  /\ k \in lost => bound[k] # {}
  /\ Holders(k) = {} \/ k \in lost => Findable(k) = {}
  /\ reserved[k] # {} => /\ \E n \in linked[0] : key[n] = k
                         /\ \A n \in Findable(k) : pid[n] = NULL
  /\ \A p \in bound[k] : k \notin lost => \E n \in Findable(k) : pid[n] = p

Settled(k) == k \in shared \/ SettledAlone(k)

(* What the operation at hand has to do with a number one call has.        *)
AtHand ==
  /\ w.pc \in {"search", "link"} => w.pid \in {NULL, w.own}
  /\ w.pc = "search" /\ w.op = "insert" /\ w.key \notin shared =>
       reserved[w.key] = {w.pid} \ {NULL} /\ bound[w.key] = {}
  /\ w.pc = "search" /\ w.op = "remove" /\ w.key \notin shared =>
       Holders(w.key) \subseteq {w.own}
  /\ w.pc = "link" /\ w.key \notin shared =>
       /\ w.key \notin lost
       /\ reserved[w.key] = {w.pid} \ {NULL} /\ bound[w.key] = {}
       /\ w.pid # NULL => \E n \in tree : key[n] = w.key
  /\ w.pc \in {"unlink", "call_rcu"} /\ w.key \notin shared =>
       Holders(w.key) \subseteq {w.own}

(* Of the numbers one call has, the tree has placeholders only: a second   *)
(* node is published only for one whose placeholder is in the tree, which  *)
(* does not take it.  A number is reserved only if no pointer is findable. *)
BoundInv ==
  /\ Spoiled \subseteq shared
  /\ \A k \in Key : InHand = {} \/ k # w.key => Settled(k)
  /\ AtHand
  /\ w.pc = "search" /\ w.op = "insert" /\ w.pid = NULL => Binding(w.key) = {}
  /\ w.pc \in {"link", "unlink", "call_rcu"} =>
       /\ w.key \in Key
       /\ \A n \in Findable(w.key) : n = w.x
  /\ w.pc \in {"sync", "free", "down"} => \A k \in Key : Holders(k) = {}
-----------------------------------------------------------------------------
(* What the answers of the readers rest on.                                *)

(* The readers whose history still grows.                                  *)
Reading == {t \in Reader : r[t].pc \notin {"idle", "done"}}

(* A node the writer has allocated and no one else can know of.            *)
Private == IF w.pc = "link" /\ w.i = 0 THEN {w.x} ELSE {}

(* Along the pointers of n the list goes on in its order, and none leads   *)
(* to a private node.                                                      *)
Upward(n) ==
  \A i \in Lvl :
    forward[n][i] # NULL =>
      forward[n][i] \notin Private /\ Precedes(n, forward[n][i])

(* n stands before the place of a node outside the tree with number k.     *)
Below(n, k) == key[n] < k \/ (key[n] = k /\ n \in tree)

(* The pointer of n is one of those seen by t, unless the tree has one for *)
(* the number t searches for.                                              *)
Known(t, n) ==
  r[t].key \notin Spoiled => pid[n] \in r[t].seen \cup {NULL}

(* From n, the next node on level 0 is not beyond a number above n that is *)
(* stable in the section of t; if it has the number t searches for, its    *)
(* pointer is one of those seen, unless the tree has one.                  *)
Leads(t, n) ==
  /\ \A k \in r[t].stable :
       Below(n, k) => forward[n][0] # NULL /\ key[forward[n][0]] <= k
  /\ forward[n][0] # NULL /\ key[forward[n][0]] = r[t].key =>
       Known(t, forward[n][0])

(* A number that lookups were to find throughout a section is on a linked  *)
(* node outside the tree; the pointer a linked node has for the number     *)
(* searched for is one of those seen.                                      *)
HistoryInv ==
  \A t \in Reading :
    /\ r[t].key \in Key
    /\ \A k \in r[t].stable :
         k >= r[t].key /\ \E m \in Findable(k) : pid[m] \in Pid
    /\ \A n \in linked[0] : key[n] = r[t].key => Known(t, n)
    /\ r[t].pc = "tree" => r[t].visited = {}

(* The node being removed still points to its successor on level 0.        *)
UnlinkedInv ==
  w.pc \in {"unlink", "call_rcu"} =>
    /\ w.x \notin tree /\ key[w.x] = w.key
    /\ Upward(w.x)
    /\ IsSuccessor(w.x, 0, forward[w.x][0])

(* What a reader finds on a removed node that is kept for it: the numbers  *)
(* stable in its section are on other nodes, and are ahead.                *)
RemovedInv ==
  \A n \in dying : \A t \in gp[n] \cap Reading :
    Upward(n) /\ key[n] \notin r[t].stable /\ Leads(t, n)

(* A reader on its way is before the number searched for until its first   *)
(* answer, and at the last number visited after it.  Between its two loads *)
(* of forward[0] the second will give no less than that number, unless a   *)
(* smaller one has come in.  It has passed the number's node in the tree,  *)
(* unless its search there was disturbed.                                  *)
WalkInv(t) ==
  r[t].pc \in {"walk", "last"} =>
    /\ r[t].x \notin Private
    /\ r[t].visited = {} => Below(r[t].x, r[t].key)
    /\ r[t].visited # {} => /\ r[t].pc = "last" /\ r[t].op = "iter"
                            /\ pid[r[t].x] \in Pid
    /\ \A j \in r[t].visited : j <= key[r[t].x]
    /\ \A k \in r[t].stable : k \in r[t].visited \/ Below(r[t].x, k)
    /\ InWindow(t) /\ ~r[t].raced /\ forward[r[t].x][0] # NULL =>
         key[forward[r[t].x][0]] >= r[t].key
    /\ r[t].visited = {} /\ ~r[t].torn /\ r[t].key \in r[t].stable =>
         \A n \in tree : key[n] = r[t].key => r[t].x = n

(* A reader that has its node is no further than the first stable number   *)
(* it has not visited.                                                     *)
EvalInv(t) ==
  r[t].pc = "eval" =>
    /\ r[t].next \notin Private
    /\ r[t].visited # {} => r[t].op = "iter"
    /\ \A k \in r[t].stable :
         k \in r[t].visited \/ (r[t].next # NULL /\ key[r[t].next] <= k)
    /\ r[t].next # NULL =>
         /\ \A j \in r[t].visited :
              j < key[r[t].next] \/ (j = key[r[t].next] /\ j \in Spoiled)
         /\ r[t].visited = {} /\ ~r[t].raced => key[r[t].next] >= r[t].key
         /\ key[r[t].next] = r[t].key =>
              /\ Known(t, r[t].next)
              /\ r[t].visited = {} /\ ~r[t].torn /\ r[t].key \in r[t].stable =>
                   r[t].next \notin tree

(* What each answer means once it is given.                                *)
DoneInv(t) ==
  r[t].pc = "done" =>
    /\ r[t].op = "lookup" =>
         /\ r[t].res # NULL /\ r[t].key \notin Spoiled =>
              r[t].res \in r[t].seen
         /\ r[t].key \in r[t].stable => r[t].res # NULL \/ r[t].raced \/ r[t].torn
    /\ r[t].op = "iter" /\ ~r[t].raced /\ ~r[t].hole =>
         r[t].stable \subseteq r[t].visited

(* Together with Inv and BoundInv this is inductive, and gives the         *)
(* promises made to readers.                                               *)
ReadInv ==
  /\ HistoryInv /\ UnlinkedInv /\ RemovedInv
  /\ \A t \in Reader : WalkInv(t) /\ EvalInv(t) /\ DoneInv(t)
=============================================================================
