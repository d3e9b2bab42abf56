---------------------------- MODULE CfsRunqueue ----------------------------
(***************************************************************************)
(* The run queue of one kthread: cfs_runqueue.c over the red-black tree of *)
(* rb/red_black_tree.c.  Each action is what one holder of the run queue's *)
(* lock does to it (gt_pq.c); a uthread's vruntime is set by its scheduler *)
(* while it is on no queue.                                                *)
(***************************************************************************)
EXTENDS RedBlackTree

CONSTANTS
  VruntimeOf,   \* [Uthreads -> SUBSET Nat] the vruntimes a uthread may have
  Leavers,      \* the uthreads somebody removes by name
  Asked         \* the vruntimes the tree is searched for

ASSUME RunqueueAssumption ==
  /\ VruntimeOf \in [Uthreads -> SUBSET Nat]
  /\ Asked \subseteq Nat

VARIABLES
  tree,         \* the memory of the tree, see RedBlackTree
  node,         \* [Uthreads -> Addresses] uthread->node
  min,          \* runqueue->min, the cached minimum
  numThreads,   \* runqueue->num_threads
  vruntime      \* [Uthreads -> Nat] uthread->vruntime

vars == <<tree, node, min, numThreads, vruntime>>

Queued(u) == node[u] # NIL

(* initialize_cfs_runqueue, and uthreads fresh from calloc.  (Their node   *)
(* is NULL and becomes tree->nil when they are removed: nobody reads       *)
(* either, and both are NIL here.)                                         *)
Init ==
  /\ tree = EmptyTree
  /\ node = [u \in Uthreads |-> NIL]
  /\ min = Nil
  /\ numThreads = 0
  /\ vruntime \in [Uthreads -> UNION {VruntimeOf[u] : u \in Uthreads}]
  /\ \A u \in Uthreads : vruntime[u] \in VruntimeOf[u]

(* Whether u replaces the cached minimum m.  (Mutant: on a tie too.) *)
NoLater(u, m) == vruntime[m] >= vruntime[u]
Earlier(u, m) == vruntime[m] > vruntime[u]

(* add_to_cfs_runqueue *)
Add(u) ==
  /\ ~Queued(u)
  /\ tree' = Last(RBTreeInsert(<<tree>>, vruntime, u))
  /\ node' = [node EXCEPT ![u] = u]
  /\ numThreads' = numThreads + 1
  /\ min' = IF min = Nil THEN u ELSE IF Earlier(u, min) THEN u ELSE min
  /\ UNCHANGED vruntime

(* get_leftmost for s = "left", get_rightmost for s = "right". *)
Endmost(s) == IF tree.left[ROOT] = NIL THEN Nil
              ELSE tree.key[Farthest(tree, tree.left[ROOT], s)]
GetMaxUthread == Endmost("right")

(* get_best_thread *)
GetBestThread == IF min = Nil THEN Endmost("left") ELSE min

(* The node whose uthread becomes the minimum when the old minimum is      *)
(* about to leave node n.  (Mutant: only the right child is looked at.)    *)
RightChild(n) == tree.right[n]
NextAfter(n) == TreeSuccessor(tree, n)

(* num_threads after a removal.  (Mutant: not counted.) *)
Uncounted(n) == n
Fewer(n) == n - 1

(* remove_from_cfs_runqueue of u, m being the cached minimum. *)
RemoveUthread(u, m) ==
  LET next == NextAfter(node[u])
  IN /\ min' = IF m # u THEN m ELSE IF next = NIL THEN Nil ELSE tree.key[next]
     /\ tree' = Last(RBDelete(<<tree>>, node[u]))
     /\ node' = [node EXCEPT ![u] = NIL]
     /\ numThreads' = Fewer(numThreads)
     /\ UNCHANGED vruntime

(* sched_find_best_uthread: get_best_thread, which caches its answer, and  *)
(* remove_from_cfs_runqueue of it.                                         *)
RemoveBest ==
  /\ GetBestThread # Nil
  /\ RemoveUthread(GetBestThread, GetBestThread)

(* remove_from_cfs_runqueue of any queued uthread: nobody in the library   *)
(* asks for that yet, cfs_runqueue.h offers it.                            *)
RemoveByName(u) ==
  /\ u \in Leavers /\ Queued(u)
  /\ RemoveUthread(u, min)

(* The owner's scheduler charges a uthread it holds, or uthread_create     *)
(* gives a new one its first vruntime.                                     *)
Charge(u) ==
  /\ ~Queued(u)
  /\ \E v \in VruntimeOf[u] : vruntime' = [vruntime EXCEPT ![u] = v]
  /\ UNCHANGED <<tree, node, min, numThreads>>

Next ==
  \/ RemoveBest
  \/ \E u \in Uthreads : Add(u) \/ RemoveByName(u) \/ Charge(u)
Spec == Init /\ [][Next]_vars

-----------------------------------------------------------------------------
TypeOK ==
  /\ tree \in Images
  /\ node \in [Uthreads -> Uthreads \cup {NIL}]
  /\ min \in Uthreads \cup {Nil}
  /\ numThreads \in 0..Cardinality(Uthreads)
  /\ vruntime \in [Uthreads -> UNION {VruntimeOf[u] : u \in Uthreads}]

Keys == [i \in DOMAIN TreeNodes(tree) |-> tree.key[TreeNodes(tree)[i]]]

(* The run queue of the code, tree, rotations and all, is the queue the    *)
(* scheduler needs: least vruntime first, first come first served among    *)
(* equals, nobody skipped or served twice.                                 *)
Fair == INSTANCE FairQueue WITH queue <- Keys
QueueImplemented == Fair!FairQueueSpec

(* The shortcuts agree with the tree: min, which is never computed afresh  *)
(* but patched at each insertion and removal, is the leftmost uthread, and *)
(* num_threads, which fair slices are cut by, is how many there are.       *)
CachesAgree ==
  /\ min = Endmost("left")
  /\ numThreads = Len(Keys)

(* The node a uthread points to is its own, from RBTreeInsert until the    *)
(* uthread itself is removed, although removing others moves nodes about:  *)
(* remove_from_cfs_runqueue never searches.  (red_black_tree.c:212-216)    *)
NodeStaysValid == \A u \in Uthreads :
  /\ Queued(u) <=> Contains(TreeNodes(tree), node[u])
  /\ Queued(u) => tree.key[node[u]] = u

(* The red-black rules after every operation: a black top, no red child of *)
(* a red node, as many black nodes on every way down, and nil still black  *)
(* (asserted in RBDelete).  So a pick under the lock takes logarithmic     *)
(* time.                                                                   *)
RedBlackRules ==
  /\ \A n \in {NIL, ROOT, tree.left[ROOT]} : tree.red[n] = 0
  /\ BlackHeight(tree, tree.left[ROOT]) > 0
  /\ \A u \in Uthreads : Queued(u) /\ tree.red[node[u]] = 1 =>
       tree.red[tree.left[node[u]]] = 0 /\ tree.red[tree.right[node[u]]] = 0

(* Every node's parent pointer leads back to the node it hangs from: the   *)
(* next rotation or walk to a neighbour depends on it.                     *)
ParentsAgree == \A n \in {node[u] : u \in {w \in Uthreads : Queued(w)}} :
  /\ n \in {tree.left[tree.parent[n]], tree.right[tree.parent[n]]}
  /\ \A c \in {tree.left[n], tree.right[n]} \ {NIL} : tree.parent[c] = n

(* The walks and queries of the tree answer what the order says:           *)
(* TreeSuccessor and TreePredecessor the neighbours, and tree->nil where   *)
(* there is none (not NULL, see AbsentIsNull); RBExactQuery a node asked   *)
(* for (the highest, as red_black_tree.c:459-461 says: no other one lies   *)
(* above it), and NULL if there is none; RBEnumerate the nodes of a range  *)
(* in order: those behind all that come before low, up to the last that    *)
(* does not come after high.  RBTreeDestroy frees every node once, and     *)
(* none before it has read the pointers to both its children.              *)
Preceding(v) == Cardinality({u \in Uthreads : Queued(u) /\ vruntime[u] < v})
QueriesAgree ==
  /\ \A i \in DOMAIN Keys :
       LET ns == TreeNodes(tree) IN
       /\ TreeSuccessor(tree, ns[i]) = IF i < Len(ns) THEN ns[i + 1] ELSE NIL
       /\ TreePredecessor(tree, ns[i]) = IF i > 1 THEN ns[i - 1] ELSE NIL
  /\ \A v \in Asked :
       LET found == RBExactQuery(tree, vruntime, v)
           those == {n \in ToSet(TreeNodes(tree)) : vruntime[tree.key[n]] = v}
       IN IF those = {} THEN found = Nil
          ELSE found \in those /\ those \subseteq ToSet(InOrder(tree, found))
  /\ \A low, high \in Asked :
       RBEnumerate(tree, vruntime, low, high) =
         SubSeq(TreeNodes(tree), Preceding(low) + 1, Preceding(high + 1))
  /\ LET freed == RBTreeDestroy(tree) IN
     /\ IsInjective(freed)
     /\ ToSet(freed) = {NIL, ROOT} \cup {node[u] : u \in {w \in Uthreads : Queued(w)}}
     /\ \A i, j \in DOMAIN freed :
          tree.parent[freed[i]] = freed[j] /\ freed[i] \in Uthreads => i < j

(* red_black_tree.c:286-287 and :321-322: where there is no neighbour      *)
(* TreeSuccessor and Treepredecessor return "NULL".  Refuted: they return  *)
(* tree->nil, the address of a node.                                       *)
AbsentIsNull == Keys # <<>> =>
  /\ TreeSuccessor(tree, Last(TreeNodes(tree))) = Nil
  /\ TreePredecessor(tree, Head(TreeNodes(tree))) = Nil
=============================================================================
