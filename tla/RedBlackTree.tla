---------------------------- MODULE RedBlackTree ----------------------------
(***************************************************************************)
(* rb/red_black_tree.c, pointer by pointer.  A tree is a memory image: one *)
(* function from addresses to values for each field of rb_red_blk_node.    *)
(* An operation that writes takes and returns the history of images its    *)
(* stores go through, newest last: whoever takes the run queue's lock sees *)
(* only the last one, whoever reads without it may see any.                *)
(*                                                                         *)
(* The node malloc'd for a uthread bears the uthread's name.  Whether it   *)
(* still holds that uthread later is for the key field to say.             *)
(*                                                                         *)
(* The code's mirrored halves are one definition here: s is the side.      *)
(***************************************************************************)
EXTENDS Naturals, FiniteSets, SequencesExt

CONSTANTS
  Uthreads,     \* the keys, and the nodes malloc'd for them
  NIL,          \* tree->nil
  ROOT,         \* tree->root, whose left child is the top of the tree
  Nil           \* NULL, the address of no node: tree->nil is one

ASSUME TreeAssumption ==
  /\ IsFiniteSet(Uthreads)
  /\ NIL \notin Uthreads /\ ROOT \notin Uthreads \cup {NIL}
  /\ Nil \notin Uthreads \cup {NIL, ROOT}

Addresses == Uthreads \cup {NIL, ROOT}

(* struct rb_red_blk_node, a function from addresses for each field; red   *)
(* is an int there.                                                        *)
Images == [left : [Addresses -> Addresses], right : [Addresses -> Addresses],
           parent : [Addresses -> Addresses], red : [Addresses -> {0, 1}],
           key : [Uthreads -> Uthreads]]

Other(s) == IF s = "left" THEN "right" ELSE "left"

(* One store. *)
Put(h, field, n, v) == Append(h, [Last(h) EXCEPT ![field][n] = v])
Paint(h, n, colour) == Put(h, "red", n, colour)

(* Node v takes the place of x below x's parent. *)
Replace(h, x, v) ==
  LET p == Last(h).parent[x]
  IN Put(h, IF x = Last(h).left[p] THEN "left" ELSE "right", p, v)

(* RBTreeCreate.  A field of memory not in use is NIL, black or its own.   *)
EmptyTree ==
  [left |-> [n \in Addresses |-> NIL], right |-> [n \in Addresses |-> NIL],
   parent |-> [n \in Addresses |-> NIL], red |-> [n \in Addresses |-> 0],
   key |-> [n \in Uthreads |-> n]]

(* free: nothing may read the node any more. *)
Free(h, n) ==
  LET t == Last(h) IN
  Append(h, [t EXCEPT !.left[n] = NIL, !.right[n] = NIL, !.parent[n] = NIL,
                      !.red[n] = 0, !.key[n] = n])

(* Compare(...) == 1, for compare_virtual_runtimes. (Mutant: >= for >.) *)
GreaterOrEqual(v, w) == v >= w
Greater(v, w) == v > w

-----------------------------------------------------------------------------
(* A rotation hangs the inner grandchild below x, unless it is nil, whose  *)
(* parent RBDeleteFixUp may need.  (Mutants: its parent pointer is left as *)
(* it was; nil's is set too.)                                              *)
Unadopted(h, n, x) == h
NilAdopted(h, n, x) == Put(h, "parent", n, x)
Adopted(h, n, x) == IF n # NIL THEN Put(h, "parent", n, x) ELSE h

(* LeftRotate for s = "left", RightRotate for s = "right". *)
Rotate(h, x, s) ==
  LET t == Last(h)
      y == t[Other(s)][x]
      h1 == Put(h, Other(s), x, t[s][y])
      h2 == Adopted(h1, t[s][y], x)
      h3 == Put(h2, "parent", y, t.parent[x])
      h4 == Replace(h3, x, y)
      h5 == Put(h4, s, y, x)
  IN Put(h5, "parent", x, y)

(* The loop of TreeInsertHelp: the parent of a new node with vruntime v. *)
Descend(t, vr, v) ==
  LET last[y \in Addresses] ==
        LET x == IF y # ROOT /\ ~Greater(vr[t.key[y]], v)
                 THEN t.right[y] ELSE t.left[y]
        IN IF x = NIL THEN y ELSE last[x]
  IN last[ROOT]

TreeInsertHelp(h, vr, z) ==
  LET t == Last(h)
      y == Descend(t, vr, vr[z])
      h1 == Put(Put(h, "right", z, NIL), "left", z, NIL)
      h2 == Put(h1, "parent", z, y)
  IN Put(h2, IF y = ROOT \/ Greater(vr[t.key[y]], vr[z])
             THEN "left" ELSE "right", y, z)

(* One turn of RBTreeInsert's loop: the new history and the new x.  When   *)
(* the loop is over, nothing changes any more.  Rising: x's parent takes   *)
(* the place of x's grandparent.                                           *)
Rising(h, x, s) ==
  LET p == Last(h).parent[x]
      g == Last(h).parent[p]
  IN Rotate(Paint(Paint(h, p, 0), g, 1), g, Other(s))

InsertTurn(h, x) ==
  LET t == Last(h)
      p == t.parent[x]
      g == t.parent[p]
      s == IF p = t.left[g] THEN "left" ELSE "right"
      y == t[Other(s)][g]
  IN IF t.red[p] = 0 THEN <<h, x>>
     ELSE IF t.red[y] = 1
          THEN <<Paint(Paint(Paint(h, p, 0), y, 0), g, 1), g>>
     ELSE IF x = t[Other(s)][p] THEN <<Rising(Rotate(h, p, s), p, s), p>>
     ELSE <<Rising(h, x, s), x>>

(* Turn by turn.  The tree has fewer levels than there are uthreads, and   *)
(* a loop that climbs it as many turns at most.                            *)
InsertTurns(h, x) ==
  LET turn[i \in Nat] ==
        IF i = 0 THEN <<h, x>>
        ELSE LET r == turn[i - 1] IN InsertTurn(r[1], r[2])
  IN turn
InsertFixUp(h, x) == InsertTurns(h, x)[Cardinality(Uthreads)][1]

(* RBTreeInsert of uthread u, whose node is u. *)
RBTreeInsert(h, vr, u) ==
  LET h1 == Paint(TreeInsertHelp(Put(h, "key", u, u), vr, u), u, 1)
      h2 == InsertFixUp(h1, u)
  IN Paint(h2, Last(h2).left[ROOT], 0)

-----------------------------------------------------------------------------
(* From n as far as one side goes. *)
Farthest(t, n, s) ==
  LET far[m \in Addresses] == IF t[s][m] = NIL THEN m ELSE far[t[s][m]]
  IN far[n]

(* The first ancestor of x that x is not below on side s, or ROOT. *)
Climb(t, x, s) ==
  LET up[n \in Addresses] ==
        LET y == t.parent[n] IN IF y # ROOT /\ n = t[s][y] THEN up[y] ELSE y
  IN up[x]

(* TreeSuccessor for s = "right", TreePredecessor for s = "left".  (The    *)
(* first needs no test for ROOT in its loop: ROOT has no right child.)     *)
(* Where there is none they answer tree->nil (:310, :342); their comments  *)
(* (:286-287, :321-322) say NULL.                                          *)
Neighbour(t, x, s) ==
  IF t[s][x] # NIL THEN Farthest(t, t[s][x], Other(s))
  ELSE LET y == Climb(t, x, s) IN IF y = ROOT THEN NIL ELSE y
TreeSuccessor(t, x) == Neighbour(t, x, "right")
TreePredecessor(t, x) == Neighbour(t, x, "left")

(* One turn of RBDeleteFixUp's loop for an x on side s, from its end:      *)
(* a red far child of the sibling w lets x's side have one more black,     *)
Borrowing(h, x, s) ==
  LET t == Last(h)
      p == t.parent[x]
      w == t[Other(s)][p]
      painted == Paint(Paint(h, w, t.red[p]), p, 0)
  IN Rotate(Paint(painted, t[Other(s)][w], 0), p, s)

(* a black w can be made red, or else to have a red far child,             *)
BlackSibling(h, root, x, s) ==
  LET t == Last(h)
      p == t.parent[x]
      w == t[Other(s)][p]
      near == t[s][w]
  IN IF t.red[near] = 0 /\ t.red[t[Other(s)][w]] = 0
     THEN <<Paint(h, w, 1), p>>
     ELSE IF t.red[t[Other(s)][w]] = 0
          THEN <<Borrowing(Rotate(Paint(Paint(h, near, 0), w, 1), w, Other(s)),
                           x, s), root>>
     ELSE <<Borrowing(h, x, s), root>>

(* a red one is made the parent's parent first.  root is the top when the  *)
(* loop began: after a rotation there it is no longer the top.             *)
DeleteTurn(h, root, x) ==
  LET t == Last(h)
      p == t.parent[x]
      s == IF x = t.left[p] THEN "left" ELSE "right"
      w == t[Other(s)][p]
  IN IF t.red[x] = 1 \/ x = root THEN <<h, x>>
     ELSE IF t.red[w] = 1
          THEN BlackSibling(Rotate(Paint(Paint(h, w, 0), p, 1), p, s), root, x, s)
     ELSE BlackSibling(h, root, x, s)

DeleteTurns(h, root, x) ==
  LET turn[i \in Nat] ==
        IF i = 0 THEN <<h, x>>
        ELSE LET r == turn[i - 1] IN DeleteTurn(r[1], root, r[2])
  IN turn

RBDeleteFixUp(h, x) ==
  LET r == DeleteTurns(h, Last(h).left[ROOT], x)[Cardinality(Uthreads)]
  IN Paint(r[1], r[2], 0)

(* Whether the node that leaves its place was black.  (Mutant: asked of    *)
(* the node it replaces, whose colour it takes on.)                        *)
ReplacedWasBlack(t, y, z) == t.red[z] = 0
SplicedWasBlack(t, y, z) == t.red[y] = 0

(* RBDelete, y # z: y takes over the place and colour of z.  (Mutant: the  *)
(* textbook's way, z takes over the key of y.)                             *)
KeyMoved(h, y, z) == Put(h, "key", z, Last(h).key[y])
Spliced(h, y, z) ==
  LET t == Last(h)
      h1 == Put(Put(h, "left", y, t.left[z]), "right", y, t.right[z])
      h2 == Paint(Put(h1, "parent", y, t.parent[z]), y, t.red[z])
      h3 == Put(Put(h2, "parent", t.right[z], y), "parent", t.left[z], y)
  IN Put(h3, IF z = Last(h3).left[Last(h3).parent[z]] THEN "left" ELSE "right",
         Last(h3).parent[z], y)

RBDelete(h, z) ==
  LET t == Last(h)
      y == IF t.left[z] = NIL \/ t.right[z] = NIL THEN z
           ELSE TreeSuccessor(t, z)
      x == IF t.left[y] = NIL THEN t.right[y] ELSE t.left[y]
      h1 == Put(h, "parent", x, t.parent[y])
      h2 == IF t.parent[y] = ROOT THEN Put(h1, "left", ROOT, x)
            ELSE Replace(h1, y, x)
      h3 == IF y = z THEN h2 ELSE Spliced(h2, y, z)
      h4 == IF SplicedWasBlack(t, y, z) THEN RBDeleteFixUp(h3, x) ELSE h3
  IN Free(h4, z)

-----------------------------------------------------------------------------
(* RBExactQuery, whose 0 is NULL.  v is the vruntime asked for.            *)
RBExactQuery(t, vr, v) ==
  LET search[x \in Addresses] ==
        IF x = NIL THEN Nil
        ELSE IF vr[t.key[x]] = v THEN x
        ELSE search[IF Greater(vr[t.key[x]], v) THEN t.left[x] ELSE t.right[x]]
  IN search[t.left[ROOT]]

(* RBEnumerate: lastBest, and the stack, top first. *)
LastAtMost(t, vr, high) ==
  LET best[x \in Addresses] ==
        IF x = NIL THEN NIL
        ELSE IF Greater(vr[t.key[x]], high) THEN best[t.left[x]]
        ELSE IF best[t.right[x]] = NIL THEN x ELSE best[t.right[x]]
  IN best[t.left[ROOT]]

RBEnumerate(t, vr, low, high) ==
  LET stack[n \in Addresses] ==
        IF n = NIL THEN <<>>
        ELSE IF Greater(low, vr[t.key[n]]) THEN <<>>
        ELSE Append(stack[TreePredecessor(t, n)], n)
  IN stack[LastAtMost(t, vr, high)]

(* RBTreeDestroy: what TreeDestHelper and it free, in order. *)
RBTreeDestroy(t) ==
  LET freed[x \in Addresses] ==
        IF x = NIL THEN <<>>
        ELSE freed[t.left[x]] \o freed[t.right[x]] \o <<x>>
  IN freed[t.left[ROOT]] \o <<ROOT, NIL>>

-----------------------------------------------------------------------------
(* What the tree is for: its nodes in order, and the red-black rules.      *)
InOrder(t, n) ==
  LET nodes[m \in Addresses] ==
        IF m = NIL THEN <<>>
        ELSE nodes[t.left[m]] \o <<m>> \o nodes[t.right[m]]
  IN nodes[n]
TreeNodes(t) == InOrder(t, t.left[ROOT])

(* The black nodes on every way down from n, or 0 if they differ. *)
BlackHeight(t, n) ==
  LET height[m \in Addresses] ==
        IF m = NIL THEN 1
        ELSE LET l == height[t.left[m]]
                 r == height[t.right[m]]
             IN IF l # r \/ l = 0 THEN 0 ELSE l + 1 - t.red[m]
  IN height[n]
=============================================================================
