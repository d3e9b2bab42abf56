------------------------- MODULE RedBlackTreeProofs -------------------------
(***************************************************************************)
(* Proofs about RedBlackTree, for any uthreads: what a history of stores   *)
(* does to a tree, up to RBTreeInsert.                                     *)
(*                                                                         *)
(* A tree is described by a numbering.  pos numbers its nodes Q from left  *)
(* to right, and lo and hi say between which numbers the nodes below each  *)
(* are. So everything that is said of a node, that the tree is one,        *)
(* ordered, and without cycles included, relates it to its neighbours      *)
(* only, and a rotation, insertion or removal changes it for a few nodes.  *)
(* Black heights are another such numbering, bh.                           *)
(*                                                                         *)
(* A loop is proved to come to its end because x climbs: after i turns it  *)
(* is above i more nodes (Ascending).                                      *)
(***************************************************************************)
EXTENDS RedBlackTree, FiniteSetTheorems, WellFoundedInduction, TLAPS

-----------------------------------------------------------------------------
(* Stores, and the rotations they make.                                    *)

(* The two sides, and the three pointers of rb_red_blk_node.               *)
Sides == {"left", "right"}
Pointers == {"left", "right", "parent"}
(* The images that the stores of an operation go through, newest last.     *)
Histories == {h \in Seq(Images) : h # <<>>}

(* What a history ends with is an image of the tree.                       *)
LEMMA LastOfHistory ==
  ASSUME NEW h \in Histories
  PROVE  Last(h) \in Images
BY DEF Histories, Last

(* A store to a pointer field makes one more image.                        *)
LEMMA PutHistory ==
  ASSUME NEW h \in Histories, NEW f \in Pointers,
         NEW n \in Addresses, NEW v \in Addresses
  PROVE  Put(h, f, n, v) \in Histories
<1> DEFINE u == [Last(h) EXCEPT ![f][n] = v]
<1>1. u \in Images
  BY LastOfHistory DEF Images, Pointers
<1>2. QED
  BY <1>1 DEF Histories, Put

(* It changes this one pointer and nothing else.                           *)
LEMMA PutPointer ==
  ASSUME NEW h \in Histories, NEW f \in Pointers,
         NEW n \in Addresses, NEW v \in Addresses
  PROVE  /\ \A g \in Pointers : \A m \in Addresses :
              Last(Put(h, f, n, v))[g][m] =
                IF g = f /\ m = n THEN v ELSE Last(h)[g][m]
         /\ Last(Put(h, f, n, v)).red = Last(h).red
         /\ Last(Put(h, f, n, v)).key = Last(h).key
<1> DEFINE t == Last(h)
           u == [t EXCEPT ![f][n] = v]
<1>1. Last(Put(h, f, n, v)) = u
  BY DEF Put, Histories, Last
<1>2. \A g \in Pointers : \A m \in Addresses :
        u[g][m] = IF g = f /\ m = n THEN v ELSE t[g][m]
  BY LastOfHistory DEF Images, Pointers
<1>3. u.red = t.red /\ u.key = t.key
  BY LastOfHistory DEF Images, Pointers
<1> HIDE DEF t, u
<1>4. QED
  BY <1>1, <1>2, <1>3 DEF t

(* A store to a red field makes one more image.                            *)
LEMMA PaintHistory ==
  ASSUME NEW h \in Histories, NEW n \in Addresses, NEW c \in {0, 1}
  PROVE  Paint(h, n, c) \in Histories
<1> DEFINE u == [Last(h) EXCEPT !.red[n] = c]
<1>1. u \in Images
  BY LastOfHistory DEF Images
<1>2. QED
  BY <1>1 DEF Histories, Put, Paint

(* It changes this one colour and nothing else.                            *)
LEMMA PaintRed ==
  ASSUME NEW h \in Histories, NEW n \in Addresses, NEW c \in {0, 1}
  PROVE  /\ \A g \in Pointers : Last(Paint(h, n, c))[g] = Last(h)[g]
         /\ \A m \in Addresses :
              Last(Paint(h, n, c)).red[m] = IF m = n THEN c ELSE Last(h).red[m]
         /\ Last(Paint(h, n, c)).key = Last(h).key
<1> DEFINE t == Last(h)
           u == [t EXCEPT !.red[n] = c]
<1>0. Len(Append(h, u)) = Len(h) + 1 /\ Append(h, u)[Len(h) + 1] = u
  <2> HIDE DEF u
  <2>1. QED
    BY DEF Histories
<1>1. Last(Paint(h, n, c)) = u
  <2>1. Paint(h, n, c) = Append(h, u)
    BY DEF Put, Paint
  <2>2. QED
    BY <1>0, <2>1 DEF Last
<1>2. /\ \A g \in Pointers : u[g] = t[g]
      /\ \A m \in Addresses : u.red[m] = IF m = n THEN c ELSE t.red[m]
      /\ u.key = t.key
  BY LastOfHistory DEF Images, Pointers
<1> HIDE DEF t, u
<1>3. QED
  BY <1>1, <1>2 DEF t

(* One store after another. *)
Halfway(h, up, x, y, b, p, o) ==
  LET h1 == Put(h, o, x, b)
      h2 == IF b # NIL THEN Put(h1, up, b, x) ELSE h1
  IN Put(h2, up, y, p)
Finished(h3, up, x, y, p, s, q) ==
  Put(Put(Put(h3, q, p, y), s, y, x), up, x, y)

(* What they have done to the image t. *)
HalfwayDone(t, u, up, x, y, b, p, o) ==
  /\ \A g \in Pointers : \A m \in Addresses :
       u[g][m] = IF g = up /\ m = y THEN p
                 ELSE IF g = up /\ m = b /\ b # NIL THEN x
                 ELSE IF g = o /\ m = x THEN b
                 ELSE t[g][m]
  /\ u.red = t.red
  /\ u.key = t.key

FinishedDone(t, u, up, x, y, p, s, q) ==
  /\ \A g \in Pointers : \A m \in Addresses :
       u[g][m] = IF g = up /\ m = x THEN y
                 ELSE IF g = s /\ m = y THEN x
                 ELSE IF g = q /\ m = p THEN y
                 ELSE t[g][m]
  /\ u.red = t.red
  /\ u.key = t.key

(* The stores of LeftRotate and RightRotate up to that of y's parent.      *)
LEMMA FirstStores ==
  ASSUME NEW h \in Histories, NEW x \in Addresses, NEW y \in Addresses,
         NEW b \in Addresses, NEW p \in Addresses,
         NEW up \in Pointers, NEW o \in Pointers
  PROVE  /\ Halfway(h, up, x, y, b, p, o) \in Histories
         /\ HalfwayDone(Last(h), Last(Halfway(h, up, x, y, b, p, o)),
                        up, x, y, b, p, o)
<1> DEFINE h1 == Put(h, o, x, b)
           h2 == IF b # NIL THEN Put(h1, up, b, x) ELSE h1
           h3 == Put(h2, up, y, p)
<1>1. /\ h1 \in Histories
      /\ \A g \in Pointers : \A m \in Addresses :
           Last(h1)[g][m] = IF g = o /\ m = x THEN b ELSE Last(h)[g][m]
      /\ Last(h1).red = Last(h).red
      /\ Last(h1).key = Last(h).key
  <2>1. h1 \in Histories
    BY PutHistory
  <2>2. QED
    BY <2>1, PutPointer
<1>2. /\ h2 \in Histories
      /\ \A g \in Pointers : \A m \in Addresses :
           Last(h2)[g][m] = IF g = up /\ m = b /\ b # NIL THEN x
                            ELSE Last(h1)[g][m]
      /\ Last(h2).red = Last(h1).red
      /\ Last(h2).key = Last(h1).key
  <2>0. h1 \in Histories
    BY <1>1
  <2> HIDE DEF h1
  <2>1. CASE b = NIL
    BY <2>0, <2>1
  <2>2. CASE b # NIL
    <3>1. h2 = Put(h1, up, b, x)
      BY <2>2
    <3>2. h2 \in Histories
      BY <2>0, <3>1, PutHistory
    <3> HIDE DEF h2
    <3>3. QED
      BY <2>0, <2>2, <3>1, <3>2, PutPointer
  <2>3. QED
    BY <2>1, <2>2
<1>3. /\ h3 \in Histories
      /\ \A g \in Pointers : \A m \in Addresses :
           Last(h3)[g][m] = IF g = up /\ m = y THEN p ELSE Last(h2)[g][m]
      /\ Last(h3).red = Last(h2).red
      /\ Last(h3).key = Last(h2).key
  <2>1. h2 \in Histories
    BY <1>2
  <2> HIDE DEF h2
  <2>2. h3 \in Histories
    BY <2>1, PutHistory
  <2>3. QED
    BY <2>1, <2>2, PutPointer
<1>4. h3 = Halfway(h, up, x, y, b, p, o)
  BY DEF Halfway
<1> HIDE DEF h1, h2, h3
<1>5. QED
  BY <1>1, <1>2, <1>3, <1>4 DEF HalfwayDone

(* The stores after those: x's parent, y and x are hung anew.              *)
LEMMA LastStores ==
  ASSUME NEW h3 \in Histories, NEW x \in Addresses, NEW y \in Addresses,
         NEW p \in Addresses,
         NEW up \in Pointers, NEW s \in Pointers, NEW q \in Pointers
  PROVE  /\ Finished(h3, up, x, y, p, s, q) \in Histories
         /\ FinishedDone(Last(h3), Last(Finished(h3, up, x, y, p, s, q)),
                         up, x, y, p, s, q)
<1> DEFINE h4 == Put(h3, q, p, y)
           h5 == Put(h4, s, y, x)
           h6 == Put(h5, up, x, y)
<1>1. /\ h4 \in Histories
      /\ \A g \in Pointers : \A m \in Addresses :
           Last(h4)[g][m] = IF g = q /\ m = p THEN y ELSE Last(h3)[g][m]
      /\ Last(h4).red = Last(h3).red
      /\ Last(h4).key = Last(h3).key
  <2>1. h4 \in Histories
    BY PutHistory
  <2>2. QED
    BY <2>1, PutPointer
<1>2. /\ h5 \in Histories
      /\ \A g \in Pointers : \A m \in Addresses :
           Last(h5)[g][m] = IF g = s /\ m = y THEN x ELSE Last(h4)[g][m]
      /\ Last(h5).red = Last(h4).red
      /\ Last(h5).key = Last(h4).key
  <2>1. h4 \in Histories
    BY <1>1
  <2> HIDE DEF h4
  <2>2. h5 \in Histories
    BY <2>1, PutHistory
  <2>3. QED
    BY <2>1, <2>2, PutPointer
<1>3. /\ h6 \in Histories
      /\ \A g \in Pointers : \A m \in Addresses :
           Last(h6)[g][m] = IF g = up /\ m = x THEN y ELSE Last(h5)[g][m]
      /\ Last(h6).red = Last(h5).red
      /\ Last(h6).key = Last(h5).key
  <2>1. h5 \in Histories
    BY <1>2
  <2> HIDE DEF h5
  <2>2. h6 \in Histories
    BY <2>1, PutHistory
  <2>3. QED
    BY <2>1, <2>2, PutPointer
<1>4. h6 = Finished(h3, up, x, y, p, s, q)
  BY DEF Finished
<1> HIDE DEF h4, h5, h6
<1>5. QED
  BY <1>1, <1>2, <1>3, <1>4 DEF FinishedDone

(* What a rotation at x does, pointer by pointer. *)
RotatedAt(t, u, x, s) ==
  LET y == t[Other(s)][x]
      b == t[s][y]
      p == t.parent[x]
  IN /\ \A n \in Addresses : \A q \in Sides :
          u[q][n] = IF n = x /\ q = Other(s) THEN b
                    ELSE IF n = y /\ q = s THEN x
                    ELSE IF n = p /\ (q = "left" <=> t.left[p] = x) THEN y
                    ELSE t[q][n]
     /\ \A n \in Addresses :
          u.parent[n] = IF n = x THEN y ELSE IF n = y THEN p
                        ELSE IF n = b /\ b # NIL THEN x ELSE t.parent[n]
     /\ u.red = t.red /\ u.key = t.key

(* LeftRotate and RightRotate of distinct nodes do what RotatedAt says,    *)
(* whatever the rest of the memory is.                                     *)
LEMMA RotateEffect ==
  ASSUME NEW h \in Histories, NEW x \in Addresses, NEW s \in Sides,
         NEW t, t = Last(h),
         NEW y, y = t[Other(s)][x], NEW b, b = t[s][y], NEW p, p = t.parent[x],
         y # x, p # x, p # y, b # x, b # y
  PROVE  /\ Rotate(h, x, s) \in Histories
         /\ RotatedAt(t, Last(Rotate(h, x, s)), x, s)
<1> DEFINE o == Other(s)
           up == "parent"
           q == IF t.left[p] = x THEN "left" ELSE "right"
           h3 == Halfway(h, up, x, y, b, p, o)
           h6 == Finished(h3, up, x, y, p, s, q)
<1>1. y \in Addresses /\ b \in Addresses /\ p \in Addresses
  BY LastOfHistory DEF Images, Sides, Other
<1>2. s \in Pointers /\ o \in Pointers /\ q \in Pointers /\ up \in Pointers
  BY DEF Sides, Pointers, Other
<1>3. s # up /\ o # up /\ q # up /\ o # s
  BY DEF Sides, Other
<1>4. \A r \in Sides : r = q <=> (r = "left" <=> t.left[p] = x)
  BY DEF Sides
<1>5. q = IF t.left[p] = x THEN "left" ELSE "right"
  OBVIOUS
<1> HIDE DEF o, q, up
<1>6. h3 \in Histories /\ HalfwayDone(t, Last(h3), up, x, y, b, p, o)
  BY <1>1, <1>2, FirstStores
<1>7. h6 \in Histories /\ FinishedDone(Last(h3), Last(h6), up, x, y, p, s, q)
  <2> HIDE DEF h3
  <2>1. QED
    BY <1>1, <1>2, <1>6, LastStores
<1>8. Rotate(h, x, s) = h6
  <2>1. /\ Last(h3)[up][x] = p
        /\ Last(h3)["left"][p] = t["left"][p]
    <3>1. "left" \in Pointers /\ "left" # up
      BY DEF Pointers, up
    <3> HIDE DEF h3, h6
    <3>2. QED
      BY <1>1, <1>2, <1>3, <1>6, <3>1 DEF up, HalfwayDone
  <2>2. Replace(h3, x, y) = Put(h3, q, p, y)
    <3> HIDE DEF h3
    <3> QED BY <2>1, <1>5 DEF Replace, up
  <2>3. h3 = Put(Adopted(Put(h, o, x, b), b, x), "parent", y, p)
    BY DEF Halfway, Adopted, up
  <2>4. Rotate(h, x, s) = Put(Put(Replace(h3, x, y), s, y, x), "parent", x, y)
    <3> HIDE DEF h3
    <3> QED BY <2>3 DEF Rotate, o, up
  <2>5. QED
    BY <2>2, <2>4 DEF Finished, up
<1> HIDE DEF h3, h6
<1>9. \A n \in Addresses : \A r \in Sides :
          Last(h6)[r][n] = IF n = x /\ r = o THEN b
                    ELSE IF n = y /\ r = s THEN x
                    ELSE IF n = p /\ r = q THEN y
                    ELSE t[r][n]
  <2>1. \A r \in Sides : r \in Pointers /\ r # up
    BY DEF Sides, Pointers, up
  <2>2. QED
    BY <1>1, <1>2, <1>3, <1>6, <1>7, <2>1 DEF HalfwayDone, FinishedDone
<1>10. \A n \in Addresses :
          Last(h6)[up][n] = IF n = x THEN y ELSE IF n = y THEN p
                        ELSE IF n = b /\ b # NIL THEN x ELSE t[up][n]
  BY <1>1, <1>2, <1>3, <1>6, <1>7 DEF HalfwayDone, FinishedDone
<1>11. QED
  <2>1. Last(h6).red = t.red /\ Last(h6).key = t.key
    BY <1>6, <1>7 DEF HalfwayDone, FinishedDone
  <2>2. QED
    BY <1>4, <1>7, <1>8, <1>9, <1>10, <2>1 DEF RotatedAt, o, up

-----------------------------------------------------------------------------
(* The shape of a tree.  Q are its nodes, pos numbers them from left to    *)
(* right, and the nodes below n, n included, are those numbered lo[n] to   *)
(* hi[n].  All that is said of a node relates it to its neighbours only.   *)
Numbered(Q, N, pos) ==
  /\ Q \subseteq Uthreads /\ N \in Nat
  /\ pos \in [Q -> 1..N]
  /\ \A m, n \in Q : pos[m] = pos[n] => m = n
  /\ \A i \in 1..N : \E n \in Q : pos[n] = i

(* Spans are between 1 and N.                                              *)
Spanned(Q, N, lo, hi) == lo \in [Q -> 1..N] /\ hi \in [Q -> 1..N]

(* The span of n is its own number between the spans of its children,      *)
(* which know n as their parent.                                           *)
Spans(t, Q, pos, lo, hi, n) ==
  /\ pos[n] \in Nat /\ lo[n] \in Nat /\ hi[n] \in Nat
  /\ lo[n] <= pos[n] /\ pos[n] <= hi[n]
  /\ \/ t.left[n] = NIL /\ lo[n] = pos[n]
     \/ /\ t.left[n] \in Q /\ t.parent[t.left[n]] = n
        /\ lo[t.left[n]] = lo[n] /\ hi[t.left[n]] = pos[n] - 1
  /\ \/ t.right[n] = NIL /\ hi[n] = pos[n]
     \/ /\ t.right[n] \in Q /\ t.parent[t.right[n]] = n
        /\ lo[t.right[n]] = pos[n] + 1 /\ hi[t.right[n]] = hi[n]

(* n hangs from its parent.                                                *)
Hangs(t, Q, n) ==
  \/ t.parent[n] = ROOT /\ t.left[ROOT] = n
  \/ t.parent[n] \in Q /\ n \in {t.left[t.parent[n]], t.right[t.parent[n]]}

(* Everything is below the top.                                            *)
TopSpans(t, Q, N, lo, hi) ==
  IF t.left[ROOT] = NIL THEN N = 0
  ELSE /\ t.left[ROOT] \in Q /\ t.parent[t.left[ROOT]] = ROOT
       /\ lo[t.left[ROOT]] = 1 /\ hi[t.left[ROOT]] = N

(* What no operation changes of tree->nil and tree->root.                  *)
Sentinels(t) ==
  /\ t.left[NIL] = NIL /\ t.right[NIL] = NIL /\ t.right[ROOT] = NIL
  /\ t.parent[ROOT] = NIL /\ t.red[NIL] = 0 /\ t.red[ROOT] = 0

(* All of this together: t is one binary tree with the nodes of Q.         *)
Shaped(t, Q, N, pos, lo, hi) ==
  /\ t \in Images
  /\ Numbered(Q, N, pos)
  /\ Spanned(Q, N, lo, hi)
  /\ \A n \in Q : Spans(t, Q, pos, lo, hi, n) /\ Hangs(t, Q, n)
  /\ TopSpans(t, Q, N, lo, hi)
  /\ Sentinels(t)

(* What the proofs about colours need to know of a shape. *)
Family(t, Q, n) ==
  /\ t.parent[n] # n /\ n \in Addresses /\ n # NIL /\ n # ROOT
  /\ \A s \in Sides :
       \/ t[s][n] = NIL
       \/ /\ t[s][n] \in Q /\ t[s][n] # n /\ t.parent[t[s][n]] = n
          /\ t[s][n] # t[Other(s)][n] /\ t[s][n] # t.parent[n]
  /\ \/ t.parent[n] = ROOT /\ t.left[ROOT] = n
     \/ t.parent[n] \in Q /\ \E s \in Sides : t[s][t.parent[n]] = n

(* In a tree of any shape a node, its parent and its children are          *)
(* different nodes.                                                        *)
LEMMA ShapeFamily ==
  ASSUME NEW t, NEW Q, NEW N, NEW pos, NEW lo, NEW hi,
         Shaped(t, Q, N, pos, lo, hi), NEW n \in Q
  PROVE  Family(t, Q, n)
<1>1. n \in Uthreads /\ n \in Addresses /\ n # NIL /\ n # ROOT /\ Q \subseteq Uthreads
  BY TreeAssumption DEF Shaped, Numbered, Addresses
<1>2. ROOT \notin Q /\ NIL \notin Q /\ ROOT # NIL
  BY <1>1, TreeAssumption
<1>3. Spans(t, Q, pos, lo, hi, n) /\ Hangs(t, Q, n)
  BY DEF Shaped
<1>4. t.parent[n] \in Q =>
        /\ Spans(t, Q, pos, lo, hi, t.parent[n])
        /\ n \in {t.left[t.parent[n]], t.right[t.parent[n]]}
  BY <1>2, <1>3 DEF Shaped, Hangs
<1>5. ASSUME NEW c \in Q, c \in {t.left[n], t.right[n]}
      PROVE  c # n /\ c # t.parent[n] /\ (t.left[n] = c => t.right[n] # c)
  <2>1. Spans(t, Q, pos, lo, hi, c)
    BY DEF Shaped
  <2>2. c # NIL
    BY <1>2
  <2>3. c # n /\ (t.left[n] = c => t.right[n] # c)
    BY <1>3, <1>5, <2>1, <2>2 DEF Spans
  <2>4. ASSUME c = t.parent[n] PROVE FALSE
    <3>1. n = t.left[c] \/ n = t.right[c]
      BY <1>4, <2>4
    <3>2. n # NIL
      BY <1>1
    <3>3. QED
      BY <1>3, <1>5, <2>1, <2>2, <3>1, <3>2 DEF Spans
  <2>5. QED
    BY <2>3, <2>4
<1>6. t.parent[n] # n
  BY <1>1, <1>2, <1>3, <1>4 DEF Spans, Hangs
<1>7. QED
  BY <1>1, <1>2, <1>3, <1>5, <1>6 DEF Family, Spans, Hangs, Sides, Other


(* A left rotation keeps the numbering, and so the order. *)
LEMMA RotateLeftShape ==
  ASSUME NEW t, NEW Q, NEW N, NEW pos, NEW lo, NEW hi,
         Shaped(t, Q, N, pos, lo, hi), NEW x \in Q,
         NEW y, y = t.right[x], y # NIL,
         NEW u \in Images, RotatedAt(t, u, x, "left"),
         NEW lo2, lo2 = [lo EXCEPT ![y] = lo[x]],
         NEW hi2, hi2 = [hi EXCEPT ![y] = hi[x], ![x] = pos[y] - 1]
  PROVE  Shaped(u, Q, N, pos, lo2, hi2)
<1> DEFINE b == t.left[y]
           p == t.parent[x]
<1>1. /\ Q \subseteq Addresses /\ NIL \notin Q /\ ROOT \notin Q /\ ROOT # NIL
      /\ ROOT \in Addresses /\ NIL \in Addresses
  BY TreeAssumption DEF Shaped, Numbered, Addresses
<1>2. \A n \in Q : Family(t, Q, n)
  BY ShapeFamily
<1>3. y \in Q /\ t.parent[y] = x /\ y # x
  BY <1>2 DEF Family, Sides, Other
<1>4. b = NIL \/ (b \in Q /\ t.parent[b] = y /\ b # x /\ b # y)
  <2>1. Family(t, Q, y)
    BY <1>2, <1>3
  <2>2. QED
    BY <2>1, <1>3 DEF Family, Sides, Other
<1>5. /\ p # x /\ p # y /\ (p = ROOT \/ p \in Q)
      /\ p = ROOT => t.left[p] = x
      /\ p \in Q => t.left[p] = x \/ t.right[p] = x
  <2>1. Family(t, Q, x) /\ Family(t, Q, y)
    BY <1>2, <1>3
  <2>2. QED
    BY <2>1, <1>1, <1>3 DEF Family, Sides, Other
<1>6. /\ \A n \in Addresses :
           u.left[n] = IF n = y THEN x
                       ELSE IF n = p /\ t.left[p] = x THEN y ELSE t.left[n]
      /\ \A n \in Addresses :
           u.right[n] = IF n = x THEN b
                        ELSE IF n = p /\ t.left[p] # x THEN y ELSE t.right[n]
      /\ \A n \in Addresses :
           u.parent[n] = IF n = x THEN y ELSE IF n = y THEN p
                         ELSE IF n = b /\ b # NIL THEN x ELSE t.parent[n]
      /\ u.red = t.red
  <2>1. Other("left") = "right" /\ "left" \in Sides /\ "right" \in Sides
    BY DEF Sides, Other
  <2>2. x # y
    BY <1>3
  <2>3. QED
    BY <2>1, <2>2 DEF RotatedAt
<1> HIDE DEF b
<1>7. \A n \in Q : Spans(t, Q, pos, lo, hi, n) /\ Hangs(t, Q, n)
  BY DEF Shaped
<1>8. Spans(t, Q, pos, lo, hi, x) /\ Spans(t, Q, pos, lo, hi, y)
  BY <1>3, <1>7
<1>9. b \in Q => Spans(t, Q, pos, lo, hi, b)
  BY <1>7
<1>10. p \in Q => Spans(t, Q, pos, lo, hi, p)
  BY <1>7
<1>11. Spanned(Q, N, lo2, hi2)
  <2>1. pos[y] \in 1..N /\ pos[x] \in 1..N /\ N \in Nat /\ Spanned(Q, N, lo, hi)
    BY <1>3 DEF Shaped, Numbered
  <2>2. lo[y] = pos[x] + 1 /\ hi[y] = hi[x] /\ lo[y] <= pos[y] /\ pos[y] <= hi[y] /\ y # NIL
    BY <1>1, <1>3, <1>8 DEF Spans
  <2>3. lo[x] \in 1..N /\ hi[x] \in 1..N /\ lo[y] \in 1..N /\ hi[y] \in 1..N
    BY <1>3, <2>1 DEF Spanned
  <2>4. pos[y] - 1 \in 1..N
    BY <1>8, <2>1, <2>2, <2>3 DEF Spans
  <2>5. QED
    BY <1>3, <2>1, <2>3, <2>4 DEF Spanned
<1>12. \A m \in Q : /\ lo2[m] = IF m = y THEN lo[x] ELSE lo[m]
                    /\ hi2[m] = IF m = y THEN hi[x] ELSE IF m = x THEN pos[y] - 1 ELSE hi[m]
  BY <1>3 DEF Shaped, Spanned
<1>13. /\ lo2[x] = lo[x] /\ hi2[x] = pos[y] - 1
       /\ lo2[y] = lo[x] /\ hi2[y] = hi[x]
       /\ b \in Q => lo2[b] = lo[b] /\ hi2[b] = hi[b]
  <2>1. x # y /\ (b \in Q => b # x /\ b # y)
    BY <1>1, <1>3, <1>4
  <2>2. QED
    BY <1>3, <1>12, <2>1
<1>14. ASSUME NEW n \in Q PROVE Spans(u, Q, pos, lo2, hi2, n)
  <2>0. Family(t, Q, n) /\ Spans(t, Q, pos, lo, hi, n) /\ n \in Addresses /\ n # NIL /\ n # ROOT
    BY <1>1, <1>2, <1>7
  <2>1. CASE n = x
    <3> DEFINE c == t.left[x]
    <3>1. u.left[x] = c /\ u.right[x] = b
      BY <1>1, <1>3, <1>5, <1>6
    <3>2. b = NIL \/ u.parent[b] = x
      BY <1>1, <1>3, <1>4, <1>5, <1>6
    <3>3. c = NIL \/ (c \in Q /\ t.parent[c] = x /\ c # x /\ c # y)
      BY <2>0, <2>1 DEF Family, Sides, Other
    <3>4. ASSUME c # NIL
          PROVE  c \in Q /\ u.parent[c] = x /\ lo2[c] = lo[c] /\ hi2[c] = hi[c]
      <4> HIDE DEF c
      <4>1. c \in Q /\ c \in Addresses /\ t.parent[c] = x /\ c # x /\ c # y
        BY <1>1, <3>3, <3>4
      <4>2. ~ (c = b /\ b # NIL)
        BY <1>3, <1>4, <4>1
      <4>3. u.parent[c] = x
        BY <1>6, <4>1, <4>2
      <4>4. QED
        BY <1>12, <4>1, <4>3
    <3>5. b = NIL \/ (b \in Q /\ lo2[b] = lo[b] /\ hi2[b] = hi[b])
      BY <1>4, <1>13
    <3>6. (c = NIL /\ lo[x] = pos[x]) \/ (c # NIL /\ lo[c] = lo[x] /\ hi[c] = pos[x] - 1)
      BY <1>1, <1>8 DEF Spans
    <3>7. (b = NIL /\ pos[y] - 1 = pos[x]) \/ (b # NIL /\ lo[b] = pos[x] + 1 /\ hi[b] = pos[y] - 1)
      BY <1>1, <1>3, <1>8 DEF Spans, b
    <3>8. pos[x] \in Nat /\ lo[x] \in Nat /\ lo[x] <= pos[x] /\ pos[x] <= pos[y] - 1 /\ pos[y] - 1 \in Nat
      BY <1>1, <1>3, <1>8 DEF Spans
    <3> HIDE DEF c
    <3>9. Spans(u, Q, pos, lo2, hi2, x)
      BY <1>13, <3>1, <3>2, <3>4, <3>5, <3>6, <3>7, <3>8 DEF Spans
    <3>10. QED
      BY <2>1, <3>9
  <2>2. CASE n = y
    <3> DEFINE c == t.right[y]
    <3>1. u.left[y] = x /\ u.right[y] = c /\ u.parent[x] = y
      BY <1>1, <1>3, <1>5, <1>6
    <3>2. c = NIL \/ (c \in Q /\ t.parent[c] = y /\ c # x /\ c # y /\ c # b)
      BY <1>3, <2>0, <2>2 DEF Family, Sides, Other, b
    <3>3. ASSUME c \in Q, t.parent[c] = y, c # x, c # y, c # b
          PROVE  u.parent[c] = y /\ lo2[c] = lo[c] /\ hi2[c] = hi[c]
      <4> HIDE DEF c
      <4>1. c \in Addresses
        BY <1>1, <3>3
      <4>2. u.parent[c] = y
        BY <1>6, <3>3, <4>1
      <4>3. QED
        BY <1>12, <3>3, <4>2
    <3>4. (c = NIL /\ hi[x] = pos[y]) \/ (c # NIL /\ lo[c] = pos[y] + 1 /\ hi[c] = hi[x])
      BY <1>1, <1>3, <1>8 DEF Spans
    <3>5. pos[y] \in Nat /\ lo[x] \in Nat /\ hi[x] \in Nat /\ lo[x] <= pos[y] /\ pos[y] <= hi[x]
      BY <1>1, <1>3, <1>8 DEF Spans
    <3> HIDE DEF c
    <3>6. c # NIL => c \in Q /\ u.parent[c] = y /\ lo2[c] = lo[c] /\ hi2[c] = hi[c]
      BY <3>2, <3>3
    <3>7. Spans(u, Q, pos, lo2, hi2, y)
      BY <1>13, <3>1, <3>4, <3>5, <3>6 DEF Spans
    <3>8. QED
      BY <2>2, <3>7
  <2>3. CASE n # x /\ n # y
    <3> DEFINE c == t.left[n]
               d == t.right[n]
    <3>1. lo2[n] = lo[n] /\ hi2[n] = hi[n]
      BY <2>3, <1>12
    <3>2. c = NIL \/ (c \in Q /\ t.parent[c] = n /\ c # d /\ c # y)
      BY <1>3, <2>0, <2>3 DEF Family, Sides, Other
    <3>3. d = NIL \/ (d \in Q /\ t.parent[d] = n /\ c # d /\ d # y)
      BY <1>3, <2>0, <2>3 DEF Family, Sides, Other
    <3>4. \/ c # x /\ u.left[n] = c
          \/ c = x /\ u.left[n] = y /\ n = p
      BY <2>0, <2>3, <1>1, <1>3, <1>5, <1>6, <3>2
    <3>5. \/ d # x /\ u.right[n] = d
          \/ d = x /\ u.right[n] = y /\ n = p
      BY <2>0, <2>3, <1>1, <1>3, <1>5, <1>6, <3>2, <3>3
    <3>6. ASSUME NEW e \in Q, t.parent[e] = n, e # x, e # y
          PROVE  u.parent[e] = n /\ lo2[e] = lo[e] /\ hi2[e] = hi[e]
      BY <2>3, <3>6, <1>1, <1>4, <1>6, <1>12
    <3>7. u.parent[y] = p
      BY <1>1, <1>3, <1>6
    <3>8. /\ \/ u.left[n] = NIL /\ c = NIL
             \/ /\ u.left[n] \in Q /\ u.parent[u.left[n]] = n /\ c \in Q
                /\ lo2[u.left[n]] = lo[c] /\ hi2[u.left[n]] = hi[c]
          /\ \/ u.right[n] = NIL /\ d = NIL
             \/ /\ u.right[n] \in Q /\ u.parent[u.right[n]] = n /\ d \in Q
                /\ lo2[u.right[n]] = lo[d] /\ hi2[u.right[n]] = hi[d]
      <4> HIDE DEF c, d
      <4>1. \/ u.left[n] = NIL /\ c = NIL
            \/ /\ u.left[n] \in Q /\ u.parent[u.left[n]] = n /\ c \in Q
               /\ lo2[u.left[n]] = lo[c] /\ hi2[u.left[n]] = hi[c]
        <5>1. CASE c = x
          BY <1>3, <1>13, <3>4, <3>7, <5>1
        <5>2. CASE c # x
          <6>1. u.left[n] = c
            BY <3>4, <5>2
          <6>2. c = NIL \/ (u.parent[c] = n /\ lo2[c] = lo[c] /\ hi2[c] = hi[c])
            BY <3>2, <3>6, <5>2
          <6>3. QED
            BY <3>2, <6>1, <6>2
        <5>3. QED
          BY <5>1, <5>2
      <4>2. \/ u.right[n] = NIL /\ d = NIL
            \/ /\ u.right[n] \in Q /\ u.parent[u.right[n]] = n /\ d \in Q
               /\ lo2[u.right[n]] = lo[d] /\ hi2[u.right[n]] = hi[d]
        <5>1. CASE d = x
          BY <1>3, <1>13, <3>5, <3>7, <5>1
        <5>2. CASE d # x
          <6>1. u.right[n] = d
            BY <3>5, <5>2
          <6>2. d = NIL \/ (u.parent[d] = n /\ lo2[d] = lo[d] /\ hi2[d] = hi[d])
            BY <3>3, <3>6, <5>2
          <6>3. QED
            BY <3>3, <6>1, <6>2
        <5>3. QED
          BY <5>1, <5>2
      <4>3. QED
        BY <4>1, <4>2
    <3> HIDE DEF c, d
    <3>9. QED
      BY <1>1, <2>0, <3>1, <3>8 DEF Spans, c, d
  <2>4. QED
    BY <2>1, <2>2, <2>3
<1>15. ASSUME NEW n \in Q PROVE Hangs(u, Q, n)
  <2>1. Hangs(t, Q, n) /\ Family(t, Q, n) /\ n \in Addresses
    BY <1>1, <1>2, <1>7
  <2>2. CASE n = x
    <3>1. u.parent[x] = y /\ u.left[y] = x
      BY <1>1, <1>3, <1>6
    <3>2. QED
      BY <1>3, <2>2, <3>1 DEF Hangs
  <2>3. CASE n = y
    <3>1. u.parent[y] = p /\ (u.left[p] = y \/ u.right[p] = y) /\ (p = ROOT => u.left[p] = y)
      BY <1>1, <1>3, <1>5, <1>6
    <3>2. QED
      BY <1>5, <2>3, <3>1 DEF Hangs
  <2>4. CASE n # x /\ n # y /\ n = b
    <3>1. u.parent[n] = x /\ u.right[x] = n
      BY <1>1, <1>3, <1>6, <2>1, <2>4
    <3>2. QED
      BY <3>1 DEF Hangs
  <2>5. CASE n # x /\ n # y /\ n # b
    <3> DEFINE q == t.parent[n]
    <3>1. u.parent[n] = q /\ q \in Q \cup {ROOT}
      BY <1>1, <1>6, <2>1, <2>5 DEF Hangs
    <3>2. t.left[q] = n => u.left[q] = n
      BY <1>1, <1>3, <1>5, <1>6, <2>5, <3>1 DEF b
    <3>3. t.right[q] = n => u.right[q] = n
      BY <1>1, <1>3, <1>5, <1>6, <2>5, <3>1 DEF b
    <3>4. QED
      BY <2>1, <3>1, <3>2, <3>3 DEF Hangs
  <2>6. QED
    BY <2>2, <2>3, <2>4, <2>5
<1>16. TopSpans(u, Q, N, lo2, hi2)
  <2>1. TopSpans(t, Q, N, lo, hi)
    BY DEF Shaped
  <2>2. CASE p = ROOT
    <3>1. t.left[ROOT] = x /\ u.left[ROOT] = y /\ u.parent[y] = ROOT
      BY <1>1, <1>3, <1>5, <1>6, <2>2
    <3>2. QED
      BY <1>1, <1>3, <1>13, <2>1, <3>1 DEF TopSpans
  <2>3. CASE p # ROOT
    <3> DEFINE c == t.left[ROOT]
    <3>1. u.left[ROOT] = c
      BY <1>1, <1>3, <1>6, <2>3
    <3>2. (c \in Q /\ t.parent[c] = ROOT) \/ c = NIL
      BY <2>1 DEF TopSpans
    <3>3. c \in Q => c # x /\ c # y /\ c # b
      BY <1>1, <1>3, <1>4, <2>3, <3>2
    <3>4. c \in Q => u.parent[c] = ROOT /\ lo2[c] = lo[c] /\ hi2[c] = hi[c]
      <4> HIDE DEF c
      <4>1. c \in Q => u.parent[c] = ROOT
        BY <1>1, <1>6, <3>2, <3>3
      <4>2. c \in Q => lo2[c] = lo[c] /\ hi2[c] = hi[c]
        BY <1>12, <3>3
      <4>3. QED
        BY <4>1, <4>2
    <3>5. (c = NIL /\ N = 0) \/ (c # NIL /\ c \in Q /\ lo[c] = 1 /\ hi[c] = N)
      BY <2>1 DEF TopSpans
    <3> HIDE DEF c
    <3>6. QED
      BY <3>1, <3>4, <3>5 DEF TopSpans
  <2>4. QED
    BY <2>2, <2>3
<1>17. Sentinels(u)
  <2>1. Sentinels(t)
    BY DEF Shaped
  <2>2. /\ NIL # x /\ NIL # y /\ NIL # p /\ ROOT # x /\ ROOT # y
        /\ b = NIL \/ b # ROOT
    <3>1. p # NIL
      BY <1>1, <1>5
    <3>2. QED
      BY <1>1, <1>3, <1>4, <3>1
  <2>3. QED
    BY <2>1, <2>2, <1>1, <1>5, <1>6 DEF Sentinels
<1>18. QED
  <2>1. Numbered(Q, N, pos)
    BY DEF Shaped
  <2>2. QED
    BY <2>1, <1>11, <1>14, <1>15, <1>16, <1>17 DEF Shaped


(* A right rotation keeps the numbering, and so the order. *)
LEMMA RotateRightShape ==
  ASSUME NEW t, NEW Q, NEW N, NEW pos, NEW lo, NEW hi,
         Shaped(t, Q, N, pos, lo, hi), NEW x \in Q,
         NEW y, y = t.left[x], y # NIL,
         NEW u \in Images, RotatedAt(t, u, x, "right"),
         NEW lo2, lo2 = [lo EXCEPT ![y] = lo[x], ![x] = pos[y] + 1],
         NEW hi2, hi2 = [hi EXCEPT ![y] = hi[x]]
  PROVE  Shaped(u, Q, N, pos, lo2, hi2)
<1> DEFINE b == t.right[y]
           p == t.parent[x]
<1>1. /\ Q \subseteq Addresses /\ NIL \notin Q /\ ROOT \notin Q /\ ROOT # NIL
      /\ ROOT \in Addresses /\ NIL \in Addresses
  BY TreeAssumption DEF Shaped, Numbered, Addresses
<1>2. \A n \in Q : Family(t, Q, n)
  BY ShapeFamily
<1>3. y \in Q /\ t.parent[y] = x /\ y # x
  BY <1>2 DEF Family, Sides, Other
<1>4. b = NIL \/ (b \in Q /\ t.parent[b] = y /\ b # x /\ b # y)
  <2>1. Family(t, Q, y)
    BY <1>2, <1>3
  <2>2. QED
    BY <2>1, <1>3 DEF Family, Sides, Other
<1>5. /\ p # x /\ p # y /\ (p = ROOT \/ p \in Q)
      /\ p = ROOT => t.left[p] = x
      /\ p \in Q => t.left[p] = x \/ t.right[p] = x
  <2>1. Family(t, Q, x) /\ Family(t, Q, y)
    BY <1>2, <1>3
  <2>2. QED
    BY <2>1, <1>1, <1>3 DEF Family, Sides, Other
<1>6. /\ \A n \in Addresses :
           u.right[n] = IF n = y THEN x
                       ELSE IF n = p /\ t.left[p] # x THEN y ELSE t.right[n]
      /\ \A n \in Addresses :
           u.left[n] = IF n = x THEN b
                        ELSE IF n = p /\ t.left[p] = x THEN y ELSE t.left[n]
      /\ \A n \in Addresses :
           u.parent[n] = IF n = x THEN y ELSE IF n = y THEN p
                         ELSE IF n = b /\ b # NIL THEN x ELSE t.parent[n]
      /\ u.red = t.red
  <2>1. Other("right") = "left" /\ "left" \in Sides /\ "right" \in Sides
    BY DEF Sides, Other
  <2>2. x # y
    BY <1>3
  <2>3. QED
    BY <2>1, <2>2 DEF RotatedAt
<1> HIDE DEF b
<1>7. \A n \in Q : Spans(t, Q, pos, lo, hi, n) /\ Hangs(t, Q, n)
  BY DEF Shaped
<1>8. Spans(t, Q, pos, lo, hi, x) /\ Spans(t, Q, pos, lo, hi, y)
  BY <1>3, <1>7
<1>9. b \in Q => Spans(t, Q, pos, lo, hi, b)
  BY <1>7
<1>10. p \in Q => Spans(t, Q, pos, lo, hi, p)
  BY <1>7
<1>11. Spanned(Q, N, lo2, hi2)
  <2>1. pos[y] \in 1..N /\ pos[x] \in 1..N /\ N \in Nat /\ Spanned(Q, N, lo, hi)
    BY <1>3 DEF Shaped, Numbered
  <2>2. lo[y] = lo[x] /\ hi[y] = pos[x] - 1 /\ lo[y] <= pos[y] /\ pos[y] <= hi[y] /\ y # NIL
    BY <1>1, <1>3, <1>8 DEF Spans
  <2>3. lo[x] \in 1..N /\ hi[x] \in 1..N /\ lo[y] \in 1..N /\ hi[y] \in 1..N
    BY <1>3, <2>1 DEF Spanned
  <2>4. pos[y] + 1 \in 1..N
    BY <1>8, <2>1, <2>2, <2>3 DEF Spans
  <2>5. QED
    BY <1>3, <2>1, <2>3, <2>4 DEF Spanned
<1>12. \A m \in Q : /\ lo2[m] = IF m = y THEN lo[x] ELSE IF m = x THEN pos[y] + 1 ELSE lo[m]
                    /\ hi2[m] = IF m = y THEN hi[x] ELSE hi[m]
  BY <1>3 DEF Shaped, Spanned
<1>13. /\ lo2[x] = pos[y] + 1 /\ hi2[x] = hi[x]
       /\ lo2[y] = lo[x] /\ hi2[y] = hi[x]
       /\ b \in Q => lo2[b] = lo[b] /\ hi2[b] = hi[b]
  <2>1. x # y /\ (b \in Q => b # x /\ b # y)
    BY <1>1, <1>3, <1>4
  <2>2. QED
    BY <1>3, <1>12, <2>1
<1>14. ASSUME NEW n \in Q PROVE Spans(u, Q, pos, lo2, hi2, n)
  <2>0. Family(t, Q, n) /\ Spans(t, Q, pos, lo, hi, n) /\ n \in Addresses /\ n # NIL /\ n # ROOT
    BY <1>1, <1>2, <1>7
  <2>1. CASE n = x
    <3> DEFINE c == t.right[x]
    <3>1. u.right[x] = c /\ u.left[x] = b
      BY <1>1, <1>3, <1>5, <1>6
    <3>2. b = NIL \/ u.parent[b] = x
      BY <1>1, <1>3, <1>4, <1>5, <1>6
    <3>3. c = NIL \/ (c \in Q /\ t.parent[c] = x /\ c # x /\ c # y)
      BY <2>0, <2>1 DEF Family, Sides, Other
    <3>4. ASSUME c # NIL
          PROVE  c \in Q /\ u.parent[c] = x /\ lo2[c] = lo[c] /\ hi2[c] = hi[c]
      <4> HIDE DEF c
      <4>1. c \in Q /\ c \in Addresses /\ t.parent[c] = x /\ c # x /\ c # y
        BY <1>1, <3>3, <3>4
      <4>2. ~ (c = b /\ b # NIL)
        BY <1>3, <1>4, <4>1
      <4>3. u.parent[c] = x
        BY <1>6, <4>1, <4>2
      <4>4. QED
        BY <1>12, <4>1, <4>3
    <3>5. b = NIL \/ (b \in Q /\ lo2[b] = lo[b] /\ hi2[b] = hi[b])
      BY <1>4, <1>13
    <3>6. (c = NIL /\ hi[x] = pos[x]) \/ (c # NIL /\ lo[c] = pos[x] + 1 /\ hi[c] = hi[x])
      BY <1>1, <1>8 DEF Spans
    <3>7. (b = NIL /\ pos[y] + 1 = pos[x]) \/ (b # NIL /\ lo[b] = pos[y] + 1 /\ hi[b] = pos[x] - 1)
      BY <1>1, <1>3, <1>8 DEF Spans, b
    <3>8. pos[x] \in Nat /\ hi[x] \in Nat /\ pos[x] <= hi[x] /\ pos[y] + 1 <= pos[x] /\ pos[y] + 1 \in Nat
      BY <1>1, <1>3, <1>8 DEF Spans
    <3> HIDE DEF c
    <3>9. Spans(u, Q, pos, lo2, hi2, x)
      BY <1>13, <3>1, <3>2, <3>4, <3>5, <3>6, <3>7, <3>8 DEF Spans
    <3>10. QED
      BY <2>1, <3>9
  <2>2. CASE n = y
    <3> DEFINE c == t.left[y]
    <3>1. u.right[y] = x /\ u.left[y] = c /\ u.parent[x] = y
      BY <1>1, <1>3, <1>5, <1>6
    <3>2. c = NIL \/ (c \in Q /\ t.parent[c] = y /\ c # x /\ c # y /\ c # b)
      BY <1>3, <2>0, <2>2 DEF Family, Sides, Other, b
    <3>3. ASSUME c \in Q, t.parent[c] = y, c # x, c # y, c # b
          PROVE  u.parent[c] = y /\ lo2[c] = lo[c] /\ hi2[c] = hi[c]
      <4> HIDE DEF c
      <4>1. c \in Addresses
        BY <1>1, <3>3
      <4>2. u.parent[c] = y
        BY <1>6, <3>3, <4>1
      <4>3. QED
        BY <1>12, <3>3, <4>2
    <3>4. (c = NIL /\ lo[x] = pos[y]) \/ (c # NIL /\ lo[c] = lo[x] /\ hi[c] = pos[y] - 1)
      BY <1>1, <1>3, <1>8 DEF Spans
    <3>5. pos[y] \in Nat /\ lo[x] \in Nat /\ hi[x] \in Nat /\ lo[x] <= pos[y] /\ pos[y] <= hi[x]
      BY <1>1, <1>3, <1>8 DEF Spans
    <3> HIDE DEF c
    <3>6. c # NIL => c \in Q /\ u.parent[c] = y /\ lo2[c] = lo[c] /\ hi2[c] = hi[c]
      BY <3>2, <3>3
    <3>7. Spans(u, Q, pos, lo2, hi2, y)
      BY <1>13, <3>1, <3>4, <3>5, <3>6 DEF Spans
    <3>8. QED
      BY <2>2, <3>7
  <2>3. CASE n # x /\ n # y
    <3> DEFINE c == t.left[n]
               d == t.right[n]
    <3>1. lo2[n] = lo[n] /\ hi2[n] = hi[n]
      BY <2>3, <1>12
    <3>2. c = NIL \/ (c \in Q /\ t.parent[c] = n /\ c # d /\ c # y)
      BY <1>3, <2>0, <2>3 DEF Family, Sides, Other
    <3>3. d = NIL \/ (d \in Q /\ t.parent[d] = n /\ c # d /\ d # y)
      BY <1>3, <2>0, <2>3 DEF Family, Sides, Other
    <3>4. \/ c # x /\ u.left[n] = c
          \/ c = x /\ u.left[n] = y /\ n = p
      BY <2>0, <2>3, <1>1, <1>3, <1>5, <1>6, <3>2
    <3>5. \/ d # x /\ u.right[n] = d
          \/ d = x /\ u.right[n] = y /\ n = p
      BY <2>0, <2>3, <1>1, <1>3, <1>5, <1>6, <3>2, <3>3
    <3>6. ASSUME NEW e \in Q, t.parent[e] = n, e # x, e # y
          PROVE  u.parent[e] = n /\ lo2[e] = lo[e] /\ hi2[e] = hi[e]
      BY <2>3, <3>6, <1>1, <1>4, <1>6, <1>12
    <3>7. u.parent[y] = p
      BY <1>1, <1>3, <1>6
    <3>8. /\ \/ u.left[n] = NIL /\ c = NIL
             \/ /\ u.left[n] \in Q /\ u.parent[u.left[n]] = n /\ c \in Q
                /\ lo2[u.left[n]] = lo[c] /\ hi2[u.left[n]] = hi[c]
          /\ \/ u.right[n] = NIL /\ d = NIL
             \/ /\ u.right[n] \in Q /\ u.parent[u.right[n]] = n /\ d \in Q
                /\ lo2[u.right[n]] = lo[d] /\ hi2[u.right[n]] = hi[d]
      <4> HIDE DEF c, d
      <4>1. \/ u.left[n] = NIL /\ c = NIL
            \/ /\ u.left[n] \in Q /\ u.parent[u.left[n]] = n /\ c \in Q
               /\ lo2[u.left[n]] = lo[c] /\ hi2[u.left[n]] = hi[c]
        <5>1. CASE c = x
          BY <1>3, <1>13, <3>4, <3>7, <5>1
        <5>2. CASE c # x
          <6>1. u.left[n] = c
            BY <3>4, <5>2
          <6>2. c = NIL \/ (u.parent[c] = n /\ lo2[c] = lo[c] /\ hi2[c] = hi[c])
            BY <3>2, <3>6, <5>2
          <6>3. QED
            BY <3>2, <6>1, <6>2
        <5>3. QED
          BY <5>1, <5>2
      <4>2. \/ u.right[n] = NIL /\ d = NIL
            \/ /\ u.right[n] \in Q /\ u.parent[u.right[n]] = n /\ d \in Q
               /\ lo2[u.right[n]] = lo[d] /\ hi2[u.right[n]] = hi[d]
        <5>1. CASE d = x
          BY <1>3, <1>13, <3>5, <3>7, <5>1
        <5>2. CASE d # x
          <6>1. u.right[n] = d
            BY <3>5, <5>2
          <6>2. d = NIL \/ (u.parent[d] = n /\ lo2[d] = lo[d] /\ hi2[d] = hi[d])
            BY <3>3, <3>6, <5>2
          <6>3. QED
            BY <3>3, <6>1, <6>2
        <5>3. QED
          BY <5>1, <5>2
      <4>3. QED
        BY <4>1, <4>2
    <3> HIDE DEF c, d
    <3>9. QED
      BY <1>1, <2>0, <3>1, <3>8 DEF Spans, c, d
  <2>4. QED
    BY <2>1, <2>2, <2>3
<1>15. ASSUME NEW n \in Q PROVE Hangs(u, Q, n)
  <2>1. Hangs(t, Q, n) /\ Family(t, Q, n) /\ n \in Addresses
    BY <1>1, <1>2, <1>7
  <2>2. CASE n = x
    <3>1. u.parent[x] = y /\ u.right[y] = x
      BY <1>1, <1>3, <1>6
    <3>2. QED
      BY <1>3, <2>2, <3>1 DEF Hangs
  <2>3. CASE n = y
    <3>1. u.parent[y] = p /\ (u.left[p] = y \/ u.right[p] = y) /\ (p = ROOT => u.left[p] = y)
      BY <1>1, <1>3, <1>5, <1>6
    <3>2. QED
      BY <1>5, <2>3, <3>1 DEF Hangs
  <2>4. CASE n # x /\ n # y /\ n = b
    <3>1. u.parent[n] = x /\ u.left[x] = n
      BY <1>1, <1>3, <1>6, <2>1, <2>4
    <3>2. QED
      BY <3>1 DEF Hangs
  <2>5. CASE n # x /\ n # y /\ n # b
    <3> DEFINE q == t.parent[n]
    <3>1. u.parent[n] = q /\ q \in Q \cup {ROOT}
      BY <1>1, <1>6, <2>1, <2>5 DEF Hangs
    <3>2. t.left[q] = n => u.left[q] = n
      BY <1>1, <1>3, <1>5, <1>6, <2>5, <3>1 DEF b
    <3>3. t.right[q] = n => u.right[q] = n
      BY <1>1, <1>3, <1>5, <1>6, <2>5, <3>1 DEF b
    <3>4. QED
      BY <2>1, <3>1, <3>2, <3>3 DEF Hangs
  <2>6. QED
    BY <2>2, <2>3, <2>4, <2>5
<1>16. TopSpans(u, Q, N, lo2, hi2)
  <2>1. TopSpans(t, Q, N, lo, hi)
    BY DEF Shaped
  <2>2. CASE p = ROOT
    <3>1. t.left[ROOT] = x /\ u.left[ROOT] = y /\ u.parent[y] = ROOT
      BY <1>1, <1>3, <1>5, <1>6, <2>2
    <3>2. QED
      BY <1>1, <1>3, <1>13, <2>1, <3>1 DEF TopSpans
  <2>3. CASE p # ROOT
    <3> DEFINE c == t.left[ROOT]
    <3>1. u.left[ROOT] = c
      BY <1>1, <1>3, <1>6, <2>3
    <3>2. (c \in Q /\ t.parent[c] = ROOT) \/ c = NIL
      BY <2>1 DEF TopSpans
    <3>3. c \in Q => c # x /\ c # y /\ c # b
      BY <1>1, <1>3, <1>4, <2>3, <3>2
    <3>4. c \in Q => u.parent[c] = ROOT /\ lo2[c] = lo[c] /\ hi2[c] = hi[c]
      <4> HIDE DEF c
      <4>1. c \in Q => u.parent[c] = ROOT
        BY <1>1, <1>6, <3>2, <3>3
      <4>2. c \in Q => lo2[c] = lo[c] /\ hi2[c] = hi[c]
        BY <1>12, <3>3
      <4>3. QED
        BY <4>1, <4>2
    <3>5. (c = NIL /\ N = 0) \/ (c # NIL /\ c \in Q /\ lo[c] = 1 /\ hi[c] = N)
      BY <2>1 DEF TopSpans
    <3> HIDE DEF c
    <3>6. QED
      BY <3>1, <3>4, <3>5 DEF TopSpans
  <2>4. QED
    BY <2>2, <2>3
<1>17. Sentinels(u)
  <2>1. Sentinels(t)
    BY DEF Shaped
  <2>2. /\ NIL # x /\ NIL # y /\ NIL # p /\ ROOT # x /\ ROOT # y
        /\ b = NIL \/ b # ROOT
    <3>1. p # NIL
      BY <1>1, <1>5
    <3>2. QED
      BY <1>1, <1>3, <1>4, <3>1
  <2>3. QED
    BY <2>1, <2>2, <1>1, <1>5, <1>6 DEF Sentinels
<1>18. QED
  <2>1. Numbered(Q, N, pos)
    BY DEF Shaped
  <2>2. QED
    BY <2>1, <1>11, <1>14, <1>15, <1>16, <1>17 DEF Shaped

-----------------------------------------------------------------------------
(* Rotations and colours: what RBTreeInsert does to the rules.             *)

(* There are two sides, each the other of the other.                       *)
LEMMA TwoSides ==
  ASSUME NEW s \in Sides
  PROVE  /\ Other(s) \in Sides /\ Other(s) # s /\ Other(Other(s)) = s
         /\ \A q \in Sides : q = s \/ q = Other(s)
BY DEF Sides, Other

(* All that the colours' proofs need of a shape. *)
Kin(t, Q) ==
  /\ t \in Images /\ Q \subseteq Uthreads
  /\ \A n \in Q : Family(t, Q, n)
  /\ t.left[ROOT] = NIL \/ (t.left[ROOT] \in Q /\ t.parent[t.left[ROOT]] = ROOT)

(* A tree of any shape is a family.                                        *)
LEMMA ShapeKin ==
  ASSUME NEW t, NEW Q, NEW N, NEW pos, NEW lo, NEW hi,
         Shaped(t, Q, N, pos, lo, hi)
  PROVE  Kin(t, Q)
BY ShapeFamily DEF Shaped, Kin, Numbered, TopSpans

(* Nodes above and below, as the walks of a proof meet them. *)
LEMMA Below ==
  ASSUME NEW t, NEW Q, Kin(t, Q), NEW n \in Q, NEW q \in Sides
  PROVE  /\ NIL \notin Q /\ ROOT \notin Q /\ n \in Addresses
         /\ \/ t[q][n] = NIL
            \/ /\ t[q][n] \in Q /\ t[q][n] # n /\ t.parent[t[q][n]] = n
               /\ t[q][n] # t[Other(q)][n] /\ t[q][n] # t.parent[n]
BY TreeAssumption DEF Kin, Family, Addresses

(* A node hangs from its parent, which is not itself.                      *)
LEMMA Above ==
  ASSUME NEW t, NEW Q, Kin(t, Q), NEW n \in Q
  PROVE  /\ t.parent[n] # n
         /\ \/ t.parent[n] = ROOT /\ t.left[ROOT] = n
            \/ t.parent[n] \in Q /\ \E s \in Sides : t[s][t.parent[n]] = n
BY DEF Kin, Family

(* A rotation changes no child of a node that has no part in it, but for   *)
(* the one that x was.                                                     *)
LEMMA RotateAway ==
  ASSUME NEW t, NEW Q, Kin(t, Q), NEW x \in Q, NEW s \in Sides,
         NEW y \in Q, y = t[Other(s)][x],
         NEW u, RotatedAt(t, u, x, s),
         NEW n \in Q, n # x, n # y, NEW q \in Sides
  PROVE  u[q][n] = IF t[q][n] = x THEN y ELSE t[q][n]
<1> DEFINE p == t.parent[x]
<1>1. /\ n \in Addresses /\ NIL \notin Q /\ ROOT \notin Q
      /\ t[q][n] = x => p = n
  BY Below
<1>2. u[q][n] = IF n = p /\ (q = "left" <=> t.left[p] = x) THEN y ELSE t[q][n]
  BY <1>1 DEF RotatedAt
<1>3. ASSUME n = p
      PROVE  (q = "left" <=> t.left[p] = x) <=> t[q][n] = x
  <2>1. \E r \in Sides : t[r][n] = x
    BY <1>1, <1>3, Above
  <2>2. PICK r \in Sides : t[r][n] = x
    BY <2>1
  <2>3. t[Other(r)][n] # x
    BY <2>2, Below
  <2>4. QED
    BY <1>3, <2>2, <2>3 DEF Sides, Other
<1>4. QED
  BY <1>1, <1>2, <1>3

(* The two nodes of a rotation afterwards, y above x. *)
Swung(t, u, x, y, s, o) ==
  /\ u[s][x] = t[s][x] /\ u[o][x] = t[s][y]
  /\ u[s][y] = x /\ u[o][y] = t[o][y]
  /\ u.parent[x] = y /\ u.parent[y] = t.parent[x]

(* It does that to x and y.                                                *)
LEMMA RotateHere ==
  ASSUME NEW t, NEW Q, Kin(t, Q), NEW x \in Q, NEW s \in Sides,
         NEW y \in Q, y = t[Other(s)][x],
         NEW u, RotatedAt(t, u, x, s)
  PROVE  Swung(t, u, x, y, s, Other(s))
<1> DEFINE p == t.parent[x]
<1>1. /\ x \in Addresses /\ y \in Addresses /\ y # x
      /\ p # x /\ p # y
  BY Below, Above, TwoSides
<1>2. QED
  BY <1>1, TwoSides DEF RotatedAt, Swung

(* It changes the top only if it was made there.                           *)
LEMMA RotateTop ==
  ASSUME NEW t, NEW Q, Kin(t, Q), NEW x \in Q, NEW s \in Sides,
         NEW y \in Q, y = t[Other(s)][x],
         NEW u, RotatedAt(t, u, x, s)
  PROVE  u.left[ROOT] = IF t.left[ROOT] = x THEN y ELSE t.left[ROOT]
<1>1. ROOT # x /\ ROOT # y /\ ROOT \in Addresses /\ "left" \in Sides
  BY Below DEF Addresses, Sides
<1>2. u["left"][ROOT] = IF ROOT = t.parent[x] /\ t.left[t.parent[x]] = x
                        THEN y ELSE t["left"][ROOT]
  BY <1>1 DEF RotatedAt
<1>3. t.left[ROOT] = x => t.parent[x] = ROOT
  BY TreeAssumption, Below DEF Kin
<1>4. QED
  BY <1>2, <1>3

-----------------------------------------------------------------------------
(* Colours.  bh[n] counts the black nodes on every way down from n, n      *)
(* included.                                                               *)
Heights(Q, bh) == bh \in [Q \cup {NIL} -> Nat \ {0}] /\ bh[NIL] = 1

(* The child's black height on both sides is what n's own says.            *)
Level(t, r, bh, n) == \A s \in Sides : bh[n] + r[n] = bh[t[s][n]] + 1

(* n and its children are not both red, a child x aside. *)
Pale(t, r, n, x) == \A s \in Sides : r[n] = 0 \/ r[t[s][n]] = 0 \/ t[s][n] = x

(* Colours w are those of r but for a few.                                 *)
Repainted(r, w, reds, blacks) ==
  \A m \in Addresses :
    w[m] = IF m \in reds THEN 1 ELSE IF m \in blacks THEN 0 ELSE r[m]

(* Only x, which is red, may have a red parent, or be a red top. *)
Raised(t, r, Q, bh, x) ==
  /\ r \in [Addresses -> {0, 1}] /\ r[NIL] = 0 /\ r[ROOT] = 0
  /\ Heights(Q, bh) /\ x \in Q /\ r[x] = 1
  /\ \A n \in Q : Level(t, r, bh, n) /\ Pale(t, r, n, x)
  /\ r[t.left[ROOT]] = 0 \/ t.left[ROOT] = x

(* Level on one side.                                                      *)
LevelOn(t, r, bh, n, s) == bh[n] + r[n] = bh[t[s][n]] + 1
(* Level is Level on both sides.                                           *)
LEMMA LevelSides ==
  ASSUME NEW t, NEW r, NEW bh, NEW n, NEW s \in Sides
  PROVE  Level(t, r, bh, n) <=>
           LevelOn(t, r, bh, n, s) /\ LevelOn(t, r, bh, n, Other(s))
BY TwoSides DEF Level, LevelOn

(* Pale on one side.                                                       *)
PaleOn(t, r, n, x, s) == r[n] = 0 \/ r[t[s][n]] = 0 \/ t[s][n] = x
(* Pale is Pale on both sides.                                             *)
LEMMA PaleSides ==
  ASSUME NEW t, NEW r, NEW n, NEW x, NEW s \in Sides
  PROVE  Pale(t, r, n, x) <=>
           PaleOn(t, r, n, x, s) /\ PaleOn(t, r, n, x, Other(s))
BY TwoSides DEF Pale, PaleOn

(* The children of a node, side s first. *)
Children(t, Q, n, a, b) ==
  /\ a \in Q \cup {NIL} /\ b \in Q \cup {NIL}
  /\ a # n /\ b # n /\ (a = b => a = NIL)
  /\ (a # NIL => t.parent[a] = n /\ a # t.parent[n])
  /\ (b # NIL => t.parent[b] = n /\ b # t.parent[n])

(* The children of a node are different ones, and nobody else's.           *)
LEMMA ChildrenOf ==
  ASSUME NEW t, NEW Q, Kin(t, Q), NEW n \in Q, NEW s \in Sides,
         NEW o, o = Other(s)
  PROVE  Children(t, Q, n, t[s][n], t[o][n])
<1>1. o \in Sides /\ s = Other(o)
  BY TwoSides
<1>2. n # NIL
  BY Below
<1>3. QED
  BY <1>1, <1>2, Below DEF Children

(* x is p's child on side o.                                               *)
Inside(t, x, p, o) == t.parent[x] = p /\ t[o][p] = x

(* When x is an inner grandchild of g, the rotation at p moves the trouble *)
(* to p, which is an outer one. (red_black_tree.c:245-248)                 *)
LEMMA RaisedInner ==
  ASSUME NEW t, NEW Q, Kin(t, Q), NEW bh, NEW x, Raised(t, t.red, Q, bh, x),
         NEW p, NEW s \in Sides, NEW o, o = Other(s),
         Inside(t, x, p, o), t.red[p] = 1,
         NEW u, Kin(u, Q), RotatedAt(t, u, p, s)
  PROVE  Raised(u, u.red, Q, bh, p)
<1> DEFINE r == t.red
           a == t[s][p]
           b == t[s][x]
           c == t[o][x]
<1>1. /\ x \in Q /\ r[x] = 1 /\ r[p] = 1 /\ r[ROOT] = 0 /\ r[NIL] = 0
  BY DEF Raised
<1>2. u.red = r
  BY DEF RotatedAt
<1>3. p \in Q /\ t.parent[x] = p
  <2>1. t.parent[x] = p /\ p # ROOT
    BY <1>1 DEF Inside
  <2>2. QED
    BY <1>1, <2>1, Above
<1>0. t[o][p] = x
  BY DEF Inside
<1>4. \A n \in Q : Level(t, r, bh, n) /\ Pale(t, r, n, x)
  BY DEF Raised
<1>5. \A n \in Q \cup {NIL} : r[n] \in {0, 1} /\ bh[n] \in Nat
  BY Below, TreeAssumption DEF Raised, Heights, Addresses, Kin
<1>6. Children(t, Q, p, a, x) /\ Children(t, Q, x, b, c)
  <2>1. Children(t, Q, p, t[s][p], t[o][p]) /\ Children(t, Q, x, t[s][x], t[o][x])
    BY <1>1, <1>3, ChildrenOf
  <2>2. QED
    BY <1>0, <2>1
<1>7. u[s][p] = a /\ u[o][p] = b /\ u[s][x] = p /\ u[o][x] = c
  <2>1. Swung(t, u, p, x, s, o)
    BY <1>0, <1>1, <1>3, RotateHere
  <2>2. QED
    BY <2>1 DEF Swung
<1>8. /\ bh[p] + 1 = bh[a] + 1 /\ bh[p] + 1 = bh[x] + 1
      /\ bh[x] + 1 = bh[b] + 1 /\ bh[x] + 1 = bh[c] + 1
      /\ a = x \/ r[a] = 0
      /\ r[b] = 0 \/ b = x
      /\ r[c] = 0 \/ c = x
  <2>1. /\ LevelOn(t, r, bh, p, s) /\ LevelOn(t, r, bh, p, o)
        /\ LevelOn(t, r, bh, x, s) /\ LevelOn(t, r, bh, x, o)
    BY <1>1, <1>3, <1>4, LevelSides
  <2>2. /\ PaleOn(t, r, p, x, s)
        /\ PaleOn(t, r, x, x, s) /\ PaleOn(t, r, x, x, o)
    BY <1>1, <1>3, <1>4, PaleSides
  <2>3. r[p] = 1 /\ r[x] = 1 /\ 1 # 0
    BY <1>1
  <2>4. /\ bh[p] + r[p] = bh[a] + 1 /\ bh[p] + r[p] = bh[x] + 1
        /\ bh[x] + r[x] = bh[b] + 1 /\ bh[x] + r[x] = bh[c] + 1
    BY <1>0, <2>1 DEF LevelOn
  <2>5. /\ r[p] = 0 \/ r[a] = 0 \/ a = x
        /\ r[x] = 0 \/ r[b] = 0 \/ b = x
        /\ r[x] = 0 \/ r[c] = 0 \/ c = x
    BY <1>0, <2>2 DEF PaleOn
  <2> HIDE DEF a, b, c, r
  <2>6. QED
    BY <2>3, <2>4, <2>5
<1>9. x # NIL /\ a \in Q \cup {NIL} /\ b \in Q \cup {NIL} /\ c \in Q \cup {NIL}
      /\ a # x /\ b # x /\ c # x
  BY <1>1, <1>6, TreeAssumption DEF Children, Kin
<1> HIDE DEF a, b, c, r
<1>10. Level(u, r, bh, p) /\ Level(u, r, bh, x)
  <2>0. /\ bh[p] \in Nat /\ bh[x] \in Nat
        /\ bh[a] \in Nat /\ bh[b] \in Nat /\ bh[c] \in Nat
    BY <1>1, <1>3, <1>5, <1>9
  <2>1. bh[p] = bh[a] /\ bh[p] = bh[x] /\ bh[x] = bh[b] /\ bh[x] = bh[c]
    BY <1>8, <2>0
  <2>2. /\ LevelOn(u, r, bh, p, s) /\ LevelOn(u, r, bh, p, o)
        /\ LevelOn(u, r, bh, x, s) /\ LevelOn(u, r, bh, x, o)
    BY <1>1, <1>7, <2>1 DEF LevelOn
  <2>3. QED
    BY <2>2, LevelSides
<1>11. Pale(u, r, p, p) /\ Pale(u, r, x, p)
  <2>1. /\ PaleOn(u, r, p, p, s) /\ PaleOn(u, r, p, p, o)
        /\ PaleOn(u, r, x, p, s) /\ PaleOn(u, r, x, p, o)
    BY <1>7, <1>8, <1>9 DEF PaleOn
  <2>2. QED
    BY <2>1, PaleSides
<1>12. ASSUME NEW n \in Q, n # p, n # x
      PROVE  Level(u, r, bh, n) /\ Pale(u, r, n, p)
  <2>1. \A q \in Sides : u[q][n] = IF t[q][n] = p THEN x ELSE t[q][n]
    BY <1>0, <1>1, <1>3, <1>12, RotateAway
  <2>2. \A q \in Sides : t[q][n] # x
    BY <1>1, <1>3, <1>12, Below
  <2>3. Level(t, r, bh, n) /\ Pale(t, r, n, x)
    BY <1>4
  <2>4. bh[p] = bh[x]
    <3>1. bh[p] \in Nat /\ bh[x] \in Nat
      BY <1>1, <1>3, <1>5
    <3>2. QED
      BY <1>8, <3>1
  <2>5. Level(u, r, bh, n)
    BY <2>1, <2>3, <2>4 DEF Level
  <2>6. Pale(u, r, n, p)
    BY <2>1, <2>2, <2>3, <1>1 DEF Pale
  <2>7. QED
    BY <2>5, <2>6
<1>13. r[u.left[ROOT]] = 0 \/ u.left[ROOT] = p
  <2>1. t.left[ROOT] # x
    BY <1>1, <1>3, Below DEF Kin
  <2>2. t.left[ROOT] # p
    BY <1>1, <2>1 DEF Raised, r
  <2>3. u.left[ROOT] = t.left[ROOT]
    BY <1>0, <1>1, <1>3, <2>2, RotateTop
  <2>4. QED
    BY <2>1, <2>3 DEF Raised, r
<1>14. QED
  BY <1>1, <1>2, <1>3, <1>10, <1>11, <1>12, <1>13 DEF Raised, r

(* x's parent, its grandparent and its uncle. *)
Uncle(t, x, p, g, y, s, o) ==
  t.parent[x] = p /\ t.parent[p] = g /\ t[s][g] = p /\ t[o][g] = y
Line(t, x, p, g, y, s, o) == Uncle(t, x, p, g, y, s, o) /\ t[s][p] = x

(* The red x has a black parent. *)
Settled(t, Q, bh, x) == Raised(t, t.red, Q, bh, x) /\ t.red[t.parent[x]] = 0

(* When x is an outer grandchild of g, with a black uncle, the rotation at *)
(* g ends the trouble. (red_black_tree.c:249-251)                          *)
LEMMA RaisedOuter ==
  ASSUME NEW t, NEW Q, Kin(t, Q), NEW bh, NEW x, NEW r, Raised(t, r, Q, bh, x),
         NEW p, NEW g, NEW y, NEW s \in Sides, NEW o, o = Other(s),
         Line(t, x, p, g, y, s, o), r[p] = 1, r[y] = 0,
         NEW u, Kin(u, Q), RotatedAt(t, u, g, o),
         Repainted(r, u.red, {g}, {p})
  PROVE  \E bh2 : Settled(u, Q, bh2, x)
<1> DEFINE c == t[o][p]
           bh2 == [bh EXCEPT ![g] = bh[p], ![p] = bh[p] + 1]
           w == u.red
<1>1. /\ x \in Q /\ r[x] = 1 /\ r[p] = 1 /\ r[y] = 0 /\ r[ROOT] = 0 /\ r[NIL] = 0
      /\ r \in [Addresses -> {0, 1}]
  BY DEF Raised
<1>0. t.parent[x] = p /\ t.parent[p] = g /\ t[s][p] = x /\ t[s][g] = p /\ t[o][g] = y
  BY DEF Line, Uncle
<1>2. p \in Q /\ p # x
  <2>1. p # x /\ (p = ROOT \/ p \in Q)
    BY <1>0, <1>1, Above
  <2>2. QED
    BY <1>1, <2>1
<1>3. g \in Q /\ g # p /\ x # g
  <2>0. g # p /\ (g \in Q \/ t.left[ROOT] = p)
    BY <1>0, <1>2, Above
  <2>1. t.left[ROOT] # p
    BY <1>1, <1>2 DEF Raised
  <2>2. g \in Q /\ g # p
    BY <2>0, <2>1
  <2>3. x # g
    BY <1>0, <1>1, <1>2, Below
  <2>4. QED
    BY <2>2, <2>3
<1>4. \A n \in Q : Level(t, r, bh, n) /\ Pale(t, r, n, x)
  BY DEF Raised
<1>5. /\ \A n \in Q \cup {NIL} : n \in Addresses /\ r[n] \in {0, 1} /\ bh[n] \in Nat
      /\ NIL \notin Q /\ ROOT \notin Q /\ ROOT # NIL
  BY Below, TreeAssumption DEF Raised, Heights, Addresses, Kin
<1>6. o \in Sides /\ s = Other(o)
  BY TwoSides
<1>7. Children(t, Q, p, x, c) /\ Children(t, Q, g, p, y)
  BY <1>0, <1>2, <1>3, ChildrenOf
<1>8. u[s][p] = x /\ u[o][p] = g /\ u[s][g] = c /\ u[o][g] = y
  <2>1. Swung(t, u, g, p, o, s)
    BY <1>0, <1>2, <1>3, <1>6, RotateHere
  <2>2. QED
    BY <1>0, <2>1 DEF Swung
<1>9. /\ bh[p] + 1 = bh[x] + 1 /\ bh[p] + 1 = bh[c] + 1
      /\ bh[g] + r[g] = bh[p] + 1 /\ bh[g] + r[g] = bh[y] + 1
      /\ r[c] = 0 \/ c = x
      /\ r[g] = 0 \/ p = x
  <2>1. /\ LevelOn(t, r, bh, p, s) /\ LevelOn(t, r, bh, p, o)
        /\ LevelOn(t, r, bh, g, s) /\ LevelOn(t, r, bh, g, o)
    BY <1>2, <1>3, <1>4, LevelSides
  <2>2. PaleOn(t, r, p, x, o) /\ PaleOn(t, r, g, x, s)
    BY <1>2, <1>3, <1>4, PaleSides
  <2>3. r[p] = 1 /\ 1 # 0
    BY <1>1
  <2>4. /\ bh[p] + r[p] = bh[x] + 1 /\ bh[p] + r[p] = bh[c] + 1
        /\ bh[g] + r[g] = bh[p] + 1 /\ bh[g] + r[g] = bh[y] + 1
    BY <1>0, <2>1 DEF LevelOn
  <2>5. /\ r[p] = 0 \/ r[c] = 0 \/ c = x
        /\ r[g] = 0 \/ r[p] = 0 \/ p = x
    BY <1>0, <2>2 DEF PaleOn
  <2> HIDE DEF c
  <2>6. QED
    BY <2>3, <2>4, <2>5
<1>10. /\ c \in Q \cup {NIL} /\ y \in Q \cup {NIL}
       /\ c # x /\ c # p /\ c # g /\ y # g /\ y # p /\ y # x
  BY <1>1, <1>2, <1>3, <1>5, <1>7 DEF Children
<1>11. /\ w[g] = 1 /\ w[p] = 0 /\ w[x] = 1 /\ w[c] = 0 /\ w[y] = 0
       /\ \A m \in Q \cup {NIL} : m # g /\ m # p => w[m] = r[m]
       /\ w[ROOT] = 0 /\ w[NIL] = 0
  <2>0. \A m \in Addresses : w[m] = IF m = g THEN 1 ELSE IF m = p THEN 0 ELSE r[m]
    BY DEF Repainted
  <2>1. x \in Addresses /\ p \in Addresses /\ g \in Addresses /\ ROOT \in Addresses /\ NIL \in Addresses
    BY <1>1, <1>2, <1>3, <1>5 DEF Addresses
  <2>2. \A m \in Q \cup {NIL} : m # g /\ m # p => w[m] = r[m]
    BY <1>5, <2>0
  <2>3. w[g] = 1 /\ w[p] = 0 /\ w[ROOT] = 0 /\ w[NIL] = 0
    BY <1>1, <1>2, <1>3, <1>5, <2>0, <2>1
  <2> HIDE DEF c, w
  <2>4. QED
    BY <1>1, <1>2, <1>3, <1>9, <1>10, <2>2, <2>3
<1>12. /\ Heights(Q, bh2)
       /\ bh2[g] = bh[p] /\ bh2[p] = bh[p] + 1
       /\ \A m \in Q \cup {NIL} : m # g /\ m # p => bh2[m] = bh[m]
  BY <1>2, <1>3, <1>5 DEF Raised, Heights
<1> HIDE DEF c, w, bh2
<1>13. Level(u, w, bh2, p) /\ Level(u, w, bh2, g)
  <2>1. /\ bh2[x] = bh[x] /\ bh2[c] = bh[c] /\ bh2[y] = bh[y]
    BY <1>1, <1>2, <1>3, <1>10, <1>12
  <2>2. bh[p] \in Nat /\ bh[g] \in Nat /\ bh[x] \in Nat /\ bh[c] \in Nat /\ bh[y] \in Nat /\ r[g] = 0
    BY <1>1, <1>2, <1>3, <1>5, <1>9, <1>10
  <2>3. /\ bh2[p] + w[p] = bh2[x] + 1 /\ bh2[p] + w[p] = bh2[g] + 1
        /\ bh2[g] + w[g] = bh2[c] + 1 /\ bh2[g] + w[g] = bh2[y] + 1
    BY <1>9, <1>11, <1>12, <2>1, <2>2
  <2>4. /\ LevelOn(u, w, bh2, p, s) /\ LevelOn(u, w, bh2, p, o)
        /\ LevelOn(u, w, bh2, g, s) /\ LevelOn(u, w, bh2, g, o)
    BY <1>8, <2>3 DEF LevelOn
  <2>5. QED
    BY <2>4, LevelSides
<1>14. Pale(u, w, p, x) /\ Pale(u, w, g, x)
  <2>1. /\ PaleOn(u, w, p, x, s) /\ PaleOn(u, w, p, x, o)
        /\ PaleOn(u, w, g, x, s) /\ PaleOn(u, w, g, x, o)
    BY <1>8, <1>11 DEF PaleOn
  <2>2. QED
    BY <2>1, PaleSides
<1>15. ASSUME NEW n \in Q, n # p, n # g
       PROVE  Level(u, w, bh2, n) /\ Pale(u, w, n, x)
  <2>1. \A q \in Sides : u[q][n] = IF t[q][n] = g THEN p ELSE t[q][n]
    BY <1>0, <1>2, <1>3, <1>6, <1>15, RotateAway
  <2>2. \A q \in Sides : t[q][n] \in Q \cup {NIL} /\ t[q][n] # p /\ t[q][n] # x
    BY <1>0, <1>1, <1>2, <1>3, <1>5, <1>15, Below
  <2>3. Level(t, r, bh, n) /\ Pale(t, r, n, x)
    BY <1>4
  <2>4. bh2[n] = bh[n] /\ w[n] = r[n]
    BY <1>11, <1>12, <1>15
  <2>5. bh[g] = bh[p] + 1
    BY <1>1, <1>2, <1>3, <1>5, <1>9
  <2>6. Level(u, w, bh2, n)
    <3>1. ASSUME NEW q \in Sides PROVE bh2[u[q][n]] = bh[t[q][n]]
      BY <2>1, <2>2, <2>5, <1>12
    <3>2. QED
      BY <3>1, <2>3, <2>4 DEF Level
  <2>7. Pale(u, w, n, x)
    <3>1. ASSUME NEW q \in Sides PROVE w[u[q][n]] = 0 \/ w[u[q][n]] = r[t[q][n]]
      BY <2>1, <2>2, <1>11
    <3>2. QED
      BY <3>1, <2>2, <2>3, <2>4 DEF Pale
  <2>8. QED
    BY <2>6, <2>7
<1>16. w[u.left[ROOT]] = 0
  <2>1. t.left[ROOT] # x /\ t.left[ROOT] # p /\ t.left[ROOT] \in Q \cup {NIL}
    BY <1>0, <1>1, <1>2, <1>3, <1>5 DEF Kin
  <2>2. u.left[ROOT] = IF t.left[ROOT] = g THEN p ELSE t.left[ROOT]
    BY <1>0, <1>2, <1>3, <1>6, RotateTop
  <2>3. r[t.left[ROOT]] = 0
    BY <2>1 DEF Raised
  <2>4. QED
    BY <1>11, <2>1, <2>2, <2>3
<1>17. u.parent[x] = p
  <2>1. x \in Addresses /\ t[o][p] # x
    BY <1>1, <1>5, <1>10 DEF c
  <2>2. u.parent[x] = t.parent[x]
    BY <1>1, <1>2, <1>3, <2>1, <1>6, <1>0 DEF RotatedAt
  <2>3. QED
    BY <1>0, <2>2
<1>18. Raised(u, w, Q, bh2, x)
  <2>1. w \in [Addresses -> {0, 1}]
    BY DEF Kin, Images, w
  <2>2. QED
    BY <2>1, <1>1, <1>11, <1>12, <1>13, <1>14, <1>15, <1>16 DEF Raised
<1>19. Settled(u, Q, bh2, x)
  BY <1>11, <1>17, <1>18 DEF w, Settled
<1>20. QED
  BY <1>19

(* When x has a red uncle, recolouring moves the trouble to g.             *)
(* (red_black_tree.c:239-243)                                              *)
LEMMA RaisedRecolour ==
  ASSUME NEW t, NEW Q, Kin(t, Q), NEW bh, NEW x, NEW r, Raised(t, r, Q, bh, x),
         NEW p, NEW g, NEW y, NEW s \in Sides, NEW o, o = Other(s),
         Uncle(t, x, p, g, y, s, o), r[p] = 1, r[y] = 1,
         NEW w \in [Addresses -> {0, 1}], Repainted(r, w, {g}, {p, y})
  PROVE  \E bh2 : Raised(t, w, Q, bh2, g)
<1> DEFINE bh2 == [bh EXCEPT ![p] = bh[p] + 1, ![y] = bh[y] + 1]
<1>1. /\ x \in Q /\ r[x] = 1 /\ r[ROOT] = 0 /\ r[NIL] = 0
      /\ r \in [Addresses -> {0, 1}]
  BY DEF Raised
<1>0. t.parent[x] = p /\ t.parent[p] = g /\ t[s][g] = p /\ t[o][g] = y
  BY DEF Uncle
<1>2. p \in Q /\ p # x
  <2>1. p # x /\ (p = ROOT \/ p \in Q)
    BY <1>0, <1>1, Above
  <2>2. QED
    BY <1>1, <2>1
<1>3. g \in Q /\ g # p /\ x # g
  <2>0. g # p /\ (g \in Q \/ t.left[ROOT] = p)
    BY <1>0, <1>2, Above
  <2>1. t.left[ROOT] # p
    BY <1>1, <1>2 DEF Raised
  <2>2. g \in Q /\ g # p
    BY <2>0, <2>1
  <2>3. PICK q \in Sides : t[q][p] = x
    BY <1>0, <1>1, <1>2, TreeAssumption, Above DEF Kin
  <2>4. x # g
    BY <1>0, <1>1, <1>2, <2>3, Below
  <2>5. QED
    BY <2>2, <2>4
<1>4. \A n \in Q : Level(t, r, bh, n) /\ Pale(t, r, n, x)
  BY DEF Raised
<1>5. /\ \A n \in Q \cup {NIL} : n \in Addresses /\ r[n] \in {0, 1} /\ bh[n] \in Nat
      /\ NIL \notin Q /\ ROOT \notin Q /\ ROOT # NIL
  BY Below, TreeAssumption DEF Raised, Heights, Addresses, Kin
<1>6. o \in Sides /\ s = Other(o)
  BY TwoSides
<1>7. y \in Q /\ y # p /\ y # g /\ y # x /\ t.parent[y] = g
  <2>1. y \in Q /\ y # p /\ y # g /\ t.parent[y] = g
    <3>1. Children(t, Q, g, p, y)
      BY <1>0, <1>3, ChildrenOf
    <3>2. y # NIL
      BY <1>1
    <3>3. QED
      BY <1>1, <1>2, <1>5, <3>1, <3>2 DEF Children
  <2>2. t.parent[x] # g
    BY <1>0, <1>3
  <2>3. QED
    BY <2>1, <2>2
<1>8. r[g] = 0
  <2>1. Pale(t, r, g, x)
    BY <1>3, <1>4
  <2>2. PaleOn(t, r, g, x, s)
    BY <2>1, PaleSides
  <2>3. QED
    BY <1>0, <1>2, <2>2 DEF PaleOn
<1>9. bh[g] = bh[p] + 1 /\ bh[g] = bh[y] + 1
  <2>1. LevelOn(t, r, bh, g, s) /\ LevelOn(t, r, bh, g, o)
    BY <1>3, <1>4, LevelSides
  <2>2. bh[g] + r[g] = bh[p] + 1 /\ bh[g] + r[g] = bh[y] + 1
    BY <1>0, <2>1 DEF LevelOn
  <2>3. QED
    BY <1>3, <1>5, <1>8, <2>2
<1>10. /\ w[g] = 1 /\ w[p] = 0 /\ w[y] = 0 /\ w[ROOT] = 0 /\ w[NIL] = 0
       /\ \A m \in Q \cup {NIL} : m # g /\ m # p /\ m # y => w[m] = r[m]
  <2>1. p \in Addresses /\ g \in Addresses /\ y \in Addresses /\ ROOT \in Addresses
    BY <1>2, <1>3, <1>5, <1>7 DEF Addresses
  <2>2. QED
    BY <1>1, <1>2, <1>3, <1>5, <1>7, <2>1 DEF Repainted
<1>11. /\ Heights(Q, bh2)
       /\ bh2[g] = bh[g] /\ bh2[p] = bh[p] + 1 /\ bh2[y] = bh[y] + 1
       /\ \A m \in Q \cup {NIL} : m # p /\ m # y => bh2[m] = bh[m]
  BY <1>2, <1>3, <1>5, <1>7 DEF Raised, Heights
<1> HIDE DEF bh2
<1>12. ASSUME NEW n \in Q, n # g
       PROVE  /\ \A q \in Sides : t[q][n] \in Q \cup {NIL} /\ t[q][n] # p /\ t[q][n] # y
              /\ t[o][g] = y /\ t[s][g] = p
  BY <1>0, <1>2, <1>7, <1>12, <1>5, Below
<1>13. ASSUME NEW n \in Q PROVE Level(t, w, bh2, n)
  <2>1. CASE n = g
    <3>1. LevelOn(t, w, bh2, g, s) /\ LevelOn(t, w, bh2, g, o)
      BY <1>0, <1>2, <1>3, <1>5, <1>7, <1>9, <1>10, <1>11 DEF LevelOn
    <3>2. QED
      BY <2>1, <3>1, LevelSides
  <2>2. CASE n # g
    <3>1. Level(t, r, bh, n)
      BY <1>4
    <3>2. \A q \in Sides : bh2[t[q][n]] = bh[t[q][n]] /\ bh[t[q][n]] \in Nat
      BY <1>5, <1>11, <1>12, <2>2
    <3>3. bh2[n] + w[n] = bh[n] + r[n]
      BY <1>2, <1>5, <1>7, <1>10, <1>11, <2>2
    <3>4. QED
      BY <3>1, <3>2, <3>3 DEF Level
  <2>3. QED
    BY <2>1, <2>2
<1>14. ASSUME NEW n \in Q PROVE Pale(t, w, n, g)
  <2>1. CASE n = g
    <3>1. PaleOn(t, w, g, g, s) /\ PaleOn(t, w, g, g, o)
      BY <1>0, <1>10 DEF PaleOn
    <3>2. QED
      BY <2>1, <3>1, PaleSides
  <2>2. CASE n = p \/ n = y
    BY <2>2, <1>10 DEF Pale
  <2>3. CASE n # g /\ n # p /\ n # y
    <3>1. Pale(t, r, n, x)
      BY <1>4
    <3>2. ASSUME NEW q \in Sides
          PROVE  w[t[q][n]] = r[t[q][n]] \/ t[q][n] = g
      BY <1>10, <1>12, <2>3
    <3>3. \A q \in Sides : t[q][n] # x
      BY <1>0, <1>1, <1>5, <2>3, Below
    <3>4. w[n] = r[n]
      BY <1>10, <2>3
    <3>5. QED
      BY <3>1, <3>2, <3>3, <3>4 DEF Pale
  <2>4. QED
    BY <2>1, <2>2, <2>3
<1>15. w[t.left[ROOT]] = 0 \/ t.left[ROOT] = g
  <2>1. /\ t.left[ROOT] # x /\ t.left[ROOT] # p /\ t.left[ROOT] # y
        /\ t.left[ROOT] \in Q \cup {NIL}
    BY <1>0, <1>1, <1>2, <1>3, <1>5, <1>7 DEF Kin
  <2>2. QED
    BY <1>10, <2>1 DEF Raised
<1>16. QED
  BY <1>1, <1>3, <1>10, <1>11, <1>13, <1>14, <1>15 DEF Raised

(* The red-black rules. *)
Coloured(t, r, Q, bh) ==
  /\ r \in [Addresses -> {0, 1}] /\ r[NIL] = 0 /\ r[ROOT] = 0
  /\ Heights(Q, bh)
  /\ \A n \in Q : Level(t, r, bh, n) /\ Pale(t, r, n, ROOT)
  /\ r[t.left[ROOT]] = 0

(* The last store of RBTreeInsert. *)
LEMMA RaisedTop ==
  ASSUME NEW t, NEW Q, Kin(t, Q), NEW bh, NEW x, NEW r, Raised(t, r, Q, bh, x),
         r[t.parent[x]] = 0,
         NEW w \in [Addresses -> {0, 1}], Repainted(r, w, {}, {t.left[ROOT]})
  PROVE  \E bh2 : Coloured(t, w, Q, bh2)
<1> DEFINE top == t.left[ROOT]
           bh2 == [bh EXCEPT ![top] = bh[top] + r[top]]
<1>1. /\ x \in Q /\ r[x] = 1 /\ r[ROOT] = 0 /\ r[NIL] = 0
      /\ r \in [Addresses -> {0, 1}]
  BY DEF Raised
<1>2. top \in Q \cup {NIL} /\ (top \in Q => t.parent[top] = ROOT)
  BY TreeAssumption DEF Kin
<1>3. /\ \A n \in Q \cup {NIL} : n \in Addresses /\ r[n] \in {0, 1} /\ bh[n] \in Nat
      /\ NIL \notin Q /\ ROOT \notin Q /\ ROOT # NIL
  BY Below, TreeAssumption DEF Raised, Heights, Addresses, Kin
<1> HIDE DEF top
<1>4. /\ w[top] = 0 /\ w[ROOT] = 0 /\ w[NIL] = 0
      /\ \A m \in Q \cup {NIL} : w[m] = IF m = top THEN 0 ELSE r[m]
  BY <1>1, <1>2, <1>3 DEF Repainted, top, Addresses
<1>5. /\ Heights(Q, bh2)
      /\ \A m \in Q \cup {NIL} : bh2[m] = IF m = top THEN bh[m] + r[m] ELSE bh[m]
  BY <1>1, <1>2, <1>3 DEF Raised, Heights
<1> HIDE DEF bh2
<1>6. ASSUME NEW n \in Q, NEW q \in Sides
      PROVE  t[q][n] \in Q \cup {NIL} /\ (t[q][n] = top => top = NIL)
  BY <1>2, <1>3, Below
<1>7. ASSUME NEW n \in Q PROVE Level(t, w, bh2, n)
  <2>1. Level(t, r, bh, n)
    BY DEF Raised
  <2>2. \A q \in Sides : bh2[t[q][n]] = bh[t[q][n]]
    BY <1>1, <1>3, <1>5, <1>6
  <2>3. bh2[n] + w[n] = bh[n] + r[n]
    BY <1>3, <1>4, <1>5
  <2>4. QED
    BY <2>1, <2>2, <2>3 DEF Level
<1>8. ASSUME NEW n \in Q PROVE Pale(t, w, n, ROOT)
  <2>1. Pale(t, r, n, x)
    BY DEF Raised
  <2>2. ASSUME NEW q \in Sides, w[n] # 0 PROVE w[t[q][n]] = 0
    <3>1. r[n] # 0 /\ n # top
      BY <1>4, <2>2
    <3>2. t[q][n] = x => t.parent[x] = n
      BY <1>1, <1>3, Below
    <3>3. t[q][n] # x
      BY <3>1, <3>2
    <3>4. r[t[q][n]] = 0
      BY <2>1, <3>1, <3>3 DEF Pale
    <3>5. QED
      BY <1>4, <1>6, <3>4
  <2>3. QED
    BY <2>2 DEF Pale
<1>9. QED
  BY <1>4, <1>5, <1>7, <1>8 DEF Coloured, top

-----------------------------------------------------------------------------
(* What RBDeleteFixUp does to the rules.                                   *)

(* A rotation of t at x, below which y is, and paint: r and bh become w    *)
(* and bh2, but only in D, a part of the tree with x at its top.           *)
Touched(t, Q, D, x, y, r, w, bh, bh2) ==
  /\ D \subseteq Q /\ x \in D /\ y \in D
  /\ \A d \in D : d = x \/ t.parent[d] \in D
  /\ \A m \in Q \cup {NIL} : m \notin D => w[m] = r[m] /\ bh2[m] = bh[m]
  /\ bh2[y] = bh[x]
  /\ w[y] = 0 \/ w[y] = r[x]

(* What was right of n on side q is right after it.                        *)
Kept(t, u, x, r, w, bh, bh2, n, q) ==
  /\ LevelOn(t, r, bh, n, q) => LevelOn(u, w, bh2, n, q)
  /\ PaleOn(t, r, n, ROOT, q) => PaleOn(u, w, n, ROOT, q)
  /\ t[q][n] # x => u[q][n] = t[q][n]

(* Nothing changes for the nodes that are not in D. *)
LEMMA Elsewhere ==
  ASSUME NEW t, NEW Q, Kin(t, Q), NEW s \in Sides, NEW x \in Q, NEW y \in Q,
         t[Other(s)][x] = y, NEW u, RotatedAt(t, u, x, s),
         NEW r, NEW w, NEW bh, NEW bh2, NEW D,
         Touched(t, Q, D, x, y, r, w, bh, bh2),
         NEW n \in Q, n \notin D, NEW q \in Sides
  PROVE  Kept(t, u, x, r, w, bh, bh2, n, q)
<1> DEFINE c == t[q][n]
<1>1. n # x /\ n # y
  BY DEF Touched
<1>2. u[q][n] = IF c = x THEN y ELSE c
  BY <1>1, RotateAway
<1>3. c \in Q \cup {NIL} /\ (c # NIL => t.parent[c] = n)
  BY Below
<1>4. NIL \notin D /\ ROOT \notin Q
  BY Below DEF Touched
<1> HIDE DEF c
<1>5. c \in D => c = x
  BY <1>3, <1>4 DEF Touched
<1>6. /\ c # x => w[c] = r[c] /\ bh2[c] = bh[c]
      /\ w[n] = r[n] /\ bh2[n] = bh[n]
  BY <1>3, <1>5 DEF Touched
<1>7. bh2[y] = bh[x] /\ (w[y] = 0 \/ w[y] = r[x]) /\ ROOT # y
  BY <1>4 DEF Touched
<1>8. LevelOn(t, r, bh, n, q) => LevelOn(u, w, bh2, n, q)
  BY <1>2, <1>6, <1>7 DEF LevelOn, c
<1>9. PaleOn(t, r, n, ROOT, q) => PaleOn(u, w, n, ROOT, q)
  <2>1. c # ROOT
    BY <1>3, <1>4, TreeAssumption
  <2>2. QED
    BY <2>1, <1>2, <1>6, <1>7 DEF PaleOn, c
<1>10. QED
  BY <1>2, <1>8, <1>9 DEF c, Kept

(* x, on side s of p, has one black node too few above and below it. *)
Loose(t, r, n, x) ==
  \A q \in Sides : r[n] = 0 \/ r[t[q][n]] = 0 \/ t[q][n] = x \/ n = x

(* On its way down from p, x is short of one black node.                   *)
Hollow(t, bh, r, x, p, s) ==
  /\ t.parent[x] = p /\ t[s][p] = x
  /\ bh[p] + r[p] = bh[x] + 2
  /\ LevelOn(t, r, bh, p, Other(s))

(* Everything else is right: what RBDeleteFixUp has to mend.               *)
Lacking(t, r, Q, bh, x, p, s) ==
  /\ r \in [Addresses -> {0, 1}] /\ r[NIL] = 0 /\ r[ROOT] = 0
  /\ Heights(Q, bh)
  /\ p \in Q /\ x \in Q \cup {NIL} /\ s \in Sides
  /\ Hollow(t, bh, r, x, p, s)
  /\ \A n \in Q : (n # p => Level(t, r, bh, n)) /\ Loose(t, r, n, x)
  /\ r[t.left[ROOT]] = 0

(* x is the top: nothing is wrong but, perhaps, its colour. *)
AtTop(t, r, Q, bh, x) ==
  /\ r \in [Addresses -> {0, 1}] /\ r[NIL] = 0 /\ r[ROOT] = 0
  /\ Heights(Q, bh)
  /\ t.left[ROOT] = x
  /\ \A n \in Q : Level(t, r, bh, n) /\ Loose(t, r, n, x)

(* With a black x, Loose says as much as Pale.                             *)
LEMMA LoosePale ==
  ASSUME NEW t, NEW r, NEW n, NEW x
  PROVE  /\ Pale(t, r, n, ROOT) /\ r[ROOT] = 0 => Loose(t, r, n, x)
         /\ Loose(t, r, n, x) /\ r[x] = 0 => Pale(t, r, n, ROOT)
BY DEF Loose, Pale

(* Painting the top black ends RBDeleteFixUp.                              *)
LEMMA AtTopDone ==
  ASSUME NEW t, NEW Q, Kin(t, Q), NEW bh, NEW x, NEW r, AtTop(t, r, Q, bh, x),
         NEW w \in [Addresses -> {0, 1}], Repainted(r, w, {}, {x})
  PROVE  \E bh2 : Coloured(t, w, Q, bh2)
<1> DEFINE bh2 == [bh EXCEPT ![x] = bh[x] + r[x]]
<1>1. /\ r[ROOT] = 0 /\ r[NIL] = 0 /\ t.left[ROOT] = x
      /\ r \in [Addresses -> {0, 1}]
  BY DEF AtTop
<1>2. x \in Q \cup {NIL} /\ (x \in Q => t.parent[x] = ROOT)
  BY TreeAssumption, <1>1 DEF Kin
<1>3. /\ \A n \in Q \cup {NIL} : n \in Addresses /\ r[n] \in {0, 1} /\ bh[n] \in Nat
      /\ NIL \notin Q /\ ROOT \notin Q /\ ROOT # NIL
  BY Below, TreeAssumption DEF AtTop, Heights, Addresses, Kin
<1>4. /\ w[x] = 0 /\ w[ROOT] = 0 /\ w[NIL] = 0
      /\ \A m \in Q \cup {NIL} : w[m] = IF m = x THEN 0 ELSE r[m]
  BY <1>1, <1>2, <1>3 DEF Repainted, Addresses
<1>5. /\ Heights(Q, bh2)
      /\ \A m \in Q \cup {NIL} : bh2[m] = IF m = x THEN bh[m] + r[m] ELSE bh[m]
  BY <1>1, <1>2, <1>3 DEF AtTop, Heights
<1> HIDE DEF bh2
<1>6. ASSUME NEW n \in Q, NEW q \in Sides
      PROVE  t[q][n] \in Q \cup {NIL} /\ (t[q][n] = x => x = NIL)
  BY <1>2, <1>3, Below
<1>7. ASSUME NEW n \in Q PROVE Level(t, w, bh2, n)
  <2>1. Level(t, r, bh, n)
    BY DEF AtTop
  <2>2. \A q \in Sides : bh2[t[q][n]] = bh[t[q][n]]
    BY <1>1, <1>3, <1>5, <1>6
  <2>3. bh2[n] + w[n] = bh[n] + r[n]
    BY <1>3, <1>4, <1>5
  <2>4. QED
    BY <2>1, <2>2, <2>3 DEF Level
<1>8. ASSUME NEW n \in Q PROVE Pale(t, w, n, ROOT)
  <2>1. Loose(t, r, n, x)
    BY DEF AtTop
  <2>2. ASSUME NEW q \in Sides, w[n] # 0 PROVE w[t[q][n]] = 0
    BY <1>1, <1>4, <1>6, <2>1, <2>2 DEF Loose
  <2>3. QED
    BY <2>2 DEF Pale
<1>9. QED
  BY <1>1, <1>4, <1>5, <1>7, <1>8 DEF Coloured

(* So does painting a red x that lacks a black node.                       *)
LEMMA LackingDone ==
  ASSUME NEW t, NEW Q, Kin(t, Q), NEW bh, NEW x, NEW r, NEW p, NEW s,
         Lacking(t, r, Q, bh, x, p, s), r[x] = 1,
         NEW w \in [Addresses -> {0, 1}], Repainted(r, w, {}, {x})
  PROVE  \E bh2 : Coloured(t, w, Q, bh2)
<1> DEFINE bh2 == [bh EXCEPT ![x] = bh[x] + 1]
<1>1. /\ r[ROOT] = 0 /\ r[NIL] = 0 /\ r[t.left[ROOT]] = 0
      /\ r \in [Addresses -> {0, 1}] /\ s \in Sides /\ p \in Q /\ x \in Q
  BY DEF Lacking
<1>2. t.parent[x] = p /\ t[s][p] = x
  BY DEF Lacking, Hollow
<1>3. /\ \A n \in Q \cup {NIL} : n \in Addresses /\ r[n] \in {0, 1} /\ bh[n] \in Nat
      /\ NIL \notin Q /\ ROOT \notin Q /\ ROOT # NIL
  BY Below, TreeAssumption DEF Lacking, Heights, Addresses, Kin
<1>4. /\ w[x] = 0 /\ w[ROOT] = 0 /\ w[NIL] = 0
      /\ \A m \in Q \cup {NIL} : w[m] = IF m = x THEN 0 ELSE r[m]
  BY <1>1, <1>2, <1>3 DEF Repainted, Addresses
<1>5. /\ Heights(Q, bh2)
      /\ \A m \in Q \cup {NIL} : bh2[m] = IF m = x THEN bh[m] + 1 ELSE bh[m]
  BY <1>1, <1>2, <1>3 DEF Lacking, Heights
<1> HIDE DEF bh2
<1>6. ASSUME NEW n \in Q, NEW q \in Sides
      PROVE  t[q][n] \in Q \cup {NIL} /\ (t[q][n] = x => n = p)
  BY <1>1, <1>2, <1>3, Below
<1>7. ASSUME NEW n \in Q PROVE Level(t, w, bh2, n)
  <2>1. CASE n # p
    <3>1. Level(t, r, bh, n)
      BY <2>1 DEF Lacking
    <3>2. \A q \in Sides : bh2[t[q][n]] = bh[t[q][n]]
      BY <1>1, <1>3, <1>5, <1>6, <2>1
    <3>3. bh2[n] + w[n] = bh[n] + r[n]
      BY <1>3, <1>4, <1>5
    <3>4. QED
      BY <3>1, <3>2, <3>3 DEF Level
  <2>2. CASE n = p
    <3> DEFINE b == t[Other(s)][p]
    <3>1. b # x /\ p # x /\ b \in Q \cup {NIL}
      BY <1>1, <1>2, <1>3, Below, TwoSides
    <3>2. bh[p] + r[p] = bh[x] + 2 /\ bh[p] + r[p] = bh[b] + 1
      BY DEF Lacking, Hollow, LevelOn
    <3> HIDE DEF b
    <3>3. bh2[p] + w[p] = bh2[x] + 1 /\ bh2[p] + w[p] = bh2[b] + 1
      BY <1>1, <1>3, <1>4, <1>5, <3>1, <3>2
    <3>4. LevelOn(t, w, bh2, p, s) /\ LevelOn(t, w, bh2, p, Other(s))
      BY <3>3, <1>2 DEF LevelOn, b
    <3>5. QED
      BY <1>1, <2>2, <3>4, LevelSides
  <2>3. QED
    BY <2>1, <2>2
<1>8. ASSUME NEW n \in Q PROVE Pale(t, w, n, ROOT)
  <2>1. Loose(t, r, n, x)
    BY DEF Lacking
  <2>2. ASSUME NEW q \in Sides, w[n] # 0 PROVE w[t[q][n]] = 0
    BY <1>1, <1>4, <1>6, <2>1, <2>2 DEF Loose
  <2>3. QED
    BY <2>2 DEF Pale
<1>9. w[t.left[ROOT]] = 0
  BY <1>1, <1>4 DEF Kin
<1>10. QED
  BY <1>4, <1>5, <1>7, <1>8, <1>9 DEF Coloured

(* x's sibling b and nephews. *)
Nephews(t, p, b, near, far, s, o) ==
  t[o][p] = b /\ t[s][b] = near /\ t[o][b] = far

(* What is known of them, a lacking x being black. *)
Sibling(t, r, Q, bh, x, p, b, near, far) ==
  /\ \A n \in Q \cup {NIL} : n \in Addresses /\ r[n] \in {0, 1} /\ bh[n] \in Nat \ {0}
  /\ NIL \notin Q /\ ROOT \notin Q /\ ROOT # NIL /\ r[ROOT] = 0 /\ r[NIL] = 0
  /\ p \in Q /\ b \in Q /\ x \in Q \cup {NIL}
  /\ near \in Q \cup {NIL} /\ far \in Q \cup {NIL}
  /\ t.parent[x] = p /\ t.parent[b] = p /\ p # b
  /\ near # NIL => t.parent[near] = b
  /\ far # NIL => t.parent[far] = b
  /\ near # p /\ far # p /\ near # b /\ far # b /\ (near = far => near = NIL)
  /\ x # p /\ x # b /\ (x = near => x = NIL) /\ (x = far => x = NIL)
  /\ bh[p] + r[p] = bh[x] + 2 /\ bh[b] = bh[x] + 1
  /\ bh[b] + r[b] = bh[near] + 1 /\ bh[b] + r[b] = bh[far] + 1
  /\ r[p] = 0 \/ r[b] = 0
  /\ r[b] = 0 \/ (r[near] = 0 /\ r[far] = 0 /\ near # NIL /\ far # NIL)

(* A black x that lacks a black node has a sibling, whose children and     *)
(* colours are as RBDeleteFixUp expects.                                   *)
LEMMA LackingSibling ==
  ASSUME NEW t, NEW Q, Kin(t, Q), NEW bh, NEW x, NEW r, NEW p, NEW s, NEW o,
         Lacking(t, r, Q, bh, x, p, s), r[x] = 0, o = Other(s),
         NEW b, NEW near, NEW far, Nephews(t, p, b, near, far, s, o)
  PROVE  Sibling(t, r, Q, bh, x, p, b, near, far)
<1>1. /\ r[ROOT] = 0 /\ r[NIL] = 0 /\ bh[NIL] = 1
      /\ s \in Sides /\ o \in Sides /\ p \in Q /\ x \in Q \cup {NIL}
      /\ t.parent[x] = p /\ t[s][p] = x /\ t[o][p] = b
      /\ t[s][b] = near /\ t[o][b] = far
      /\ bh[p] + r[p] = bh[x] + 2
  BY TwoSides DEF Lacking, Hollow, Nephews, Heights
<1>2. /\ \A n \in Q \cup {NIL} : n \in Addresses /\ r[n] \in {0, 1} /\ bh[n] \in Nat \ {0}
      /\ NIL \notin Q /\ ROOT \notin Q /\ ROOT # NIL
  BY Below, TreeAssumption DEF Lacking, Heights, Addresses, Kin
<1>3. LevelOn(t, r, bh, p, o)
  BY DEF Lacking, Hollow
<1>4. Children(t, Q, p, x, b)
  BY <1>1, ChildrenOf
<1>5. bh[b] = bh[x] + 1 /\ b \in Q /\ b # p /\ t.parent[b] = p /\ x # b /\ x # p
  <2>1. bh[p] + r[p] = bh[b] + 1
    BY <1>1, <1>3 DEF LevelOn
  <2>2. b \in Q \cup {NIL} /\ x # p /\ b # p /\ (b # NIL => t.parent[b] = p) /\ (x = b => x = NIL)
    BY <1>4 DEF Children
  <2>3. bh[b] = bh[x] + 1
    BY <1>1, <1>2, <2>1, <2>2
  <2>4. b # NIL
    BY <1>1, <1>2, <2>3
  <2>5. QED
    BY <2>2, <2>3, <2>4
<1>6. Level(t, r, bh, b) /\ Pale(t, r, b, ROOT) /\ Pale(t, r, p, ROOT)
  <2>1. Level(t, r, bh, b) /\ Loose(t, r, b, x) /\ Loose(t, r, p, x)
    BY <1>1, <1>5 DEF Lacking
  <2>2. QED
    BY <2>1, LoosePale
<1>7. Children(t, Q, b, near, far)
  BY <1>1, <1>5, ChildrenOf
<1>8. /\ near \in Q \cup {NIL} /\ far \in Q \cup {NIL}
      /\ near # NIL => t.parent[near] = b
      /\ far # NIL => t.parent[far] = b
      /\ near # p /\ far # p /\ near # b /\ far # b /\ (near = far => near = NIL)
  <2>1. near # NIL => near # p
    BY <1>5, <1>7 DEF Children
  <2>2. far # NIL => far # p
    BY <1>5, <1>7 DEF Children
  <2>3. NIL # p
    BY <1>1, <1>2
  <2>4. QED
    BY <1>7, <2>1, <2>2, <2>3 DEF Children
<1>9. bh[b] + r[b] = bh[near] + 1 /\ bh[b] + r[b] = bh[far] + 1
  <2>1. LevelOn(t, r, bh, b, s) /\ LevelOn(t, r, bh, b, o)
    BY <1>1, <1>6, LevelSides
  <2>2. QED
    BY <1>1, <2>1 DEF LevelOn
<1>10. /\ r[p] = 0 \/ r[b] = 0
       /\ r[b] = 0 \/ (r[near] = 0 /\ r[far] = 0)
  <2>1. /\ PaleOn(t, r, p, ROOT, o)
        /\ PaleOn(t, r, b, ROOT, s) /\ PaleOn(t, r, b, ROOT, o)
    BY <1>1, <1>6, PaleSides
  <2>2. QED
    BY <1>1, <1>2, <1>5, <1>8, <2>1 DEF PaleOn
<1>11. r[b] = 0 \/ (near # NIL /\ far # NIL)
  <2>1. ASSUME r[b] # 0 PROVE bh[near] # 1 /\ bh[far] # 1
    <3>1. r[b] = 1 /\ near \in Q \cup {NIL} /\ far \in Q \cup {NIL}
      BY <1>2, <1>5, <1>8, <2>1
    <3>2. bh[b] \in Nat /\ bh[x] \in Nat \ {0} /\ bh[near] \in Nat /\ bh[far] \in Nat
      BY <1>1, <1>2, <1>5, <3>1
    <3>3. QED
      BY <1>5, <1>9, <3>1, <3>2
  <2>2. QED
    BY <1>1, <2>1
<1>12. /\ x = near => x = NIL
       /\ x = far => x = NIL
  BY <1>1, <1>5, <1>8
<1>13. QED
  BY <1>1, <1>2, <1>5, <1>8, <1>9, <1>10, <1>11, <1>12 DEF Sibling

(* A red sibling is made the parent's parent. *)
LEMMA RedSibling ==
  ASSUME NEW t, NEW Q, Kin(t, Q), NEW bh, NEW x, NEW r, NEW p, NEW s, NEW o,
         Lacking(t, r, Q, bh, x, p, s), r[x] = 0, o = Other(s),
         NEW b, NEW near, NEW far, Nephews(t, p, b, near, far, s, o), r[b] = 1,
         NEW u, Kin(u, Q), RotatedAt(t, u, p, s),
         NEW w \in [Addresses -> {0, 1}], Repainted(r, w, {p}, {b})
  PROVE  /\ \E bh2 : Lacking(u, w, Q, bh2, x, p, s)
         /\ u[o][p] = near /\ near \in Q /\ w[near] = 0 /\ w[p] = 1 /\ w[x] = 0
         /\ t.left[ROOT] # p => u.left[ROOT] = t.left[ROOT]
<1> DEFINE bh2 == [bh EXCEPT ![p] = bh[x] + 1, ![b] = bh[x] + 2]
<1>1. Sibling(t, r, Q, bh, x, p, b, near, far)
  BY LackingSibling
<1>2. s \in Sides /\ o \in Sides /\ t[o][p] = b /\ t[s][b] = near /\ t[o][b] = far
      /\ t[s][p] = x
  BY TwoSides DEF Lacking, Nephews, Hollow
<1>3. /\ w[p] = 1 /\ w[b] = 0 /\ w[ROOT] = 0 /\ w[NIL] = 0
      /\ \A m \in Q \cup {NIL} : m # p /\ m # b => w[m] = r[m]
  <2>1. ROOT \in Addresses /\ NIL \in Addresses
    BY DEF Addresses
  <2>2. \A m \in Addresses : w[m] = IF m = p THEN 1 ELSE IF m = b THEN 0 ELSE r[m]
    BY DEF Repainted
  <2>3. p # b /\ ROOT # p /\ ROOT # b /\ NIL # p /\ NIL # b /\ p \in Addresses /\ b \in Addresses
        /\ r[ROOT] = 0 /\ r[NIL] = 0
    BY <1>1 DEF Sibling
  <2>4. \A m \in Q \cup {NIL} : m \in Addresses
    BY <1>1 DEF Sibling
  <2>5. QED
    BY <2>1, <2>2, <2>3, <2>4
<1>4. /\ Heights(Q, bh2)
      /\ bh2[p] = bh[x] + 1 /\ bh2[b] = bh[x] + 2
      /\ \A m \in Q \cup {NIL} : m # p /\ m # b => bh2[m] = bh[m]
  <2>1. Heights(Q, bh)
    BY DEF Lacking
  <2>2. bh[x] \in Nat /\ p \in Q /\ b \in Q /\ p # b /\ NIL # p /\ NIL # b
    BY <1>1 DEF Sibling
  <2>3. QED
    BY <2>1, <2>2 DEF Heights
<1> HIDE DEF bh2
<1>5. r[p] = 0 /\ bh[p] = bh[x] + 2 /\ bh[near] = bh[x] + 1 /\ bh[far] = bh[x] + 1
  <2>1. /\ bh[p] \in Nat /\ bh[x] \in Nat /\ bh[b] \in Nat /\ bh[near] \in Nat /\ bh[far] \in Nat
    BY <1>1 DEF Sibling
  <2>2. QED
    BY <1>1, <2>1 DEF Sibling
<1>6. Swung(t, u, p, b, s, o)
  BY <1>1, <1>2, RotateHere DEF Sibling
<1>7. u[s][p] = x /\ u[o][p] = near /\ u[s][b] = p /\ u[o][b] = far
  BY <1>2, <1>6 DEF Swung
<1>8. u.parent[x] = p
  <2>1. Children(u, Q, p, x, near)
    BY <1>1, <1>2, <1>7, ChildrenOf DEF Sibling
  <2>2. CASE x # NIL
    BY <2>1, <2>2 DEF Children
  <2>3. CASE x = NIL
    <3>1. x \in Addresses /\ x # p /\ x # b /\ t.parent[x] = p
      BY <1>1 DEF Sibling
    <3>2. u.parent[x] = t.parent[x]
      BY <1>2, <2>3, <3>1 DEF RotatedAt
    <3>3. QED
      BY <3>1, <3>2
  <2>4. QED
    BY <2>2, <2>3
<1>9. /\ bh2[near] = bh[near] /\ bh2[far] = bh[far] /\ bh2[x] = bh[x]
      /\ w[near] = 0 /\ w[far] = 0 /\ w[x] = 0
  <2>1. near # p /\ near # b /\ far # p /\ far # b /\ x # p /\ x # b
        /\ near \in Q \cup {NIL} /\ far \in Q \cup {NIL} /\ x \in Q \cup {NIL}
        /\ r[near] = 0 /\ r[far] = 0
    BY <1>1 DEF Sibling
  <2>2. QED
    BY <1>3, <1>4, <2>1
<1>10. Hollow(u, bh2, w, x, p, s)
  <2>1. bh[x] \in Nat
    BY <1>1 DEF Sibling
  <2>2. /\ bh2[p] + w[p] = bh2[x] + 2
        /\ bh2[p] + w[p] = bh2[near] + 1
    BY <1>3, <1>4, <1>5, <1>9, <2>1
  <2>3. LevelOn(u, w, bh2, p, o)
    BY <1>7, <2>2 DEF LevelOn
  <2>4. QED
    BY <1>7, <1>8, <2>2, <2>3 DEF Hollow
<1>11. Level(u, w, bh2, b)
  <2>1. bh[x] \in Nat
    BY <1>1 DEF Sibling
  <2>2. /\ bh2[b] + w[b] = bh2[p] + 1
        /\ bh2[b] + w[b] = bh2[far] + 1
    BY <1>3, <1>4, <1>5, <1>9, <2>1
  <2>3. LevelOn(u, w, bh2, b, s) /\ LevelOn(u, w, bh2, b, o)
    BY <1>7, <2>2 DEF LevelOn
  <2>4. QED
    BY <1>2, <2>3, LevelSides
<1>12. Loose(u, w, b, x) /\ Loose(u, w, p, x)
  <2>1. /\ PaleOn(u, w, b, ROOT, s) /\ PaleOn(u, w, b, ROOT, o)
        /\ PaleOn(u, w, p, ROOT, s) /\ PaleOn(u, w, p, ROOT, o)
    BY <1>3, <1>7, <1>9 DEF PaleOn
  <2>2. QED
    BY <1>2, <1>3, <2>1, PaleSides, LoosePale
<1> DEFINE D == {p, b}
<1>13. Touched(t, Q, D, p, b, r, w, bh, bh2)
  BY <1>1, <1>3, <1>4, <1>5 DEF Touched, Sibling
<1>14. ASSUME NEW n \in Q, n # p, n # b
       PROVE  Level(u, w, bh2, n) /\ Loose(u, w, n, x)
  <2>1. Level(t, r, bh, n) /\ Pale(t, r, n, ROOT)
    BY <1>14, LoosePale DEF Lacking
  <2>2. ASSUME NEW q \in Sides
        PROVE  LevelOn(t, r, bh, n, q) /\ PaleOn(t, r, n, ROOT, q)
    BY <2>1, <2>2 DEF Level, LevelOn, Pale, PaleOn
  <2>3. p \in Q /\ b \in Q
    BY <1>1 DEF Sibling
  <2>4. n \notin D
    BY <1>14
  <2> HIDE DEF D
  <2>5. ASSUME NEW q \in Sides
        PROVE  LevelOn(u, w, bh2, n, q) /\ PaleOn(u, w, n, ROOT, q)
    <3>1. t[Other(s)][p] = b
      BY <1>2
    <3>2. LevelOn(t, r, bh, n, q) /\ PaleOn(t, r, n, ROOT, q)
      BY <2>2
    <3>3. s \in Sides
      BY <1>2
    <3>4. Kept(t, u, p, r, w, bh, bh2, n, q)
      BY <1>13, <2>3, <2>4, <3>1, <3>3, Elsewhere
    <3>5. QED
      BY <3>2, <3>4 DEF Kept
  <2>6. Level(u, w, bh2, n) /\ Pale(u, w, n, ROOT)
    BY <1>2, <2>5, LevelSides, PaleSides
  <2>7. QED
    BY <1>3, <2>6, LoosePale
<1>15. /\ u.left[ROOT] = IF t.left[ROOT] = p THEN b ELSE t.left[ROOT]
       /\ w[u.left[ROOT]] = 0
  <2>1. u.left[ROOT] = IF t.left[ROOT] = p THEN b ELSE t.left[ROOT]
    BY <1>1, <1>2, RotateTop DEF Sibling
  <2>2. r[t.left[ROOT]] = 0 /\ t.left[ROOT] \in Q \cup {NIL}
    BY DEF Lacking, Kin
  <2>3. QED
    BY <1>3, <2>1, <2>2
<1>16. Lacking(u, w, Q, bh2, x, p, s)
  BY <1>1, <1>2, <1>3, <1>4, <1>10, <1>11, <1>12, <1>14, <1>15
     DEF Lacking, Sibling
<1>17. near \in Q
  BY <1>1 DEF Sibling
<1>18. QED
  BY <1>3, <1>7, <1>9, <1>15, <1>16, <1>17

(* A black sibling with black children is made red: then p is lacking.     *)
LEMMA BlackNephews ==
  ASSUME NEW t, NEW Q, Kin(t, Q), NEW bh, NEW x, NEW r, NEW p, NEW s, NEW o,
         Lacking(t, r, Q, bh, x, p, s), r[x] = 0, o = Other(s),
         NEW b, NEW near, NEW far, Nephews(t, p, b, near, far, s, o),
         r[b] = 0, r[near] = 0, r[far] = 0,
         NEW w \in [Addresses -> {0, 1}], Repainted(r, w, {b}, {})
  PROVE  \E bh2 : \/ AtTop(t, w, Q, bh2, p)
                  \/ \E q, s2 : Lacking(t, w, Q, bh2, p, q, s2)
<1> DEFINE bh2 == [bh EXCEPT ![b] = bh[b] - 1, ![p] = bh[p] - 1]
<1>1. Sibling(t, r, Q, bh, x, p, b, near, far)
  BY LackingSibling
<1>2. s \in Sides /\ o \in Sides /\ t[o][p] = b /\ t[s][b] = near /\ t[o][b] = far
      /\ t[s][p] = x
  BY TwoSides DEF Lacking, Nephews, Hollow
<1>3. /\ p \in Q /\ b \in Q /\ p # b /\ p # NIL /\ b # NIL /\ ROOT \notin Q
      /\ t.parent[b] = p /\ bh[p] \in Nat /\ bh[b] \in Nat /\ bh[x] \in Nat \ {0}
      /\ near # p /\ near # b /\ far # p /\ far # b /\ x # p /\ x # b
      /\ near \in Q \cup {NIL} /\ far \in Q \cup {NIL} /\ x \in Q \cup {NIL}
      /\ bh[near] \in Nat /\ bh[far] \in Nat /\ r[p] \in {0, 1}
  BY <1>1 DEF Sibling
<1>4. bh[b] = bh[x] + 1 /\ bh[p] + r[p] = bh[x] + 2 /\ bh[near] = bh[x] /\ bh[far] = bh[x]
  <2>1. /\ bh[p] + r[p] = bh[x] + 2 /\ bh[b] = bh[x] + 1
        /\ bh[b] + r[b] = bh[near] + 1 /\ bh[b] + r[b] = bh[far] + 1
    BY <1>1 DEF Sibling
  <2>2. QED
    BY <1>3, <2>1
<1>5. /\ w[b] = 1 /\ w[ROOT] = 0 /\ w[NIL] = 0
      /\ \A m \in Q \cup {NIL} : m # b => w[m] = r[m]
  <2>1. ROOT \in Addresses /\ NIL \in Addresses
    BY DEF Addresses
  <2>2. \A m \in Addresses : w[m] = IF m = b THEN 1 ELSE r[m]
    BY DEF Repainted
  <2>3. r[ROOT] = 0 /\ r[NIL] = 0 /\ \A m \in Q \cup {NIL} : m \in Addresses
    BY <1>1 DEF Sibling
  <2>4. QED
    BY <1>3, <2>1, <2>2, <2>3
<1>6. /\ Heights(Q, bh2)
      /\ bh2[b] = bh[b] - 1 /\ bh2[p] = bh[p] - 1
      /\ \A m \in Q \cup {NIL} : m # b /\ m # p => bh2[m] = bh[m]
  <2>1. Heights(Q, bh)
    BY DEF Lacking
  <2>2. bh[b] - 1 \in Nat \ {0} /\ bh[p] - 1 \in Nat \ {0}
    BY <1>3, <1>4
  <2>3. QED
    BY <1>3, <2>1, <2>2 DEF Heights
<1> HIDE DEF bh2
<1>7. Level(t, w, bh2, b) /\ Level(t, w, bh2, p)
  <2>1. bh2[near] = bh[near] /\ bh2[far] = bh[far] /\ bh2[x] = bh[x] /\ w[p] = r[p]
    BY <1>3, <1>5, <1>6
  <2>2. /\ bh2[b] + w[b] = bh2[near] + 1 /\ bh2[b] + w[b] = bh2[far] + 1
        /\ bh2[p] + w[p] = bh2[x] + 1 /\ bh2[p] + w[p] = bh2[b] + 1
    BY <1>3, <1>4, <1>5, <1>6, <2>1
  <2>3. /\ LevelOn(t, w, bh2, b, s) /\ LevelOn(t, w, bh2, b, o)
        /\ LevelOn(t, w, bh2, p, s) /\ LevelOn(t, w, bh2, p, o)
    BY <1>2, <2>2 DEF LevelOn
  <2>4. QED
    BY <1>2, <2>3, LevelSides
<1>8. ASSUME NEW n \in Q PROVE Pale(t, r, n, ROOT) /\ (n # p => Level(t, r, bh, n))
  BY LoosePale DEF Lacking
<1>9. ASSUME NEW n \in Q, n # p, NEW q \in Sides
      PROVE  t[q][n] # b /\ t[q][n] \in Q \cup {NIL} /\ (t[q][n] = p => t.parent[p] = n)
  BY <1>3, <1>9, Below
<1>10. ASSUME NEW n \in Q, n # p, n # b, NEW q \in Sides, t[q][n] # p
       PROVE  LevelOn(t, w, bh2, n, q)
  <2>1. LevelOn(t, r, bh, n, q)
    BY <1>8, <1>10 DEF Level, LevelOn
  <2>2. bh2[n] = bh[n] /\ w[n] = r[n] /\ bh2[t[q][n]] = bh[t[q][n]]
    BY <1>5, <1>6, <1>9, <1>10
  <2>3. QED
    BY <2>1, <2>2 DEF LevelOn
<1>11. ASSUME NEW n \in Q PROVE Loose(t, w, n, p)
  <2>1. CASE n = b
    <3>1. w[near] = 0 /\ w[far] = 0
      BY <1>3, <1>5
    <3>2. PaleOn(t, w, b, ROOT, s) /\ PaleOn(t, w, b, ROOT, o)
      BY <1>2, <3>1 DEF PaleOn
    <3>3. Pale(t, w, n, ROOT)
      BY <1>2, <2>1, <3>2, PaleSides
    <3>4. QED
      BY <1>5, <3>3, LoosePale
  <2>2. CASE n = p
    BY <2>2 DEF Loose
  <2>3. CASE n # b /\ n # p
    <3>1. \A q \in Sides : w[n] = r[n] /\ w[t[q][n]] = r[t[q][n]]
      BY <1>5, <1>9, <2>3
    <3>2. Pale(t, r, n, ROOT)
      BY <1>8
    <3>3. \A q \in Sides : t[q][n] # ROOT
      BY <1>3, <1>9, <2>3, TreeAssumption
    <3>4. QED
      BY <3>1, <3>2, <3>3 DEF Pale, Loose
  <2>4. QED
    BY <2>1, <2>2, <2>3
<1>12. CASE t.parent[p] = ROOT
  <2>1. t.left[ROOT] = p
    BY <1>3, <1>12, Above
  <2>2. ASSUME NEW n \in Q PROVE Level(t, w, bh2, n)
    <3>1. CASE n = b \/ n = p
      BY <1>7, <3>1
    <3>2. CASE n # b /\ n # p
      <4>1. \A q \in Sides : t[q][n] # p
        BY <1>3, <1>9, <1>12, <3>2
      <4>2. LevelOn(t, w, bh2, n, s) /\ LevelOn(t, w, bh2, n, o)
        BY <1>2, <1>10, <3>2, <4>1
      <4>3. QED
        BY <1>2, <4>2, LevelSides
    <3>3. QED
      BY <3>1, <3>2
  <2>3. AtTop(t, w, Q, bh2, p)
    BY <1>5, <1>6, <1>11, <2>1, <2>2 DEF AtTop
  <2>4. QED
    BY <2>3
<1>13. CASE t.parent[p] # ROOT
  <2> DEFINE g == t.parent[p]
  <2>1. g \in Q /\ g # p /\ \E q \in Sides : t[q][g] = p
    BY <1>3, <1>13, Above
  <2>2. PICK s2 \in Sides : t[s2][g] = p
    BY <2>1
  <2>3. g # b
    BY <1>2, <1>3, <2>2, Below
  <2>4. Other(s2) \in Sides /\ t[Other(s2)][g] # p
    BY <1>3, <2>1, <2>2, Below, TwoSides
  <2>5. LevelOn(t, w, bh2, g, Other(s2))
    <3> HIDE DEF g
    <3> QED BY <1>10, <2>1, <2>3, <2>4
  <2>6. bh2[g] + w[g] = bh2[p] + 2
    <3>1. bh[g] + r[g] = bh[p] + 1
      BY <1>8, <2>1, <2>2 DEF Level
    <3>2. bh2[g] = bh[g] /\ w[g] = r[g]
      BY <1>5, <1>6, <2>1, <2>3
    <3>3. bh[g] \in Nat /\ r[g] \in {0, 1}
      BY <2>1, <1>1 DEF Sibling
    <3> HIDE DEF g
    <3>4. QED
      BY <1>3, <1>6, <3>1, <3>2, <3>3
  <2>7. Hollow(t, bh2, w, p, g, s2)
    BY <2>2, <2>5, <2>6 DEF Hollow
  <2>8. ASSUME NEW n \in Q, n # g PROVE Level(t, w, bh2, n)
    <3>1. CASE n = b \/ n = p
      BY <1>7, <3>1
    <3>2. CASE n # b /\ n # p
      <4>1. \A q \in Sides : t[q][n] # p
        BY <1>9, <2>8, <3>2
      <4>2. LevelOn(t, w, bh2, n, s) /\ LevelOn(t, w, bh2, n, o)
        BY <1>2, <1>10, <3>2, <4>1
      <4>3. QED
        BY <1>2, <4>2, LevelSides
    <3>3. QED
      BY <3>1, <3>2
  <2>9. w[t.left[ROOT]] = 0
    <3>1. r[t.left[ROOT]] = 0
      BY DEF Lacking
    <3>2. t.left[ROOT] \in Q \cup {NIL} /\ t.left[ROOT] # b
      BY <1>3 DEF Kin
    <3>3. QED
      BY <1>5, <3>1, <3>2
  <2> HIDE DEF g
  <2>10. Lacking(t, w, Q, bh2, p, g, s2)
    BY <1>3, <1>5, <1>6, <1>11, <2>1, <2>7, <2>8, <2>9 DEF Lacking
  <2>11. QED
    BY <2>10
<1>14. QED
  BY <1>12, <1>13

(* A red near child of a black sibling is made its parent. *)
LEMMA RedNear ==
  ASSUME NEW t, NEW Q, Kin(t, Q), NEW bh, NEW x, NEW r, NEW p, NEW s, NEW o,
         Lacking(t, r, Q, bh, x, p, s), r[x] = 0, o = Other(s),
         NEW b, NEW near, NEW far, Nephews(t, p, b, near, far, s, o),
         r[b] = 0, r[near] = 1, r[far] = 0,
         NEW u, Kin(u, Q), RotatedAt(t, u, b, o),
         NEW w \in [Addresses -> {0, 1}], Repainted(r, w, {b}, {near})
  PROVE  /\ \E bh2 : Lacking(u, w, Q, bh2, x, p, s)
         /\ u[o][p] = near /\ u[o][near] = b
         /\ w[near] = 0 /\ w[b] = 1 /\ w[x] = 0
         /\ u.left[ROOT] = t.left[ROOT]
<1> DEFINE bh2 == [bh EXCEPT ![b] = bh[x], ![near] = bh[x] + 1]
           a == t[s][near]
           c == t[o][near]
<1>1. Sibling(t, r, Q, bh, x, p, b, near, far)
  BY LackingSibling
<1>2. s \in Sides /\ o \in Sides /\ t[o][p] = b /\ t[s][b] = near /\ t[o][b] = far
      /\ t[s][p] = x /\ s = Other(o)
  BY TwoSides DEF Lacking, Nephews, Hollow
<1>3. /\ p \in Q /\ b \in Q /\ p # b /\ p # NIL /\ b # NIL /\ ROOT \notin Q
      /\ t.parent[b] = p /\ t.parent[near] = b /\ bh[p] \in Nat /\ bh[b] \in Nat /\ bh[x] \in Nat \ {0}
      /\ near # p /\ near # b /\ far # p /\ far # b /\ x # p /\ x # b
      /\ near # far /\ near # x
      /\ near \in Q /\ far \in Q \cup {NIL} /\ x \in Q \cup {NIL} /\ near # NIL
      /\ bh[near] \in Nat /\ bh[far] \in Nat /\ r[p] \in {0, 1}
      /\ \A m \in Q \cup {NIL} : m \in Addresses /\ bh[m] \in Nat /\ r[m] \in {0, 1}
      /\ r[NIL] = 0 /\ r[ROOT] = 0 /\ NIL \notin Q
  BY <1>1 DEF Sibling
<1>4. Children(t, Q, near, a, c)
  BY <1>2, <1>3, ChildrenOf
<1>5. /\ a \in Q \cup {NIL} /\ c \in Q \cup {NIL}
      /\ a # near /\ c # near /\ a # b /\ c # b
  BY <1>3, <1>4 DEF Children
<1>6. ASSUME NEW n \in Q PROVE Pale(t, r, n, ROOT) /\ (n # p => Level(t, r, bh, n))
  BY LoosePale DEF Lacking
<1>7. bh[b] = bh[x] + 1 /\ bh[far] = bh[x] /\ bh[near] = bh[x]
      /\ bh[a] = bh[x] /\ bh[c] = bh[x] /\ r[a] = 0 /\ r[c] = 0
  <2>1. /\ bh[b] = bh[x] + 1
        /\ bh[b] + r[b] = bh[near] + 1 /\ bh[b] + r[b] = bh[far] + 1
    BY <1>1 DEF Sibling
  <2>2. /\ LevelOn(t, r, bh, near, s) /\ LevelOn(t, r, bh, near, o)
        /\ PaleOn(t, r, near, ROOT, s) /\ PaleOn(t, r, near, ROOT, o)
    BY <1>2, <1>3, <1>6, LevelSides, PaleSides
  <2>3. bh[near] + 1 = bh[a] + 1 /\ bh[near] + 1 = bh[c] + 1
    BY <2>2 DEF LevelOn
  <2>4. r[a] = 0 /\ r[c] = 0
    BY <1>3, <2>2 DEF PaleOn
  <2> HIDE DEF a, c
  <2>5. bh[a] \in Nat /\ bh[c] \in Nat
    BY <1>3, <1>5
  <2>6. QED
    BY <1>3, <2>1, <2>3, <2>4, <2>5
<1>8. /\ w[b] = 1 /\ w[near] = 0 /\ w[ROOT] = 0 /\ w[NIL] = 0
      /\ \A m \in Q \cup {NIL} : m # b /\ m # near => w[m] = r[m]
  <2>1. ROOT \in Addresses /\ NIL \in Addresses
    BY DEF Addresses
  <2>2. \A m \in Addresses : w[m] = IF m = b THEN 1 ELSE IF m = near THEN 0 ELSE r[m]
    BY DEF Repainted
  <2>3. QED
    BY <1>3, <2>1, <2>2
<1>9. /\ Heights(Q, bh2)
      /\ bh2[b] = bh[x] /\ bh2[near] = bh[x] + 1
      /\ \A m \in Q \cup {NIL} : m # b /\ m # near => bh2[m] = bh[m]
  <2>1. Heights(Q, bh)
    BY DEF Lacking
  <2>2. QED
    BY <1>3, <2>1 DEF Heights
<1>10. Swung(t, u, b, near, o, s)
  BY <1>2, <1>3, RotateHere
<1>11. u[o][b] = far /\ u[s][b] = c /\ u[o][near] = b /\ u[s][near] = a
  BY <1>2, <1>10 DEF Swung
<1> HIDE DEF a, c, bh2
<1>12. /\ bh2[a] = bh[x] /\ bh2[c] = bh[x] /\ bh2[far] = bh[x] /\ bh2[x] = bh[x]
       /\ w[a] = 0 /\ w[c] = 0 /\ w[x] = 0 /\ w[p] = r[p] /\ bh2[p] = bh[p]
       /\ w[far] = 0
  BY <1>3, <1>5, <1>7, <1>8, <1>9
<1>13. Level(u, w, bh2, b) /\ Level(u, w, bh2, near)
  <2>1. /\ bh2[b] + w[b] = bh2[far] + 1 /\ bh2[b] + w[b] = bh2[c] + 1
        /\ bh2[near] + w[near] = bh2[b] + 1 /\ bh2[near] + w[near] = bh2[a] + 1
    BY <1>3, <1>8, <1>9, <1>12
  <2>2. /\ LevelOn(u, w, bh2, b, s) /\ LevelOn(u, w, bh2, b, o)
        /\ LevelOn(u, w, bh2, near, s) /\ LevelOn(u, w, bh2, near, o)
    BY <1>11, <2>1 DEF LevelOn
  <2>3. QED
    BY <1>2, <2>2, LevelSides
<1>14. Loose(u, w, b, x) /\ Loose(u, w, near, x)
  <2>1. /\ PaleOn(u, w, b, ROOT, s) /\ PaleOn(u, w, b, ROOT, o)
        /\ PaleOn(u, w, near, ROOT, s) /\ PaleOn(u, w, near, ROOT, o)
    BY <1>8, <1>11, <1>12 DEF PaleOn
  <2>2. QED
    BY <1>2, <1>8, <2>1, PaleSides, LoosePale
<1> DEFINE D == {b, near}
<1>15. Touched(t, Q, D, b, near, r, w, bh, bh2)
  BY <1>3, <1>7, <1>8, <1>9 DEF Touched
<1>16. ASSUME NEW n \in Q, n # b, n # near, NEW q \in Sides
       PROVE  Kept(t, u, b, r, w, bh, bh2, n, q)
  <2>1. n \notin D
    BY <1>16
  <2> HIDE DEF D
  <2>2. t[Other(o)][b] = near
    BY <1>2
  <2>3. QED
    BY <1>2, <1>3, <1>15, <2>1, <2>2, Elsewhere
<1>17. Hollow(u, bh2, w, x, p, s) /\ u[o][p] = near
  <2>1. Kept(t, u, b, r, w, bh, bh2, p, s) /\ Kept(t, u, b, r, w, bh, bh2, p, o)
    BY <1>2, <1>3, <1>16
  <2>2. u[s][p] = x
    BY <1>2, <1>3, <2>1 DEF Kept
  <2>3. LevelOn(u, w, bh2, p, o)
    BY <2>1 DEF Kept, Lacking, Hollow
  <2>4. bh2[p] + w[p] = bh2[x] + 2
    BY <1>12 DEF Lacking, Hollow
  <2>5. u[o][p] = near
    BY <1>2, <1>3, RotateAway
  <2>6. u.parent[x] = p
    <3>1. Children(u, Q, p, x, near)
      BY <1>2, <1>3, <2>2, <2>5, ChildrenOf
    <3>2. CASE x # NIL
      BY <3>1, <3>2 DEF Children
    <3>3. CASE x = NIL
      <4>1. x \in Addresses /\ x # near /\ x # b /\ t.parent[x] = p
        BY <1>1 , <1>3 DEF Sibling
      <4>2. u.parent[x] = t.parent[x]
        BY <1>2, <3>3, <4>1 DEF RotatedAt
      <4>3. QED
        BY <4>1, <4>2
    <3>4. QED
      BY <3>2, <3>3
  <2>7. QED
    BY <2>2, <2>3, <2>4, <2>5, <2>6 DEF Hollow
<1>18. ASSUME NEW n \in Q, n # b, n # near
       PROVE  (n # p => Level(u, w, bh2, n)) /\ Loose(u, w, n, x)
  <2>1. (n # p => Level(t, r, bh, n)) /\ Pale(t, r, n, ROOT)
    BY <1>6
  <2>2. ASSUME NEW q \in Sides
        PROVE  (n # p => LevelOn(u, w, bh2, n, q)) /\ PaleOn(u, w, n, ROOT, q)
    <3>1. (n # p => LevelOn(t, r, bh, n, q)) /\ PaleOn(t, r, n, ROOT, q)
      BY <2>1 DEF Level, LevelOn, Pale, PaleOn
    <3>2. Kept(t, u, b, r, w, bh, bh2, n, q)
      BY <1>16, <1>18
    <3>3. QED
      BY <3>1, <3>2 DEF Kept
  <2>3. (n # p => Level(u, w, bh2, n)) /\ Pale(u, w, n, ROOT)
    BY <1>2, <2>2, LevelSides, PaleSides
  <2>4. QED
    BY <1>8, <2>3, LoosePale
<1>19. u.left[ROOT] = t.left[ROOT] /\ w[u.left[ROOT]] = 0
  <2>1. t.left[ROOT] # b /\ t.left[ROOT] # near /\ t.left[ROOT] \in Q \cup {NIL}
    BY <1>3 DEF Kin
  <2>2. u.left[ROOT] = t.left[ROOT]
    BY <1>2, <1>3, <2>1, RotateTop
  <2>3. r[t.left[ROOT]] = 0
    BY DEF Lacking
  <2>4. QED
    BY <1>8, <2>1, <2>2, <2>3
<1>20. Lacking(u, w, Q, bh2, x, p, s)
  BY <1>2, <1>3, <1>8, <1>9, <1>13, <1>14, <1>17, <1>18, <1>19 DEF Lacking
<1>21. QED
  BY <1>8, <1>11, <1>12, <1>17, <1>19, <1>20

(* The sibling b takes over its parent's colour. *)
Borrowed(r, w, p, b, far) ==
  \A m \in Addresses : w[m] = IF m = far \/ m = p THEN 0
                              ELSE IF m = b THEN r[p] ELSE r[m]

(* A red far child of a black sibling makes up for what is lacking. *)
LEMMA RedFar ==
  ASSUME NEW t, NEW Q, Kin(t, Q), NEW bh, NEW x, NEW r, NEW p, NEW s, NEW o,
         Lacking(t, r, Q, bh, x, p, s), r[x] = 0, o = Other(s),
         NEW b, NEW near, NEW far, Nephews(t, p, b, near, far, s, o),
         r[b] = 0, r[far] = 1,
         NEW u, Kin(u, Q), RotatedAt(t, u, p, s),
         NEW w \in [Addresses -> {0, 1}], Borrowed(r, w, p, b, far)
  PROVE  /\ \E bh2 : Coloured(u, w, Q, bh2)
         /\ w[p] = 0 /\ w[t.left[ROOT]] = 0
<1> DEFINE bh2 == [bh EXCEPT ![p] = bh[x] + 1, ![far] = bh[x] + 1, ![b] = bh[p]]
           a == t[s][far]
           c == t[o][far]
<1>1. Sibling(t, r, Q, bh, x, p, b, near, far)
  BY LackingSibling
<1>2. s \in Sides /\ o \in Sides /\ t[o][p] = b /\ t[s][b] = near /\ t[o][b] = far
      /\ t[s][p] = x /\ s = Other(o)
  BY TwoSides DEF Lacking, Nephews, Hollow
<1>3. /\ p \in Q /\ b \in Q /\ p # b /\ p # NIL /\ b # NIL /\ ROOT \notin Q
      /\ t.parent[b] = p /\ t.parent[far] = b
      /\ bh[p] \in Nat \ {0} /\ bh[b] \in Nat /\ bh[x] \in Nat \ {0}
      /\ near # p /\ near # b /\ far # p /\ far # b /\ x # p /\ x # b
      /\ near # far /\ far # x
      /\ far \in Q /\ near \in Q \cup {NIL} /\ x \in Q \cup {NIL} /\ far # NIL
      /\ bh[near] \in Nat /\ bh[far] \in Nat /\ r[p] \in {0, 1}
      /\ \A m \in Q \cup {NIL} : m \in Addresses /\ bh[m] \in Nat /\ r[m] \in {0, 1}
      /\ r[NIL] = 0 /\ r[ROOT] = 0 /\ NIL \notin Q
  BY <1>1 DEF Sibling
<1>4. Children(t, Q, far, a, c)
  BY <1>2, <1>3, ChildrenOf
<1>5. a \in Q \cup {NIL} /\ c \in Q \cup {NIL} /\ a # far /\ c # far /\ a # b /\ c # b
  BY <1>3, <1>4 DEF Children
<1>6. ASSUME NEW n \in Q PROVE Pale(t, r, n, ROOT) /\ (n # p => Level(t, r, bh, n))
  BY LoosePale DEF Lacking
<1>7. bh[b] = bh[x] + 1 /\ bh[far] = bh[x] /\ bh[near] = bh[x]
      /\ bh[a] = bh[x] /\ bh[c] = bh[x] /\ r[a] = 0 /\ r[c] = 0
      /\ bh[p] + r[p] = bh[x] + 2
  <2>1. /\ bh[b] = bh[x] + 1 /\ bh[p] + r[p] = bh[x] + 2
        /\ bh[b] + r[b] = bh[near] + 1 /\ bh[b] + r[b] = bh[far] + 1
    BY <1>1 DEF Sibling
  <2>2. /\ LevelOn(t, r, bh, far, s) /\ LevelOn(t, r, bh, far, o)
        /\ PaleOn(t, r, far, ROOT, s) /\ PaleOn(t, r, far, ROOT, o)
    BY <1>2, <1>3, <1>6, LevelSides, PaleSides
  <2>3. bh[far] + 1 = bh[a] + 1 /\ bh[far] + 1 = bh[c] + 1
    BY <2>2 DEF LevelOn
  <2>4. r[a] = 0 /\ r[c] = 0
    BY <1>3, <2>2 DEF PaleOn
  <2> HIDE DEF a, c
  <2>5. bh[a] \in Nat /\ bh[c] \in Nat
    BY <1>3, <1>5
  <2>6. QED
    BY <1>3, <2>1, <2>3, <2>4, <2>5
<1>8. a # p /\ c # p
  <2>1. bh[p] # bh[x]
    BY <1>3, <1>7
  <2> HIDE DEF a, c
  <2>2. QED
    BY <1>7, <2>1
<1>9. /\ w[b] = r[p] /\ w[p] = 0 /\ w[far] = 0 /\ w[ROOT] = 0 /\ w[NIL] = 0
      /\ \A m \in Q \cup {NIL} : m # b /\ m # p /\ m # far => w[m] = r[m]
  <2>1. ROOT \in Addresses /\ NIL \in Addresses
    BY DEF Addresses
  <2>2. QED
    BY <1>3, <2>1 DEF Borrowed
<1>10. /\ Heights(Q, bh2)
      /\ bh2[p] = bh[x] + 1 /\ bh2[far] = bh[x] + 1 /\ bh2[b] = bh[p]
      /\ \A m \in Q \cup {NIL} : m # b /\ m # p /\ m # far => bh2[m] = bh[m]
  <2>1. Heights(Q, bh)
    BY DEF Lacking
  <2>2. QED
    BY <1>3, <2>1 DEF Heights
<1>11. Swung(t, u, p, b, s, o)
  BY <1>2, <1>3, RotateHere
<1>12. u[s][p] = x /\ u[o][p] = near /\ u[s][b] = p /\ u[o][b] = far
  BY <1>2, <1>11 DEF Swung
<1>13. u[s][far] = a /\ u[o][far] = c
  <2>1. far # p /\ far # b /\ t[o][p] = b
    BY <1>2, <1>3
  <2>2. u[s][far] = IF t[s][far] = p THEN b ELSE t[s][far]
    BY <1>2, <1>3, <2>1, RotateAway
  <2>3. u[o][far] = IF t[o][far] = p THEN b ELSE t[o][far]
    BY <1>2, <1>3, <2>1, RotateAway
  <2>4. QED
    BY <1>8, <2>2, <2>3
<1> HIDE DEF a, c, bh2
<1>14. /\ bh2[a] = bh[x] /\ bh2[c] = bh[x] /\ bh2[near] = bh[x] /\ bh2[x] = bh[x]
       /\ w[a] = 0 /\ w[c] = 0 /\ w[x] = 0
  BY <1>3, <1>5, <1>7, <1>8, <1>9, <1>10
<1>15. Level(u, w, bh2, b) /\ Level(u, w, bh2, p) /\ Level(u, w, bh2, far)
  <2>1. /\ bh2[p] + w[p] = bh2[x] + 1 /\ bh2[p] + w[p] = bh2[near] + 1
        /\ bh2[b] + w[b] = bh2[p] + 1 /\ bh2[b] + w[b] = bh2[far] + 1
        /\ bh2[far] + w[far] = bh2[a] + 1 /\ bh2[far] + w[far] = bh2[c] + 1
    BY <1>3, <1>7, <1>9, <1>10, <1>14
  <2>2. /\ LevelOn(u, w, bh2, b, s) /\ LevelOn(u, w, bh2, b, o)
        /\ LevelOn(u, w, bh2, p, s) /\ LevelOn(u, w, bh2, p, o)
        /\ LevelOn(u, w, bh2, far, s) /\ LevelOn(u, w, bh2, far, o)
    BY <1>12, <1>13, <2>1 DEF LevelOn
  <2>3. QED
    BY <1>2, <2>2, LevelSides
<1>16. Pale(u, w, b, ROOT) /\ Pale(u, w, p, ROOT) /\ Pale(u, w, far, ROOT)
  <2>1. /\ PaleOn(u, w, b, ROOT, s) /\ PaleOn(u, w, b, ROOT, o)
        /\ PaleOn(u, w, p, ROOT, s) /\ PaleOn(u, w, p, ROOT, o)
        /\ PaleOn(u, w, far, ROOT, s) /\ PaleOn(u, w, far, ROOT, o)
    BY <1>9, <1>12, <1>13, <1>14 DEF PaleOn
  <2>2. QED
    BY <1>2, <2>1, PaleSides
<1> DEFINE D == {p, b, far}
<1>17. Touched(t, Q, D, p, b, r, w, bh, bh2)
  BY <1>3, <1>9, <1>10 DEF Touched
<1>18. ASSUME NEW n \in Q, n # p, n # b, n # far
       PROVE  Level(u, w, bh2, n) /\ Pale(u, w, n, ROOT)
  <2>1. n \notin D
    BY <1>18
  <2> HIDE DEF D
  <2>2. ASSUME NEW q \in Sides
        PROVE  LevelOn(u, w, bh2, n, q) /\ PaleOn(u, w, n, ROOT, q)
    <3>1. t[Other(s)][p] = b
      BY <1>2
    <3>2. Kept(t, u, p, r, w, bh, bh2, n, q)
      BY <1>2, <1>3, <1>17, <2>1, <3>1, Elsewhere
    <3>3. LevelOn(t, r, bh, n, q) /\ PaleOn(t, r, n, ROOT, q)
      BY <1>6, <1>18 DEF Level, LevelOn, Pale, PaleOn
    <3>4. QED
      BY <3>2, <3>3 DEF Kept
  <2>3. QED
    BY <1>2, <2>2, LevelSides, PaleSides
<1>19. w[u.left[ROOT]] = 0 /\ w[t.left[ROOT]] = 0
  <2>1. t.left[ROOT] # b /\ t.left[ROOT] # far /\ t.left[ROOT] \in Q \cup {NIL}
    BY <1>3 DEF Kin
  <2>2. u.left[ROOT] = IF t.left[ROOT] = p THEN b ELSE t.left[ROOT]
    BY <1>2, <1>3, RotateTop
  <2>3. r[t.left[ROOT]] = 0
    BY DEF Lacking
  <2>4. QED
    BY <1>9, <2>1, <2>2, <2>3
<1>20. Coloured(u, w, Q, bh2)
  BY <1>9, <1>10, <1>15, <1>16, <1>18, <1>19 DEF Coloured
<1>21. QED
  BY <1>9, <1>19, <1>20

-----------------------------------------------------------------------------
(* Shapes: a node comes in.                                                *)

(* Where a shape is looked at. *)
SameLinks(t, u, Q) ==
  /\ \A n \in Q \cup {ROOT} : u.left[n] = t.left[n] /\ u.right[n] = t.right[n]
                              /\ u.parent[n] = t.parent[n]
  /\ u.left[NIL] = NIL /\ u.right[NIL] = NIL
  /\ u.red[NIL] = 0 /\ u.red[ROOT] = 0

(* A store to a field of something else leaves the shape alone.            *)
LEMMA SameShape ==
  ASSUME NEW t, NEW Q, NEW N, NEW pos, NEW lo, NEW hi,
         Shaped(t, Q, N, pos, lo, hi), NEW u \in Images, SameLinks(t, u, Q)
  PROVE  Shaped(u, Q, N, pos, lo, hi)
<1>1. ASSUME NEW n \in Q
      PROVE  Spans(u, Q, pos, lo, hi, n) /\ Hangs(u, Q, n)
  <2>1. Spans(t, Q, pos, lo, hi, n) /\ Hangs(t, Q, n)
    BY DEF Shaped
  <2>2. Spans(u, Q, pos, lo, hi, n)
    BY <2>1 DEF Spans, SameLinks
  <2>3. Hangs(u, Q, n)
    BY <2>1 DEF Hangs, SameLinks
  <2>4. QED
    BY <2>2, <2>3
<1>2. TopSpans(u, Q, N, lo, hi)
  BY DEF Shaped, TopSpans, SameLinks
<1>3. Sentinels(u)
  BY DEF Shaped, Sentinels, SameLinks
<1>4. QED
  BY <1>1, <1>2, <1>3 DEF Shaped

(* z becomes the child of y on side d, where there was none. *)
Hung(t, u, z, y, d) ==
  /\ \A n \in Addresses : \A q \in Sides :
       u[q][n] = IF n = z THEN NIL ELSE IF n = y /\ q = d THEN z ELSE t[q][n]
  /\ \A n \in Addresses : u.parent[n] = IF n = z THEN y ELSE t.parent[n]
  /\ u.red[NIL] = 0 /\ u.red[ROOT] = 0

(* The numbering with z as number k. *)
Opened(Q, pos, z, k) ==
  [n \in Q \cup {z} |-> IF n = z THEN k
                        ELSE IF pos[n] >= k THEN pos[n] + 1 ELSE pos[n]]

(* Opened is a numbering.                                                  *)
LEMMA OpenedNumbered ==
  ASSUME NEW Q, NEW N, NEW pos, Numbered(Q, N, pos),
         NEW z \in Uthreads, z \notin Q, NEW k \in 1..(N + 1)
  PROVE  Numbered(Q \cup {z}, N + 1, Opened(Q, pos, z, k))
<1> DEFINE pos2 == Opened(Q, pos, z, k)
<1>1. /\ pos2[z] = k
      /\ \A n \in Q : pos2[n] = IF pos[n] >= k THEN pos[n] + 1 ELSE pos[n]
  BY DEF Opened
<1>2. N \in Nat /\ \A n \in Q : pos[n] \in 1..N
  BY DEF Numbered
<1>3. pos2 \in [Q \cup {z} -> 1..(N + 1)]
  <2>1. ASSUME NEW n \in Q PROVE pos2[n] \in 1..(N + 1)
    BY <1>1, <1>2
  <2>2. pos2[z] \in 1..(N + 1)
    BY <1>1
  <2>3. QED
    BY <2>1, <2>2 DEF Opened
<1> HIDE DEF pos2
<1>4. ASSUME NEW m \in Q, NEW n \in Q, pos2[m] = pos2[n] PROVE m = n
  <2>1. pos[m] \in Int /\ pos[n] \in Int /\ k \in Int
    BY <1>2
  <2>2. pos[m] = pos[n]
    BY <1>1, <1>4, <2>1
  <2>3. QED
    BY <2>2 DEF Numbered
<1>5. ASSUME NEW m \in Q PROVE pos2[m] # k
  BY <1>1, <1>2
<1>6. ASSUME NEW i \in 1..(N + 1) PROVE \E n \in Q \cup {z} : pos2[n] = i
  <2>1. CASE i = k
    BY <1>1, <2>1
  <2>2. CASE i < k
    <3>1. i \in 1..N
      BY <2>2, <1>2
    <3>2. PICK n \in Q : pos[n] = i
      BY <3>1 DEF Numbered
    <3>3. pos2[n] = i
      BY <1>1, <2>2, <3>2
    <3>4. QED
      BY <3>3
  <2>3. CASE i > k
    <3>1. i - 1 \in 1..N
      BY <2>3, <1>2
    <3>2. PICK n \in Q : pos[n] = i - 1
      BY <3>1 DEF Numbered
    <3>3. pos2[n] = i
      BY <1>1, <2>3, <3>2
    <3>4. QED
      BY <3>3
  <2>4. QED
    BY <2>1, <2>2, <2>3
<1>7. Q \cup {z} \subseteq Uthreads /\ N + 1 \in Nat
  BY DEF Numbered
<1>8. \A m, n \in Q \cup {z} : pos2[m] = pos2[n] => m = n
  BY <1>1, <1>4, <1>5
<1>9. QED
  BY <1>3, <1>6, <1>7, <1>8 DEF Numbered, pos2

(* The first node of an empty tree becomes its top.                        *)
LEMMA HangFirst ==
  ASSUME NEW t, NEW Q, NEW N, NEW pos, NEW lo, NEW hi,
         Shaped(t, Q, N, pos, lo, hi), t.left[ROOT] = NIL,
         NEW z \in Uthreads, z \notin Q,
         NEW u \in Images, Hung(t, u, z, ROOT, "left")
  PROVE  N = 0 /\ \E lo2, hi2 : Shaped(u, Q \cup {z}, 1, Opened(Q, pos, z, 1), lo2, hi2)
<1> DEFINE pos2 == Opened(Q, pos, z, 1)
           one == [n \in Q \cup {z} |-> 1]
<1>1. N = 0
  BY DEF Shaped, TopSpans
<1>2. Q = {}
  BY <1>1 DEF Shaped, Numbered
<1>3. Numbered(Q, N, pos) /\ 1 \in 1..(N + 1)
  BY <1>1 DEF Shaped
<1>4. Numbered(Q \cup {z}, 1, pos2)
  BY <1>1, <1>3, OpenedNumbered
<1>5. z \in Addresses /\ ROOT \in Addresses /\ NIL \in Addresses /\ z # ROOT /\ z # NIL /\ ROOT # NIL
      /\ "left" \in Sides /\ "right" \in Sides
  BY TreeAssumption DEF Addresses, Sides
<1>6. Sentinels(t)
  BY DEF Shaped
<1>7. /\ u["left"][z] = NIL /\ u["right"][z] = NIL /\ u["left"][ROOT] = z /\ u["right"][ROOT] = t["right"][ROOT]
      /\ u["left"][NIL] = t["left"][NIL] /\ u["right"][NIL] = t["right"][NIL]
      /\ u.parent[z] = ROOT /\ u.parent[ROOT] = t.parent[ROOT]
  BY <1>5 DEF Hung
<1>8. pos2[z] = 1 /\ one[z] = 1
  BY DEF Opened
<1>9. Spans(u, Q \cup {z}, pos2, one, one, z) /\ Hangs(u, Q \cup {z}, z)
  BY <1>7, <1>8 DEF Spans, Hangs
<1>10. Spanned(Q \cup {z}, 1, one, one)
  BY DEF Spanned
<1>11. TopSpans(u, Q \cup {z}, 1, one, one)
  BY <1>5, <1>7, <1>8 DEF TopSpans
<1>12. Sentinels(u)
  BY <1>5, <1>6, <1>7 DEF Sentinels, Hung
<1> HIDE DEF pos2, one
<1>13. Shaped(u, Q \cup {z}, 1, pos2, one, one)
  BY <1>2, <1>4, <1>9, <1>10, <1>11, <1>12 DEF Shaped
<1>14. QED
  BY <1>1, <1>13 DEF pos2

(* A new child of y comes just before or just after it in the order, and   *)
(* nobody else changes places.                                             *)
LEMMA HangBelow ==
  ASSUME NEW t, NEW Q, NEW N, NEW pos, NEW lo, NEW hi,
         Shaped(t, Q, N, pos, lo, hi),
         NEW z \in Uthreads, z \notin Q, NEW y \in Q, NEW d \in Sides,
         t[d][y] = NIL, NEW u \in Images, Hung(t, u, z, y, d),
         NEW k, k = IF d = "left" THEN pos[y] ELSE pos[y] + 1
  PROVE  /\ k \in 1..(N + 1)
         /\ \E lo2, hi2 : Shaped(u, Q \cup {z}, N + 1, Opened(Q, pos, z, k), lo2, hi2)
<1> DEFINE Q2 == Q \cup {z}
           j == pos[y]
           pos2 == Opened(Q, pos, z, k)
           lo2 == [n \in Q2 |-> IF n = z THEN k ELSE IF lo[n] > j THEN lo[n] + 1 ELSE lo[n]]
           hi2 == [n \in Q2 |-> IF n = z THEN k ELSE IF hi[n] >= j THEN hi[n] + 1 ELSE hi[n]]
<1>1. /\ Numbered(Q, N, pos) /\ N \in Nat /\ j \in 1..N
      /\ \A n \in Q : pos[n] \in 1..N /\ lo[n] \in 1..N /\ hi[n] \in 1..N
  BY DEF Shaped, Numbered, Spanned
<1>2. k \in 1..(N + 1) /\ k \in {j, j + 1} /\ (d = "left" <=> k = j)
  BY <1>1
<1>3. Numbered(Q2, N + 1, pos2)
  BY <1>1, <1>2, OpenedNumbered
<1>4. /\ Q \subseteq Addresses /\ NIL \notin Q /\ ROOT \notin Q /\ ROOT # NIL /\ z # y
      /\ ROOT \in Addresses /\ NIL \in Addresses /\ z \in Addresses /\ z # NIL /\ z # ROOT
      /\ "left" \in Sides /\ "right" \in Sides
  BY TreeAssumption DEF Shaped, Numbered, Addresses, Sides
<1>5. /\ pos2[z] = k /\ lo2[z] = k /\ hi2[z] = k
      /\ \A n \in Q : /\ pos2[n] = IF pos[n] >= k THEN pos[n] + 1 ELSE pos[n]
                      /\ lo2[n] = IF lo[n] > j THEN lo[n] + 1 ELSE lo[n]
                      /\ hi2[n] = IF hi[n] >= j THEN hi[n] + 1 ELSE hi[n]
  BY DEF Opened
<1>6. Spanned(Q2, N + 1, lo2, hi2)
  <2>1. \A n \in Q2 : lo2[n] \in 1..(N + 1) /\ hi2[n] \in 1..(N + 1)
    BY <1>1, <1>2, <1>5
  <2>2. QED
    BY <2>1 DEF Spanned
<1> HIDE DEF pos2, lo2, hi2
<1>7. /\ \A n \in Addresses : u.left[n] = IF n = z THEN NIL
                                ELSE IF n = y /\ d = "left" THEN z ELSE t.left[n]
      /\ \A n \in Addresses : u.right[n] = IF n = z THEN NIL
                                ELSE IF n = y /\ d # "left" THEN z ELSE t.right[n]
      /\ \A n \in Addresses : u.parent[n] = IF n = z THEN y ELSE t.parent[n]
  BY <1>4 DEF Hung, Sides
<1>8. Spans(u, Q2, pos2, lo2, hi2, z) /\ Hangs(u, Q2, z)
  <2>1. u.left[z] = NIL /\ u.right[z] = NIL /\ u.parent[z] = y
    BY <1>4, <1>7
  <2>2. u.left[y] = z \/ u.right[y] = z
    BY <1>4, <1>7
  <2>3. k \in Nat
    BY <1>2
  <2>4. QED
    BY <1>5, <2>1, <2>2, <2>3 DEF Spans, Hangs
<1>9. ASSUME NEW n \in Q PROVE Spans(u, Q2, pos2, lo2, hi2, n)
  <2> DEFINE a == t.left[n]
             b == t.right[n]
  <2>1. Spans(t, Q, pos, lo, hi, n) /\ n \in Addresses /\ n # z
    BY <1>4 DEF Shaped
  <2>2. /\ pos[n] \in 1..N /\ lo[n] \in 1..N /\ hi[n] \in 1..N
        /\ lo[n] <= pos[n] /\ pos[n] <= hi[n] /\ (pos[n] = j => n = y)
    BY <1>1, <2>1 DEF Spans, Numbered
  <2>3. /\ pos2[n] = IF pos[n] >= k THEN pos[n] + 1 ELSE pos[n]
        /\ lo2[n] = IF lo[n] > j THEN lo[n] + 1 ELSE lo[n]
        /\ hi2[n] = IF hi[n] >= j THEN hi[n] + 1 ELSE hi[n]
    BY <1>5
  <2>4. /\ pos2[n] \in Nat /\ lo2[n] \in Nat /\ hi2[n] \in Nat
        /\ lo2[n] <= pos2[n] /\ pos2[n] <= hi2[n]
    BY <1>1, <1>2, <2>2, <2>3
  <2>5. /\ a = NIL \/ (a \in Q /\ a \in Addresses /\ a # z)
        /\ b = NIL \/ (b \in Q /\ b \in Addresses /\ b # z)
    BY <1>4, <2>1 DEF Spans
  <2>6. \/ u.left[n] = NIL /\ lo2[n] = pos2[n]
        \/ /\ u.left[n] \in Q2 /\ u.parent[u.left[n]] = n
           /\ lo2[u.left[n]] = lo2[n] /\ hi2[u.left[n]] = pos2[n] - 1
    <3>1. CASE n = y /\ d = "left"
      <4>1. u.left[n] = z /\ u.parent[z] = n /\ a = NIL
        BY <1>4, <1>7, <2>1, <3>1
      <4>2. lo[n] = pos[n]
        BY <1>4, <2>1, <4>1 DEF Spans
      <4>3. lo2[n] = k /\ pos2[n] = k + 1
        BY <1>1, <1>2, <2>2, <2>3, <3>1, <4>2
      <4>4. QED
        BY <1>2, <1>5, <4>1, <4>3
    <3>2. CASE ~(n = y /\ d = "left")
      <4>1. u.left[n] = a
        BY <1>7, <2>1, <3>2
      <4>2. CASE a = NIL
        <5>1. lo[n] = pos[n]
          BY <1>4, <2>1, <4>2 DEF Spans
        <5>2. QED
          BY <1>1, <1>2, <2>2, <2>3, <3>2, <4>1, <4>2, <5>1
      <4>3. CASE a # NIL
        <5>1. u.parent[a] = n /\ lo[a] = lo[n] /\ hi[a] = pos[n] - 1
          BY <1>7, <2>1, <2>5, <4>3 DEF Spans
        <5>2. /\ lo2[a] = IF lo[a] > j THEN lo[a] + 1 ELSE lo[a]
              /\ hi2[a] = IF hi[a] >= j THEN hi[a] + 1 ELSE hi[a]
          BY <1>5, <2>5, <4>3
        <5> HIDE DEF a, b
        <5>3. lo2[a] = lo2[n] /\ hi2[a] = pos2[n] - 1
          BY <1>1, <1>2, <2>2, <2>3, <3>2, <5>1, <5>2
        <5>4. QED
          BY <2>5, <4>1, <4>3, <5>1, <5>3
      <4>4. QED
        BY <4>2, <4>3
    <3>3. QED
      BY <3>1, <3>2
  <2>7. \/ u.right[n] = NIL /\ hi2[n] = pos2[n]
        \/ /\ u.right[n] \in Q2 /\ u.parent[u.right[n]] = n
           /\ lo2[u.right[n]] = pos2[n] + 1 /\ hi2[u.right[n]] = hi2[n]
    <3>1. CASE n = y /\ d # "left"
      <4>1. u.right[n] = z /\ u.parent[z] = n /\ b = NIL
        BY <1>4, <1>7, <2>1, <3>1 DEF Sides
      <4>2. hi[n] = pos[n]
        BY <1>4, <2>1, <4>1 DEF Spans
      <4>3. hi2[n] = k /\ pos2[n] = k - 1
        BY <1>1, <1>2, <2>2, <2>3, <3>1, <4>2
      <4>4. QED
        BY <1>2, <1>5, <4>1, <4>3
    <3>2. CASE ~(n = y /\ d # "left")
      <4>1. u.right[n] = b
        BY <1>7, <2>1, <3>2
      <4>2. CASE b = NIL
        <5>1. hi[n] = pos[n]
          BY <1>4, <2>1, <4>2 DEF Spans
        <5>2. QED
          BY <1>1, <1>2, <2>2, <2>3, <3>2, <4>1, <4>2, <5>1
      <4>3. CASE b # NIL
        <5>1. u.parent[b] = n /\ lo[b] = pos[n] + 1 /\ hi[b] = hi[n]
          BY <1>7, <2>1, <2>5, <4>3 DEF Spans
        <5>2. /\ lo2[b] = IF lo[b] > j THEN lo[b] + 1 ELSE lo[b]
              /\ hi2[b] = IF hi[b] >= j THEN hi[b] + 1 ELSE hi[b]
          BY <1>5, <2>5, <4>3
        <5> HIDE DEF a, b
        <5>3. lo2[b] = pos2[n] + 1 /\ hi2[b] = hi2[n]
          BY <1>1, <1>2, <2>2, <2>3, <3>2, <5>1, <5>2
        <5>4. QED
          BY <2>5, <4>1, <4>3, <5>1, <5>3
      <4>4. QED
        BY <4>2, <4>3
    <3>3. QED
      BY <3>1, <3>2
  <2>8. QED
    BY <2>4, <2>6, <2>7 DEF Spans
<1>10. ASSUME NEW n \in Q PROVE Hangs(u, Q2, n)
  <2>1. Hangs(t, Q, n) /\ n \in Addresses /\ n # z /\ n # NIL
    BY <1>4 DEF Shaped
  <2>2. u.parent[n] = t.parent[n]
    BY <1>7, <2>1
  <2>3. t.left[y] = n => d # "left"
    BY <2>1
  <2>4. t.right[y] = n => d = "left"
    BY <2>1 DEF Sides
  <2>5. CASE t.parent[n] = ROOT
    <3>1. u.left[ROOT] = t.left[ROOT]
      BY <1>4, <1>7
    <3>2. QED
      BY <1>4, <2>1, <2>2, <2>5, <3>1 DEF Hangs
  <2>6. CASE t.parent[n] # ROOT
    <3> DEFINE q == t.parent[n]
    <3>1. q \in Q /\ q \in Addresses /\ q # z /\ n \in {t.left[q], t.right[q]}
      BY <1>4, <2>1, <2>6 DEF Hangs
    <3>2. n \in {u.left[q], u.right[q]}
      BY <1>7, <2>3, <2>4, <3>1
    <3>3. QED
      BY <2>2, <3>1, <3>2 DEF Hangs
  <2>7. QED
    BY <2>5, <2>6
<1>11. TopSpans(u, Q2, N + 1, lo2, hi2)
  <2> DEFINE c == t.left[ROOT]
  <2>1. TopSpans(t, Q, N, lo, hi)
    BY DEF Shaped
  <2>2. c # NIL
    BY <1>1, <2>1 DEF TopSpans
  <2>3. c \in Q /\ t.parent[c] = ROOT /\ lo[c] = 1 /\ hi[c] = N
    BY <2>1, <2>2 DEF TopSpans
  <2>4. u.left[ROOT] = c /\ u.parent[c] = ROOT
    BY <1>4, <1>7, <2>3
  <2>5. lo2[c] = 1 /\ hi2[c] = N + 1
    <3>1. /\ lo2[c] = IF lo[c] > j THEN lo[c] + 1 ELSE lo[c]
          /\ hi2[c] = IF hi[c] >= j THEN hi[c] + 1 ELSE hi[c]
      BY <1>5, <2>3
    <3> HIDE DEF c
    <3>2. QED
      BY <1>1, <2>3, <3>1
  <2>6. QED
    BY <2>2, <2>3, <2>4, <2>5 DEF TopSpans
<1>12. Sentinels(u)
  <2>1. Sentinels(t)
    BY DEF Shaped
  <2>2. QED
    BY <1>4, <1>7, <2>1 DEF Sentinels, Hung
<1>13. Shaped(u, Q2, N + 1, pos2, lo2, hi2)
  <2> HIDE DEF Q2
  <2>1. \A n \in Q2 : Spans(u, Q2, pos2, lo2, hi2, n) /\ Hangs(u, Q2, n)
    BY <1>8, <1>9, <1>10 DEF Q2
  <2>2. QED
    BY <1>3, <1>6, <1>11, <1>12, <2>1 DEF Shaped
<1>14. QED
  BY <1>2, <1>13 DEF pos2

-----------------------------------------------------------------------------
(* A node goes.                                                            *)

(* x takes the place of y below y's parent. *)
Unhung(t, u, y, x) ==
  LET p == t.parent[y] IN
  /\ \A n \in Addresses : \A q \in Sides :
       u[q][n] = IF n = p /\ (q = "left" <=> t.left[p] = y) THEN x ELSE t[q][n]
  /\ \A n \in Addresses : u.parent[n] = IF n = x THEN p ELSE t.parent[n]
  /\ u.red = t.red

(* y has no child but, perhaps, x. *)
OnlyChild(t, y, x) ==
  \/ t.left[y] = NIL /\ t.right[y] = x
  \/ t.left[y] = x /\ t.right[y] = NIL

(* The numbering without y. *)
Closed(Q, pos, y) ==
  [n \in Q \ {y} |-> IF pos[n] > pos[y] THEN pos[n] - 1 ELSE pos[n]]

(* Closed is a numbering.                                                  *)
LEMMA ClosedNumbered ==
  ASSUME NEW Q, NEW N, NEW pos, Numbered(Q, N, pos), NEW y \in Q
  PROVE  N - 1 \in Nat /\ Numbered(Q \ {y}, N - 1, Closed(Q, pos, y))
<1> DEFINE pos2 == Closed(Q, pos, y)
           j == pos[y]
           Q2 == Q \ {y}
<1>1. \A n \in Q2 : pos2[n] = IF pos[n] > j THEN pos[n] - 1 ELSE pos[n]
  BY DEF Closed
<1>2. N \in Nat /\ j \in 1..N /\ \A n \in Q : pos[n] \in 1..N
  BY DEF Numbered
<1>3. \A n \in Q2 : pos[n] # j
  BY DEF Numbered
<1>4. pos2 \in [Q2 -> 1..(N - 1)]
  <2>1. ASSUME NEW n \in Q2 PROVE pos2[n] \in 1..(N - 1)
    BY <1>1, <1>2, <1>3
  <2>2. QED
    BY <2>1 DEF Closed
<1> HIDE DEF pos2, j
<1>5. ASSUME NEW m \in Q2, NEW n \in Q2, pos2[m] = pos2[n] PROVE m = n
  <2>1. pos[m] \in Int /\ pos[n] \in Int /\ j \in Int /\ pos[m] # j /\ pos[n] # j
    BY <1>2, <1>3
  <2>2. pos[m] = pos[n]
    BY <1>1, <1>5, <2>1
  <2>3. QED
    BY <2>2 DEF Numbered
<1>6. ASSUME NEW i \in 1..(N - 1) PROVE \E n \in Q2 : pos2[n] = i
  <2>1. CASE i < j
    <3>1. i \in 1..N
      BY <1>2
    <3>2. PICK n \in Q : pos[n] = i
      BY <3>1 DEF Numbered
    <3>3. n \in Q2
      BY <1>2, <2>1, <3>2 DEF j
    <3>4. pos2[n] = i
      BY <1>1, <1>2, <2>1, <3>2, <3>3
    <3>5. QED
      BY <3>3, <3>4
  <2>2. CASE i >= j
    <3>1. i + 1 \in 1..N
      BY <1>2
    <3>2. PICK n \in Q : pos[n] = i + 1
      BY <3>1 DEF Numbered
    <3>3. n \in Q2
      BY <1>2, <2>2, <3>2 DEF j
    <3>4. pos2[n] = i
      BY <1>1, <1>2, <2>2, <3>2, <3>3
    <3>5. QED
      BY <3>3, <3>4
  <2>3. QED
    BY <1>2, <2>1, <2>2
<1>7. Q2 \subseteq Uthreads /\ N - 1 \in Nat
  BY <1>2 DEF Numbered
<1>8. QED
  BY <1>4, <1>5, <1>6, <1>7 DEF Numbered, pos2

(* Taking out a node with one child, or none, leaves a tree with the       *)
(* others in the same order.                                               *)
LEMMA UnhangShape ==
  ASSUME NEW t, NEW Q, NEW N, NEW pos, NEW lo, NEW hi,
         Shaped(t, Q, N, pos, lo, hi), NEW y \in Q, NEW x, OnlyChild(t, y, x),
         NEW u \in Images, Unhung(t, u, y, x)
  PROVE  \E lo2, hi2 : Shaped(u, Q \ {y}, N - 1, Closed(Q, pos, y), lo2, hi2)
<1> DEFINE Q2 == Q \ {y}
           j == pos[y]
           p == t.parent[y]
           pos2 == Closed(Q, pos, y)
           lo2 == [n \in Q2 |-> IF lo[n] > j THEN lo[n] - 1 ELSE lo[n]]
           hi2 == [n \in Q2 |-> IF hi[n] >= j THEN hi[n] - 1 ELSE hi[n]]
<1>1. /\ Numbered(Q, N, pos) /\ N \in Nat /\ j \in 1..N
      /\ \A n \in Q : pos[n] \in 1..N /\ lo[n] \in 1..N /\ hi[n] \in 1..N
  BY DEF Shaped, Numbered, Spanned
<1>2. Numbered(Q2, N - 1, pos2) /\ N - 1 \in Nat
  BY <1>1, ClosedNumbered
<1>3. /\ Q \subseteq Addresses /\ NIL \notin Q /\ ROOT \notin Q /\ ROOT # NIL
      /\ ROOT \in Addresses /\ NIL \in Addresses /\ y # NIL /\ y # ROOT
      /\ "left" \in Sides /\ "right" \in Sides
  BY TreeAssumption DEF Shaped, Numbered, Addresses, Sides
<1>4. \A n \in Q2 : /\ pos2[n] = IF pos[n] > j THEN pos[n] - 1 ELSE pos[n]
                    /\ lo2[n] = IF lo[n] > j THEN lo[n] - 1 ELSE lo[n]
                    /\ hi2[n] = IF hi[n] >= j THEN hi[n] - 1 ELSE hi[n]
  BY DEF Closed
<1>5. ASSUME NEW n \in Q
      PROVE  Spans(t, Q, pos, lo, hi, n) /\ Hangs(t, Q, n) /\ n \in Addresses
             /\ lo[n] <= pos[n] /\ pos[n] <= hi[n] /\ (n # y => pos[n] # j)
  <2>1. Spans(t, Q, pos, lo, hi, n) /\ Hangs(t, Q, n) /\ n \in Addresses
    BY <1>3 DEF Shaped
  <2>2. n # y => pos[n] # j
    BY <1>1 DEF Numbered
  <2>3. QED
    BY <2>1, <2>2 DEF Spans
<1>6. Spanned(Q2, N - 1, lo2, hi2)
  <2>1. ASSUME NEW n \in Q2 PROVE lo2[n] \in 1..(N - 1) /\ hi2[n] \in 1..(N - 1)
    <3>1. /\ pos[n] \in 1..N /\ lo[n] \in 1..N /\ hi[n] \in 1..N
          /\ lo[n] <= pos[n] /\ pos[n] <= hi[n] /\ pos[n] # j
      BY <1>1, <1>5
    <3> HIDE DEF lo2, hi2
    <3>2. QED
      BY <1>1, <1>4, <3>1
  <2>2. QED
    BY <2>1 DEF Spanned
<1> HIDE DEF pos2, lo2, hi2
<1>7. x = NIL \/ (x \in Q2 /\ t.parent[x] = y)
  <2>1. Kin(t, Q)
    BY ShapeKin
  <2>2. x = t["left"][y] \/ x = t["right"][y]
    BY DEF OnlyChild
  <2>3. QED
    BY <1>3, <2>1, <2>2, Below
<1>8. \/ p = ROOT /\ t.left[ROOT] = y
      \/ p \in Q2 /\ y \in {t.left[p], t.right[p]}
  <2>1. Kin(t, Q)
    BY ShapeKin
  <2>2. p # y
    BY <2>1, Above
  <2>3. QED
    BY <1>3, <1>5, <2>2 DEF Hangs
<1>9. /\ \A n \in Addresses : u.left[n] = IF n = p /\ t.left[p] = y THEN x ELSE t.left[n]
      /\ \A n \in Addresses : u.right[n] = IF n = p /\ t.left[p] # y THEN x ELSE t.right[n]
      /\ \A n \in Addresses : u.parent[n] = IF n = x THEN p ELSE t.parent[n]
  BY <1>3 DEF Unhung, Sides
<1>10. /\ lo[y] \in 1..N /\ hi[y] \in 1..N
       /\ \/ x = NIL /\ lo[y] = j /\ hi[y] = j
          \/ /\ x \in Q2 /\ lo[x] \in 1..N /\ hi[x] \in 1..N /\ lo[x] <= hi[x]
             /\ \/ lo[y] = lo[x] /\ hi[x] = j - 1 /\ hi[y] = j
                \/ lo[y] = j /\ lo[x] = j + 1 /\ hi[y] = hi[x]
  <2>1. Spans(t, Q, pos, lo, hi, y)
    BY <1>5
  <2>2. x \in Q => /\ lo[x] \in 1..N /\ hi[x] \in 1..N /\ pos[x] \in 1..N
                   /\ lo[x] <= pos[x] /\ pos[x] <= hi[x]
    BY <1>1, <1>5
  <2>3. lo[y] \in 1..N /\ hi[y] \in 1..N
    BY <1>1
  <2>4. CASE x = NIL
    <3>1. t.left[y] = NIL /\ t.right[y] = NIL
      BY <2>4 DEF OnlyChild
    <3>2. QED
      BY <1>3, <2>1, <2>3, <2>4, <3>1 DEF Spans
  <2>5. CASE x # NIL
    <3>1. x \in Q2 /\ x # NIL
      BY <1>7, <2>5
    <3>2. \/ t.left[y] = NIL /\ t.right[y] = x
          \/ t.left[y] = x /\ t.right[y] = NIL
      BY DEF OnlyChild
    <3>3. CASE t.left[y] = NIL /\ t.right[y] = x
      <4>1. lo[y] = j /\ lo[x] = j + 1 /\ hi[y] = hi[x]
        BY <1>3, <2>1, <3>1, <3>3 DEF Spans
      <4>2. QED
        BY <2>2, <2>3, <3>1, <4>1
    <3>4. CASE t.left[y] = x /\ t.right[y] = NIL
      <4>1. lo[y] = lo[x] /\ hi[x] = j - 1 /\ hi[y] = j
        BY <1>3, <2>1, <3>1, <3>4 DEF Spans
      <4>2. QED
        BY <2>2, <2>3, <3>1, <4>1
    <3>5. QED
      BY <3>2, <3>3, <3>4
  <2>6. QED
    BY <2>4, <2>5
<1> DEFINE Lo(m) == IF lo[m] > j THEN lo[m] - 1 ELSE lo[m]
           Hi(m) == IF hi[m] >= j THEN hi[m] - 1 ELSE hi[m]
<1>11. ASSUME NEW n \in Q2 PROVE Spans(u, Q2, pos2, lo2, hi2, n)
  <2> DEFINE a == t.left[n]
             b == t.right[n]
  <2>1. Spans(t, Q, pos, lo, hi, n) /\ n \in Addresses /\ n # y
    BY <1>5
  <2>2. /\ pos[n] \in 1..N /\ lo[n] \in 1..N /\ hi[n] \in 1..N
        /\ lo[n] <= pos[n] /\ pos[n] <= hi[n] /\ pos[n] # j
    BY <1>1, <1>5
  <2>3. /\ pos2[n] = IF pos[n] > j THEN pos[n] - 1 ELSE pos[n]
        /\ lo2[n] = IF lo[n] > j THEN lo[n] - 1 ELSE lo[n]
        /\ hi2[n] = IF hi[n] >= j THEN hi[n] - 1 ELSE hi[n]
    BY <1>4
  <2>4. /\ pos2[n] \in Nat /\ lo2[n] \in Nat /\ hi2[n] \in Nat
        /\ lo2[n] <= pos2[n] /\ pos2[n] <= hi2[n]
    BY <1>1, <2>2, <2>3
  <2>5. /\ a = NIL \/ (a \in Q /\ a \in Addresses /\ t.parent[a] = n /\ a # x)
        /\ b = NIL \/ (b \in Q /\ b \in Addresses /\ t.parent[b] = n /\ b # x)
        /\ a = y => n = p
        /\ b = y => n = p /\ t.left[n] # y
        /\ n = p => a = y \/ b = y
    <3>1. Kin(t, Q) /\ n \in Q
      BY ShapeKin
    <3>2. /\ a = NIL \/ (a \in Q /\ t.parent[a] = n)
          /\ b = NIL \/ (b \in Q /\ t.parent[b] = n)
          /\ b # NIL => b # a
      <4>1. a = t["left"][n] /\ b = t["right"][n] /\ Other("right") = "left"
        BY DEF Other
      <4>2. QED
        BY <1>3, <3>1, <4>1, Below
    <3>3. n = p => a = y \/ b = y
      BY <1>8
    <3> HIDE DEF a, b
    <3>4. a \in Q => a \in Addresses /\ a # x
      BY <1>3, <1>7, <3>2, <2>1
    <3>5. b \in Q => b \in Addresses /\ b # x
      BY <1>3, <1>7, <3>2, <2>1
    <3>6. QED
      BY <1>3, <3>2, <3>3, <3>4, <3>5 DEF a, b
  <2>6. x \in Q2 => /\ lo2[x] = IF lo[x] > j THEN lo[x] - 1 ELSE lo[x]
                    /\ hi2[x] = IF hi[x] >= j THEN hi[x] - 1 ELSE hi[x]
    BY <1>4
  <2>7. n = p => (x \in Q2 => u.parent[x] = n)
    BY <1>3, <1>9
  <2>8. \/ u.left[n] = NIL /\ lo2[n] = pos2[n]
        \/ /\ u.left[n] \in Q2 /\ u.parent[u.left[n]] = n
           /\ lo2[u.left[n]] = lo2[n] /\ hi2[u.left[n]] = pos2[n] - 1
    <3>1. CASE a = y
      <4>1. u.left[n] = x /\ n = p
        BY <1>9, <2>1, <2>5, <3>1
      <4>2. lo[y] = lo[n] /\ hi[y] = pos[n] - 1
        BY <1>3, <2>1, <3>1 DEF Spans
      <4> HIDE DEF a, b, p
      <4>3. CASE x = NIL
        BY <1>1, <1>3, <1>10, <2>2, <2>3, <4>1, <4>2, <4>3
      <4>4. CASE x # NIL
        <5>1. x \in Q2
          BY <1>7, <4>4
        <5>2. lo2[x] = lo2[n] /\ hi2[x] = pos2[n] - 1
          BY <1>1, <1>10, <2>2, <2>3, <2>6, <4>2, <4>4, <5>1
        <5>3. QED
          BY <2>7, <4>1, <5>1, <5>2
      <4>5. QED
        BY <4>3, <4>4
    <3>2. CASE a # y
      <4>1. u.left[n] = a
        BY <1>9, <2>1, <3>2
      <4>2. CASE a = NIL
        <5>1. lo[n] = pos[n]
          BY <1>3, <2>1, <4>2 DEF Spans
        <5>2. QED
          BY <1>1, <2>2, <2>3, <4>1, <4>2, <5>1
      <4>3. CASE a # NIL
        <5>1. u.parent[a] = n /\ lo[a] = lo[n] /\ hi[a] = pos[n] - 1 /\ a \in Q2
          BY <1>9, <2>1, <2>5, <3>2, <4>3 DEF Spans
        <5>2. /\ lo2[a] = IF lo[a] > j THEN lo[a] - 1 ELSE lo[a]
              /\ hi2[a] = IF hi[a] >= j THEN hi[a] - 1 ELSE hi[a]
          BY <1>4, <5>1
        <5> HIDE DEF a, b
        <5>3. lo2[a] = lo2[n] /\ hi2[a] = pos2[n] - 1
          BY <1>1, <2>2, <2>3, <5>1, <5>2
        <5>4. QED
          BY <4>1, <5>1, <5>3
      <4>4. QED
        BY <4>2, <4>3
    <3>3. QED
      BY <3>1, <3>2
  <2>9. \/ u.right[n] = NIL /\ hi2[n] = pos2[n]
        \/ /\ u.right[n] \in Q2 /\ u.parent[u.right[n]] = n
           /\ lo2[u.right[n]] = pos2[n] + 1 /\ hi2[u.right[n]] = hi2[n]
    <3>1. CASE b = y
      <4>1. u.right[n] = x /\ n = p
        BY <1>9, <2>1, <2>5, <3>1
      <4>2. lo[y] = pos[n] + 1 /\ hi[y] = hi[n]
        BY <1>3, <2>1, <3>1 DEF Spans
      <4> HIDE DEF a, b, p
      <4>3. CASE x = NIL
        BY <1>1, <1>3, <1>10, <2>2, <2>3, <4>1, <4>2, <4>3
      <4>4. CASE x # NIL
        <5>1. x \in Q2
          BY <1>7, <4>4
        <5>2. lo2[x] = pos2[n] + 1 /\ hi2[x] = hi2[n]
          BY <1>1, <1>10, <2>2, <2>3, <2>6, <4>2, <4>4, <5>1
        <5>3. QED
          BY <2>7, <4>1, <5>1, <5>2
      <4>5. QED
        BY <4>3, <4>4
    <3>2. CASE b # y
      <4>1. u.right[n] = b
        BY <1>9, <2>1, <2>5, <3>2
      <4>2. CASE b = NIL
        <5>1. hi[n] = pos[n]
          BY <1>3, <2>1, <4>2 DEF Spans
        <5>2. QED
          BY <1>1, <2>2, <2>3, <4>1, <4>2, <5>1
      <4>3. CASE b # NIL
        <5>1. u.parent[b] = n /\ lo[b] = pos[n] + 1 /\ hi[b] = hi[n] /\ b \in Q2
          BY <1>9, <2>1, <2>5, <3>2, <4>3 DEF Spans
        <5>2. /\ lo2[b] = IF lo[b] > j THEN lo[b] - 1 ELSE lo[b]
              /\ hi2[b] = IF hi[b] >= j THEN hi[b] - 1 ELSE hi[b]
          BY <1>4, <5>1
        <5> HIDE DEF a, b
        <5>3. lo2[b] = pos2[n] + 1 /\ hi2[b] = hi2[n]
          BY <1>1, <2>2, <2>3, <5>1, <5>2
        <5>4. QED
          BY <4>1, <5>1, <5>3
      <4>4. QED
        BY <4>2, <4>3
    <3>3. QED
      BY <3>1, <3>2
  <2>10. QED
    BY <2>4, <2>8, <2>9 DEF Spans
<1>12. ASSUME NEW n \in Q2 PROVE Hangs(u, Q2, n)
  <2>1. Hangs(t, Q, n) /\ n \in Addresses /\ n # y
    BY <1>5
  <2>2. CASE n = x
    <3>1. u.parent[n] = p
      BY <1>9, <2>1, <2>2
    <3>2. CASE p = ROOT
      <4>1. u.left[ROOT] = n
        BY <1>3, <1>8, <1>9, <2>2, <3>2
      <4>2. QED
        BY <3>1, <3>2, <4>1 DEF Hangs
    <3>3. CASE p # ROOT
      <4>1. p \in Q2 /\ p \in Addresses
        BY <1>3, <1>8, <3>3
      <4>2. u.left[p] = n \/ u.right[p] = n
        BY <1>9, <2>2, <4>1
      <4>3. QED
        BY <3>1, <4>1, <4>2 DEF Hangs
    <3>4. QED
      BY <3>2, <3>3
  <2>3. CASE n # x
    <3> DEFINE q == t.parent[n]
    <3>1. u.parent[n] = q /\ q # y
      <4>1. q = y => n = t["left"][y] \/ n = t["right"][y]
        BY <1>3, <2>1 DEF Hangs
      <4>2. q # y
        BY <1>3, <2>3, <4>1 DEF OnlyChild
      <4>3. QED
        BY <1>9, <2>1, <2>3, <4>2
    <3>2. CASE q = ROOT
      <4>1. t.left[ROOT] = n /\ p # ROOT
        BY <1>3, <1>8, <2>1, <3>2 DEF Hangs
      <4>2. u.left[ROOT] = n
        BY <1>3, <1>9, <4>1
      <4>3. QED
        BY <3>1, <3>2, <4>2 DEF Hangs
    <3>3. CASE q # ROOT
      <4>1. q \in Q2 /\ q \in Addresses /\ n \in {t.left[q], t.right[q]}
        BY <1>3, <2>1, <3>1, <3>3 DEF Hangs
      <4>2. t.left[q] = n => u.left[q] = n
        BY <1>9, <2>1, <4>1
      <4>3. t.right[q] = n => u.right[q] = n
        BY <1>3, <1>8, <1>9, <2>1, <3>3, <4>1
      <4>4. QED
        BY <3>1, <4>1, <4>2, <4>3 DEF Hangs
    <3>4. QED
      BY <3>2, <3>3
  <2>4. QED
    BY <2>2, <2>3
<1>13. TopSpans(u, Q2, N - 1, lo2, hi2)
  <2> DEFINE c == t.left[ROOT]
  <2>1. TopSpans(t, Q, N, lo, hi)
    BY DEF Shaped
  <2>2. c \in Q /\ t.parent[c] = ROOT /\ lo[c] = 1 /\ hi[c] = N
    BY <1>1, <2>1 DEF TopSpans
  <2>3. x \in Q2 => /\ lo2[x] = IF lo[x] > j THEN lo[x] - 1 ELSE lo[x]
                    /\ hi2[x] = IF hi[x] >= j THEN hi[x] - 1 ELSE hi[x]
    BY <1>4
  <2>4. CASE p = ROOT
    <3>1. c = y /\ u.left[ROOT] = x
      BY <1>3, <1>8, <1>9, <2>4
    <3>2. lo[y] = 1 /\ hi[y] = N
      BY <2>2, <3>1
    <3> HIDE DEF c
    <3>3. CASE x = NIL
      <4>1. N - 1 = 0
        BY <1>1, <1>3, <1>10, <3>2, <3>3
      <4>2. QED
        BY <3>1, <3>3, <4>1 DEF TopSpans
    <3>4. CASE x # NIL
      <4>1. x \in Q2 /\ u.parent[x] = ROOT
        BY <1>3, <1>7, <1>9, <2>4, <3>4
      <4>2. lo2[x] = 1 /\ hi2[x] = N - 1
        <5>1. /\ lo[x] \in 1..N /\ hi[x] \in 1..N /\ lo[x] <= hi[x]
              /\ \/ lo[y] = lo[x] /\ hi[x] = j - 1 /\ hi[y] = j
                 \/ lo[y] = j /\ lo[x] = j + 1 /\ hi[y] = hi[x]
          BY <1>10, <3>4
        <5>2. /\ lo2[x] = IF lo[x] > j THEN lo[x] - 1 ELSE lo[x]
              /\ hi2[x] = IF hi[x] >= j THEN hi[x] - 1 ELSE hi[x]
          BY <2>3, <4>1
        <5> HIDE DEF j, p, Q2
        <5>3. QED
          BY <1>1, <3>2, <5>1, <5>2
      <4>3. QED
        BY <3>1, <3>4, <4>1, <4>2 DEF TopSpans
    <3>5. QED
      BY <3>3, <3>4
  <2>5. CASE p # ROOT
    <3>1. u.left[ROOT] = c
      BY <1>3, <1>9, <2>5
    <3>2. c \in Q2 /\ c # x /\ c # NIL
      BY <1>3, <1>7, <2>2, <2>5
    <3>3. u.parent[c] = ROOT
      BY <1>3, <1>9, <2>2, <3>2
    <3>4. /\ lo2[c] = IF lo[c] > j THEN lo[c] - 1 ELSE lo[c]
          /\ hi2[c] = IF hi[c] >= j THEN hi[c] - 1 ELSE hi[c]
      BY <1>4, <3>2
    <3> HIDE DEF c
    <3>5. lo2[c] = 1 /\ hi2[c] = N - 1
      BY <1>1, <2>2, <3>4
    <3>6. QED
      BY <3>1, <3>2, <3>3, <3>5 DEF TopSpans
  <2>6. QED
    BY <2>4, <2>5
<1>14. Sentinels(u)
  <2>1. Sentinels(t)
    BY DEF Shaped
  <2>2. p # NIL /\ (p = ROOT => t.left[p] = y) /\ x # ROOT /\ (x = NIL \/ x # NIL)
    BY <1>3, <1>7, <1>8
  <2>3. u.red = t.red
    BY DEF Unhung
  <2>4. QED
    BY <1>3, <1>9, <2>1, <2>2, <2>3 DEF Sentinels
<1>15. Shaped(u, Q2, N - 1, pos2, lo2, hi2)
  <2> HIDE DEF Q2
  <2>1. QED
    BY <1>2, <1>6, <1>11, <1>12, <1>13, <1>14 DEF Shaped
<1>16. QED
  BY <1>15 DEF pos2

-----------------------------------------------------------------------------
(* A node takes the place of another.                                      *)

(* y, a node of no tree, takes the place and the colour of z. *)
Substituted(t, u, z, y) ==
  LET p == t.parent[z] IN
  /\ \A n \in Addresses : \A q \in Sides :
       u[q][n] = IF n = p /\ (q = "left" <=> t.left[p] = z) THEN y
                 ELSE IF n = y THEN t[q][z] ELSE t[q][n]
  /\ \A n \in Addresses :
       u.parent[n] = IF n = y THEN p
                     ELSE IF n = t.left[z] \/ n = t.right[z] THEN y ELSE t.parent[n]
  /\ \A n \in Addresses : u.red[n] = IF n = y THEN t.red[z] ELSE t.red[n]

(* y for z.                                                                *)
Swap(n, z, y) == IF n = z THEN y ELSE n

(* f, of the nodes, with y for z. *)
Renamed(Q, f, z, y) ==
  [n \in (Q \ {z}) \cup {y} |-> IF n = y THEN f[z] ELSE f[n]]

(* After that, everything is as it was with y for z.                       *)
LEMMA SubstitutedLinks ==
  ASSUME NEW t, NEW Q, Kin(t, Q), NEW z \in Q, NEW y \in Uthreads, y \notin Q,
         NEW u, Substituted(t, u, z, y)
  PROVE  /\ \A n \in Q : \A q \in Sides :
              u[q][Swap(n, z, y)] = Swap(t[q][n], z, y)
         /\ \A n \in Q : u.parent[Swap(n, z, y)] = Swap(t.parent[n], z, y)
         /\ \A n \in Q : u.red[Swap(n, z, y)] = t.red[n]
         /\ u.left[ROOT] = Swap(t.left[ROOT], z, y)
         /\ u.left[NIL] = t.left[NIL] /\ u.right[NIL] = t.right[NIL]
         /\ u.right[ROOT] = t.right[ROOT] /\ u.parent[ROOT] = t.parent[ROOT]
         /\ u.red[NIL] = t.red[NIL] /\ u.red[ROOT] = t.red[ROOT]
<1> DEFINE p == t.parent[z]
<1>1. /\ Q \subseteq Addresses /\ NIL \notin Q /\ ROOT \notin Q /\ ROOT # NIL
      /\ ROOT \in Addresses /\ NIL \in Addresses /\ y \in Addresses /\ y # NIL /\ y # ROOT
      /\ z # y /\ y \notin Q /\ "left" \in Sides /\ "right" \in Sides
  BY TreeAssumption DEF Kin, Addresses, Sides
<1>2. \/ p = ROOT /\ t.left[ROOT] = z
      \/ p \in Q /\ z \in {t.left[p], t.right[p]}
  <2>1. t.left[ROOT] = z => t.parent[z] = ROOT
    BY <1>1 DEF Kin
  <2>2. t.left[ROOT] # z => t.parent[z] \in Q /\ \E s \in Sides : t[s][t.parent[z]] = z
    BY Above
  <2>3. QED
    BY <2>1, <2>2 DEF Sides
<1>3. p # z /\ p # y /\ p # NIL
  BY <1>1, <1>2, Above
<1>4. /\ \A n \in Addresses : u.left[n] = IF n = p /\ t.left[p] = z THEN y
                                ELSE IF n = y THEN t.left[z] ELSE t.left[n]
      /\ \A n \in Addresses : u.right[n] = IF n = p /\ t.left[p] # z THEN y
                                ELSE IF n = y THEN t.right[z] ELSE t.right[n]
      /\ \A n \in Addresses :
           u.parent[n] = IF n = y THEN p
                     ELSE IF n = t.left[z] \/ n = t.right[z] THEN y ELSE t.parent[n]
      /\ \A n \in Addresses : u.red[n] = IF n = y THEN t.red[z] ELSE t.red[n]
  BY <1>1 DEF Substituted
<1>5. ASSUME NEW n \in Q
      PROVE  /\ t.left[n] # n /\ t.right[n] # n
             /\ t.left[n] = z => n = p
             /\ t.right[n] = z => n = p /\ t.left[p] # z
             /\ t.parent[n] = z <=> n = t.left[z] \/ n = t.right[z]
             /\ t.parent[n] # n
  <2>1. ASSUME NEW m \in Q
        PROVE  /\ t.left[m] = NIL \/ (t.left[m] # m /\ t.parent[t.left[m]] = m)
               /\ t.right[m] = NIL \/ (t.right[m] # m /\ t.parent[t.right[m]] = m
                                       /\ t.right[m] # t.left[m])
    <3>1. Other("right") = "left"
      BY DEF Other
    <3>2. t["left"][m] = NIL \/ (t["left"][m] # m /\ t.parent[t["left"][m]] = m)
      BY <1>1, Below
    <3>3. t["right"][m] = NIL \/ (t["right"][m] # m /\ t.parent[t["right"][m]] = m
                                  /\ t["right"][m] # t["left"][m])
      BY <1>1, <3>1, Below
    <3>4. QED
      BY <3>2, <3>3
  <2>2. /\ t.left[n] # n /\ t.right[n] # n
        /\ t.left[n] = z => n = p
        /\ t.right[n] = z => n = p /\ t.left[p] # z
    BY <1>1, <2>1
  <2>3. n = t.left[z] \/ n = t.right[z] => t.parent[n] = z
    BY <1>1, <2>1
  <2>4. t.parent[n] # n /\ (t.parent[n] = z => n = t.left[z] \/ n = t.right[z])
    <3>1. t.parent[n] = z => \E s \in Sides : t[s][z] = n
      BY <1>1, Above
    <3>2. QED
      BY <3>1, Above DEF Sides
  <2>5. QED
    BY <2>2, <2>3, <2>4
<1>6. ASSUME NEW n \in Q
      PROVE  /\ u.left[Swap(n, z, y)] = Swap(t.left[n], z, y)
             /\ u.right[Swap(n, z, y)] = Swap(t.right[n], z, y)
  <2>1. CASE n = z
    <3>1. Swap(n, z, y) = y /\ u.left[y] = t.left[z] /\ u.right[y] = t.right[z]
      BY <1>1, <1>3, <1>4, <2>1 DEF Swap
    <3>2. t.left[z] # z /\ t.right[z] # z
      BY <1>5
    <3>3. QED
      BY <2>1, <3>1, <3>2 DEF Swap
  <2>2. CASE n # z
    <3>1. Swap(n, z, y) = n /\ n # y /\ n \in Addresses
      BY <1>1, <2>2 DEF Swap
    <3>2. u.left[n] = IF t.left[n] = z THEN y ELSE t.left[n]
      BY <1>4, <1>5, <3>1
    <3>3. u.right[n] = IF t.right[n] = z THEN y ELSE t.right[n]
      BY <1>1, <1>2, <1>4, <1>5, <3>1
    <3>4. QED
      BY <3>1, <3>2, <3>3 DEF Swap
  <2>3. QED
    BY <2>1, <2>2
<1>7. ASSUME NEW n \in Q, NEW q \in Sides
      PROVE  u[q][Swap(n, z, y)] = Swap(t[q][n], z, y)
  <2>1. u["left"][Swap(n, z, y)] = Swap(t["left"][n], z, y)
    BY <1>6
  <2>2. u["right"][Swap(n, z, y)] = Swap(t["right"][n], z, y)
    BY <1>6
  <2>3. q = "left" \/ q = "right"
    BY DEF Sides
  <2>4. QED
    BY <2>1, <2>2, <2>3
<1>8. ASSUME NEW n \in Q
      PROVE  u.parent[Swap(n, z, y)] = Swap(t.parent[n], z, y)
  <2>1. CASE n = z
    BY <1>1, <1>3, <1>4, <2>1 DEF Swap
  <2>2. CASE n # z
    <3>1. Swap(n, z, y) = n /\ n # y /\ n \in Addresses
      BY <1>1, <2>2 DEF Swap
    <3>2. u.parent[n] = IF t.parent[n] = z THEN y ELSE t.parent[n]
      BY <1>4, <1>5, <3>1
    <3>3. QED
      BY <3>1, <3>2 DEF Swap
  <2>3. QED
    BY <2>1, <2>2
<1>9. ASSUME NEW n \in Q PROVE u.red[Swap(n, z, y)] = t.red[n]
  BY <1>1, <1>4 DEF Swap
<1>10. /\ u.left[ROOT] = Swap(t.left[ROOT], z, y)
       /\ u.right[ROOT] = t.right[ROOT]
  <2>1. t.left[ROOT] = z => p = ROOT
    BY <1>1 DEF Kin
  <2>2. QED
    BY <1>1, <1>2, <1>4, <2>1 DEF Swap
<1>11. u.left[NIL] = t.left[NIL] /\ u.right[NIL] = t.right[NIL]
  BY <1>1, <1>3, <1>4
<1>12. u.parent[ROOT] = t.parent[ROOT]
  <2>1. t.left[z] # ROOT /\ t.right[z] # ROOT
    <3>1. t["left"][z] # ROOT /\ t["right"][z] # ROOT
      BY <1>1, Below
    <3>2. QED
      BY <3>1
  <2>2. QED
    BY <1>1, <1>4, <2>1
<1>13. u.red[NIL] = t.red[NIL] /\ u.red[ROOT] = t.red[ROOT]
  BY <1>1, <1>4
<1>14. QED
  BY <1>7, <1>8, <1>9, <1>10, <1>11, <1>12, <1>13

(* y has z's number in the order.                                          *)
LEMMA SubstituteShape ==
  ASSUME NEW t, NEW Q, NEW N, NEW pos, NEW lo, NEW hi,
         Shaped(t, Q, N, pos, lo, hi), NEW z \in Q,
         NEW y \in Uthreads, y \notin Q,
         NEW u \in Images, Substituted(t, u, z, y)
  PROVE  \E lo2, hi2 :
           Shaped(u, (Q \ {z}) \cup {y}, N, Renamed(Q, pos, z, y), lo2, hi2)
<1> DEFINE Q2 == (Q \ {z}) \cup {y}
           pos2 == Renamed(Q, pos, z, y)
           lo2 == Renamed(Q, lo, z, y)
           hi2 == Renamed(Q, hi, z, y)
           f(n) == Swap(n, z, y)
<1>1. /\ Q \subseteq Uthreads /\ NIL \notin Q /\ ROOT \notin Q /\ ROOT # NIL
      /\ y # NIL /\ y # ROOT /\ z # y /\ z # NIL /\ z # ROOT
  BY TreeAssumption DEF Shaped, Numbered
<1>2. Kin(t, Q)
  BY ShapeKin
<1>3. ASSUME NEW n \in Q
      PROVE  /\ u.left[f(n)] = f(t.left[n]) /\ u.right[f(n)] = f(t.right[n])
             /\ u.parent[f(n)] = f(t.parent[n])
  <2>1. /\ u["left"][f(n)] = f(t["left"][n]) /\ u["right"][f(n)] = f(t["right"][n])
        /\ u.parent[f(n)] = f(t.parent[n])
    BY <1>2, SubstitutedLinks DEF Sides
  <2>2. QED
    BY <2>1
<1>4. ASSUME NEW n \in Q
      PROVE  /\ f(n) \in Q2 /\ pos2[f(n)] = pos[n] /\ lo2[f(n)] = lo[n] /\ hi2[f(n)] = hi[n]
  BY <1>1 DEF Renamed, Swap
<1>5. ASSUME NEW m \in Q2 PROVE \E n \in Q : m = f(n)
  <2>1. m = y => m = f(z)
    BY DEF Swap
  <2>2. m # y => m \in Q /\ m = f(m)
    BY DEF Swap
  <2>3. QED
    BY <2>1, <2>2
<1>6. f(NIL) = NIL /\ f(ROOT) = ROOT
  BY <1>1 DEF Swap
<1>7. Numbered(Q2, N, pos2)
  <2>1. /\ Q2 \subseteq Uthreads /\ N \in Nat
        /\ \A n \in Q : pos[n] \in 1..N
        /\ \A m, n \in Q : pos[m] = pos[n] => m = n
        /\ \A i \in 1..N : \E n \in Q : pos[n] = i
    BY DEF Shaped, Numbered
  <2>2. pos2 \in [Q2 -> 1..N]
    BY <2>1 DEF Renamed
  <2> HIDE DEF pos2, Q2
  <2>3. ASSUME NEW m \in Q2, NEW n \in Q2, pos2[m] = pos2[n] PROVE m = n
    <3>1. PICK a \in Q : m = f(a)
      BY <1>5
    <3>2. PICK b \in Q : n = f(b)
      BY <1>5
    <3>3. pos[a] = pos[b]
      BY <1>4, <2>3, <3>1, <3>2
    <3>4. QED
      BY <2>1, <3>1, <3>2, <3>3
  <2>4. ASSUME NEW i \in 1..N PROVE \E n \in Q2 : pos2[n] = i
    BY <1>4, <2>1
  <2>5. QED
    BY <2>1, <2>2, <2>3, <2>4 DEF Numbered
<1>8. Spanned(Q2, N, lo2, hi2)
  BY DEF Shaped, Spanned, Renamed
<1> HIDE DEF pos2, lo2, hi2, Q2
<1>9. ASSUME NEW m \in Q2 PROVE Spans(u, Q2, pos2, lo2, hi2, m) /\ Hangs(u, Q2, m)
  <2>1. PICK n \in Q : m = f(n)
    BY <1>5
  <2>2. Spans(t, Q, pos, lo, hi, n) /\ Hangs(t, Q, n)
    BY DEF Shaped
  <2>3. pos2[m] = pos[n] /\ lo2[m] = lo[n] /\ hi2[m] = hi[n]
    BY <1>4, <2>1
  <2> DEFINE a == t.left[n]
             b == t.right[n]
             q == t.parent[n]
  <2>4. u.left[m] = f(a) /\ u.right[m] = f(b) /\ u.parent[m] = f(q)
    BY <1>3, <2>1
  <2>5. \/ u.left[m] = NIL /\ lo2[m] = pos2[m]
        \/ /\ u.left[m] \in Q2 /\ u.parent[u.left[m]] = m
           /\ lo2[u.left[m]] = lo2[m] /\ hi2[u.left[m]] = pos2[m] - 1
    <3>1. CASE a = NIL
      <4>1. lo[n] = pos[n]
        BY <1>1, <2>2, <3>1 DEF Spans
      <4>2. QED
        BY <1>6, <2>3, <2>4, <3>1, <4>1
    <3>2. CASE a # NIL
      <4>1. a \in Q /\ t.parent[a] = n /\ lo[a] = lo[n] /\ hi[a] = pos[n] - 1
        BY <2>2, <3>2 DEF Spans
      <4> HIDE DEF a
      <4>2. f(a) \in Q2 /\ u.parent[f(a)] = m /\ lo2[f(a)] = lo[a] /\ hi2[f(a)] = hi[a]
        BY <1>3, <1>4, <2>1, <4>1
      <4>3. QED
        BY <2>3, <2>4, <4>1, <4>2
    <3>3. QED
      BY <3>1, <3>2
  <2>6. \/ u.right[m] = NIL /\ hi2[m] = pos2[m]
        \/ /\ u.right[m] \in Q2 /\ u.parent[u.right[m]] = m
           /\ lo2[u.right[m]] = pos2[m] + 1 /\ hi2[u.right[m]] = hi2[m]
    <3>1. CASE b = NIL
      <4>1. hi[n] = pos[n]
        BY <1>1, <2>2, <3>1 DEF Spans
      <4>2. QED
        BY <1>6, <2>3, <2>4, <3>1, <4>1
    <3>2. CASE b # NIL
      <4>1. b \in Q /\ t.parent[b] = n /\ lo[b] = pos[n] + 1 /\ hi[b] = hi[n]
        BY <2>2, <3>2 DEF Spans
      <4> HIDE DEF b
      <4>2. f(b) \in Q2 /\ u.parent[f(b)] = m /\ lo2[f(b)] = lo[b] /\ hi2[f(b)] = hi[b]
        BY <1>3, <1>4, <2>1, <4>1
      <4>3. QED
        BY <2>3, <2>4, <4>1, <4>2
    <3>3. QED
      BY <3>1, <3>2
  <2>7. Spans(u, Q2, pos2, lo2, hi2, m)
    <3>1. /\ pos[n] \in Nat /\ lo[n] \in Nat /\ hi[n] \in Nat
          /\ lo[n] <= pos[n] /\ pos[n] <= hi[n]
      BY <2>2 DEF Spans
    <3>2. QED
      BY <2>3, <2>5, <2>6, <3>1 DEF Spans
  <2>8. Hangs(u, Q2, m)
    <3>1. CASE q = ROOT
      <4>1. t.left[ROOT] = n
        BY <1>1, <2>2, <3>1 DEF Hangs
      <4>2. u.left[ROOT] = f(t.left[ROOT])
        BY <1>2, SubstitutedLinks
      <4>3. QED
        BY <1>6, <2>1, <2>4, <3>1, <4>1, <4>2 DEF Hangs
    <3>2. CASE q # ROOT
      <4>1. q \in Q /\ (n = t.left[q] \/ n = t.right[q])
        BY <2>2, <3>2 DEF Hangs
      <4> HIDE DEF q
      <4>2. f(q) \in Q2 /\ u.left[f(q)] = f(t.left[q]) /\ u.right[f(q)] = f(t.right[q])
        BY <1>3, <1>4, <4>1
      <4>3. QED
        BY <2>1, <2>4, <4>1, <4>2 DEF Hangs
    <3>3. QED
      BY <3>1, <3>2
  <2>9. QED
    BY <2>7, <2>8
<1>10. u.left[ROOT] = f(t.left[ROOT])
  BY <1>2, SubstitutedLinks
<1>11. TopSpans(u, Q2, N, lo2, hi2)
  <2> DEFINE c == t.left[ROOT]
  <2>1. TopSpans(t, Q, N, lo, hi)
    BY DEF Shaped
  <2>2. N # 0 /\ N \in Nat
    BY DEF Shaped, Numbered
  <2>3. c \in Q /\ t.parent[c] = ROOT /\ lo[c] = 1 /\ hi[c] = N
    BY <2>1, <2>2 DEF TopSpans
  <2>4. u.left[ROOT] = f(c)
    BY <1>10
  <2> HIDE DEF c
  <2>5. f(c) \in Q2 /\ u.parent[f(c)] = f(t.parent[c]) /\ lo2[f(c)] = lo[c] /\ hi2[f(c)] = hi[c]
    BY <1>3, <1>4, <2>3
  <2>6. f(c) # NIL
    BY <1>1, <2>3 DEF Swap
  <2>7. QED
    BY <1>6, <2>3, <2>4, <2>5, <2>6 DEF TopSpans
<1>12. Sentinels(u)
  <2>1. /\ u.left[NIL] = t.left[NIL] /\ u.right[NIL] = t.right[NIL]
        /\ u.right[ROOT] = t.right[ROOT] /\ u.parent[ROOT] = t.parent[ROOT]
        /\ u.red[NIL] = t.red[NIL] /\ u.red[ROOT] = t.red[ROOT]
    BY <1>2, SubstitutedLinks
  <2>2. Sentinels(t)
    BY DEF Shaped
  <2>3. QED
    BY <2>1, <2>2 DEF Sentinels
<1>13. Shaped(u, Q2, N, pos2, lo2, hi2)
  BY <1>7, <1>8, <1>9, <1>11, <1>12 DEF Shaped
<1>14. QED
  BY <1>13 DEF Q2, pos2

-----------------------------------------------------------------------------
(* The colours of such trees.                                              *)

(* Taking out y changes no child of another node, but for the one that y   *)
(* was.                                                                    *)
LEMMA UnhungLinks ==
  ASSUME NEW t, NEW Q, Kin(t, Q), NEW y \in Q, NEW x,
         NEW u, Unhung(t, u, y, x), NEW n \in Q, n # y, NEW q \in Sides
  PROVE  u[q][n] = IF t[q][n] = y THEN x ELSE t[q][n]
<1> DEFINE p == t.parent[y]
<1>1. /\ n \in Addresses /\ NIL \notin Q /\ ROOT \notin Q
      /\ t[q][n] = y => p = n
  BY Below
<1>2. u[q][n] = IF n = p /\ (q = "left" <=> t.left[p] = y) THEN x ELSE t[q][n]
  BY <1>1 DEF Unhung
<1>3. ASSUME n = p
      PROVE  (q = "left" <=> t.left[p] = y) <=> t[q][n] = y
  <2>1. \E r \in Sides : t[r][n] = y
    BY <1>1, <1>3, Above
  <2>2. PICK r \in Sides : t[r][n] = y
    BY <2>1
  <2>3. t[Other(r)][n] # y
    BY <2>2, Below
  <2>4. QED
    BY <1>3, <2>2, <2>3 DEF Sides, Other
<1>4. QED
  BY <1>1, <1>2, <1>3

(* And the top only if y was it.                                           *)
LEMMA UnhungTop ==
  ASSUME NEW t, NEW Q, Kin(t, Q), NEW y \in Q, NEW x,
         NEW u, Unhung(t, u, y, x)
  PROVE  /\ u.left[ROOT] = IF t.left[ROOT] = y THEN x ELSE t.left[ROOT]
         /\ t.left[ROOT] = y <=> t.parent[y] = ROOT
         /\ u.parent[x] = t.parent[y] \/ x \notin Addresses
<1>1. /\ ROOT \notin Q /\ NIL \notin Q /\ ROOT \in Addresses /\ "left" \in Sides
      /\ ROOT # NIL
  BY Below, TreeAssumption DEF Addresses, Sides
<1>2. u["left"][ROOT] = IF ROOT = t.parent[y] /\ t.left[t.parent[y]] = y
                        THEN x ELSE t["left"][ROOT]
  BY <1>1 DEF Unhung
<1>3. t.left[ROOT] = y <=> t.parent[y] = ROOT
  <2>1. t.left[ROOT] = y => t.parent[y] = ROOT
    BY <1>1 DEF Kin
  <2>2. t.parent[y] = ROOT => t.left[ROOT] = y
    BY <1>1, Above
  <2>3. QED
    BY <2>1, <2>2
<1>4. QED
  BY <1>2, <1>3 DEF Unhung

(* What the heights of y and its only child are to each other. *)
LEMMA OnlyChildHeights ==
  ASSUME NEW t, NEW Q, Kin(t, Q), NEW r, NEW bh, Coloured(t, r, Q, bh),
         NEW y \in Q, NEW x, OnlyChild(t, y, x)
  PROVE  /\ x \in Q \cup {NIL} /\ x # y
         /\ bh[y] \in Nat /\ bh[x] \in Nat /\ r[y] \in {0, 1}
         /\ bh[y] + r[y] = bh[x] + 1
         /\ r[y] = 0 \/ r[x] = 0
<1>1. \E q \in Sides : t[q][y] = x
  <2>1. t["left"][y] = x \/ t["right"][y] = x
    BY DEF OnlyChild
  <2>2. QED
    BY <2>1 DEF Sides
<1>2. PICK q \in Sides : t[q][y] = x
  BY <1>1
<1>3. x \in Q \cup {NIL} /\ x # y /\ y \in Addresses
  BY <1>2, Below
<1>4. Level(t, r, bh, y) /\ Pale(t, r, y, ROOT) /\ r[ROOT] = 0
  BY DEF Coloured
<1>5. bh[y] \in Nat /\ bh[x] \in Nat /\ r[y] \in {0, 1}
  BY <1>3 DEF Coloured, Heights
<1>6. bh[y] + r[y] = bh[x] + 1
  BY <1>2, <1>4 DEF Level
<1>7. r[y] = 0 \/ r[x] = 0
  BY <1>2, <1>4 DEF Pale
<1>8. QED
  BY <1>3, <1>5, <1>6, <1>7

(* Taking out a red node breaks no rule; taking out a black one leaves its *)
(* child at the top, or lacking a black node.                              *)
LEMMA UnhangColours ==
  ASSUME NEW t, NEW Q, Kin(t, Q), NEW r, NEW bh, Coloured(t, r, Q, bh),
         NEW y \in Q, NEW x, OnlyChild(t, y, x),
         NEW u, Kin(u, Q \ {y}), Unhung(t, u, y, x)
  PROVE  /\ r[y] = 1 => \E bh2 : Coloured(u, r, Q \ {y}, bh2)
         /\ r[y] = 0 /\ t.parent[y] = ROOT =>
              \E bh2 : AtTop(u, r, Q \ {y}, bh2, x)
         /\ r[y] = 0 /\ t.parent[y] # ROOT =>
              \E bh2, s : Lacking(u, r, Q \ {y}, bh2, x, t.parent[y], s)
<1> DEFINE Q2 == Q \ {y}
           bh2 == [n \in Q2 \cup {NIL} |-> bh[n]]
           p == t.parent[y]
<1>1. /\ r \in [Addresses -> {0, 1}] /\ r[NIL] = 0 /\ r[ROOT] = 0
      /\ r[t.left[ROOT]] = 0
      /\ bh \in [Q \cup {NIL} -> Nat \ {0}] /\ bh[NIL] = 1
      /\ \A n \in Q : Level(t, r, bh, n) /\ Pale(t, r, n, ROOT)
  BY DEF Coloured, Heights
<1>2. /\ x \in Q \cup {NIL} /\ x # y /\ x \in Addresses /\ y # NIL /\ y # ROOT /\ y \in Addresses
      /\ ROOT # NIL /\ NIL \notin Q /\ ROOT \notin Q
  BY OnlyChildHeights, Below, TreeAssumption DEF Kin, Addresses
<1>3. Heights(Q2, bh2)
  BY <1>1, <1>2 DEF Heights
<1>4. \A n \in Q2 \cup {NIL} : bh2[n] = bh[n]
  BY <1>2
<1> HIDE DEF bh2
<1>5. ASSUME NEW n \in Q2, NEW q \in Sides
      PROVE  /\ u[q][n] = IF t[q][n] = y THEN x ELSE t[q][n]
             /\ t[q][n] \in Q \cup {NIL} /\ (t[q][n] = y => n = p)
  BY UnhungLinks, Below
<1>6. /\ u.left[ROOT] = IF p = ROOT THEN x ELSE t.left[ROOT]
      /\ t.left[ROOT] = y <=> p = ROOT
      /\ u.parent[x] = p
  BY <1>2, UnhungTop
<1>7. /\ bh[y] \in Nat /\ bh[x] \in Nat /\ r[y] \in {0, 1}
      /\ bh[y] + r[y] = bh[x] + 1
      /\ r[y] = 0 \/ r[x] = 0
  BY OnlyChildHeights
<1>8. ASSUME NEW n \in Q2, NEW q \in Sides, t[q][n] # y
      PROVE  LevelOn(u, r, bh2, n, q) /\ PaleOn(u, r, n, ROOT, q)
  <2>1. u[q][n] = t[q][n] /\ bh2[n] = bh[n] /\ bh2[t[q][n]] = bh[t[q][n]]
    BY <1>4, <1>5, <1>8
  <2>2. QED
    BY <1>1, <2>1 DEF LevelOn, PaleOn, Level, Pale
<1>9. ASSUME NEW n \in Q2, NEW q \in Sides, t[q][n] = y
      PROVE  /\ u[q][n] = x /\ n = p
             /\ bh2[n] + r[n] = bh2[x] + 2 - r[y]
             /\ r[y] = 1 => r[n] = 0
  <2>1. u[q][n] = x /\ n = p /\ bh2[n] = bh[n] /\ bh2[x] = bh[x]
    BY <1>2, <1>4, <1>5, <1>9
  <2>2. bh[n] + r[n] = bh[y] + 1
    BY <1>1, <1>9 DEF Level
  <2>3. r[y] = 1 => r[n] = 0
    BY <1>1, <1>2, <1>9 DEF Pale
  <2>4. bh[n] \in Nat /\ r[n] \in Nat
    BY <1>1, Below
  <2>5. QED
    BY <1>7, <2>1, <2>2, <2>3, <2>4
<1>10. CASE r[y] = 1
  <2>1. ASSUME NEW n \in Q2, NEW q \in Sides
        PROVE  LevelOn(u, r, bh2, n, q) /\ PaleOn(u, r, n, ROOT, q)
    <3>1. CASE t[q][n] # y
      BY <1>8, <3>1
    <3>2. CASE t[q][n] = y
      <4>1. /\ u[q][n] = x /\ bh2[n] + r[n] = bh2[x] + 2 - r[y] /\ r[n] = 0
        BY <1>9, <1>10, <3>2
      <4>2. bh2[x] \in Nat
        BY <1>2, <1>4, <1>7
      <4>3. QED
        BY <1>10, <4>1, <4>2 DEF LevelOn, PaleOn
    <3>3. QED
      BY <3>1, <3>2
  <2>2. p # ROOT
    BY <1>1, <1>6, <1>10
  <2>3. Coloured(u, r, Q2, bh2)
    BY <1>1, <1>3, <1>6, <2>1, <2>2 DEF Coloured, Level, LevelOn, Pale, PaleOn
  <2>4. QED
    BY <1>10, <2>3
<1>11. CASE r[y] = 0 /\ p = ROOT
  <2>1. ASSUME NEW n \in Q2, NEW q \in Sides
        PROVE  LevelOn(u, r, bh2, n, q) /\ PaleOn(u, r, n, ROOT, q)
    <3>1. n # p
      BY <1>2, <1>11
    <3>2. QED
      BY <1>5, <1>8, <3>1
  <2>2. \A n \in Q2 : Level(u, r, bh2, n) /\ Loose(u, r, n, x)
    BY <1>1, <2>1, LoosePale DEF Level, LevelOn, Pale, PaleOn
  <2>3. AtTop(u, r, Q2, bh2, x)
    BY <1>1, <1>3, <1>6, <1>11, <2>2 DEF AtTop
  <2>4. QED
    BY <1>11, <2>3
<1>12. CASE r[y] = 0 /\ p # ROOT
  <2>1. p \in Q2 /\ \E s \in Sides : t[s][p] = y
    BY <1>12, Above
  <2>2. PICK s \in Sides : t[s][p] = y
    BY <2>1
  <2>3. t[Other(s)][p] # y /\ Other(s) \in Sides
    BY <1>2, <2>1, <2>2, Below, TwoSides
  <2>4. u[s][p] = x /\ bh2[p] + r[p] = bh2[x] + 2
    <3>1. u[s][p] = x /\ bh2[p] + r[p] = bh2[x] + 2 - r[y]
      BY <1>9, <2>1, <2>2
    <3>2. bh2[x] \in Nat
      BY <1>2, <1>4, <1>7
    <3>3. QED
      BY <1>12, <3>1, <3>2
  <2>5. Hollow(u, bh2, r, x, p, s)
    BY <1>6, <1>8, <2>1, <2>3, <2>4 DEF Hollow
  <2>6. ASSUME NEW n \in Q2, n # p PROVE Level(u, r, bh2, n)
    BY <1>5, <1>8, <2>6 DEF Level, LevelOn
  <2>7. ASSUME NEW n \in Q2 PROVE Loose(u, r, n, x)
    <3>1. ASSUME NEW q \in Sides PROVE PaleOn(u, r, n, ROOT, q) \/ u[q][n] = x
      BY <1>8, <1>9
    <3>2. QED
      BY <1>1, <3>1 DEF Loose, PaleOn
  <2>8. r[u.left[ROOT]] = 0
    BY <1>1, <1>6, <1>12
  <2>9. Lacking(u, r, Q2, bh2, x, p, s)
    BY <1>1, <1>2, <1>3, <2>1, <2>5, <2>6, <2>7, <2>8 DEF Lacking
  <2>10. QED
    BY <1>12, <2>9
<1>13. QED
  BY <1>7, <1>10, <1>11, <1>12

(* Black heights can be carried over from z to y.                          *)
LEMMA SubstitutedHeights ==
  ASSUME NEW t, NEW Q, Kin(t, Q), NEW bh, Heights(Q, bh), NEW z \in Q,
         NEW y \in Uthreads, y \notin Q
  PROVE  \E bh2 : /\ Heights((Q \ {z}) \cup {y}, bh2)
                  /\ \A n \in Q \cup {NIL} : bh2[Swap(n, z, y)] = bh[n]
<1> DEFINE Q2 == (Q \ {z}) \cup {y}
           bh2 == [n \in Q2 \cup {NIL} |-> IF n = y THEN bh[z] ELSE bh[n]]
<1>1. /\ y # NIL /\ z # NIL /\ NIL \notin Q /\ z # y
  BY Below, TreeAssumption DEF Kin, Addresses
<1>2. ASSUME NEW n \in Q \cup {NIL} PROVE bh2[Swap(n, z, y)] = bh[n]
  BY <1>1 DEF Swap
<1>3. Heights(Q2, bh2)
  BY <1>1 DEF Heights
<1>4. QED
  BY <1>2, <1>3

(* The links and colours of a substitution, seen from the nodes it has. *)
Seen(t, u, Q, z, y, r, bh, bh2) ==
  /\ \A n \in Q : \A q \in Sides :
       u[q][Swap(n, z, y)] = Swap(t[q][n], z, y)
  /\ \A n \in Q \cup {NIL} :
       u.red[Swap(n, z, y)] = r[n] /\ bh2[Swap(n, z, y)] = bh[n]
  /\ u.red[ROOT] = 0
  /\ u.left[ROOT] = Swap(t.left[ROOT], z, y)

(* They can be, when y takes on the colour of z.                           *)
LEMMA SubstitutedSeen ==
  ASSUME NEW t, NEW Q, Kin(t, Q), NEW bh, Heights(Q, bh), NEW z \in Q,
         NEW y \in Uthreads, y \notin Q, t.red[ROOT] = 0,
         NEW u, Substituted(t, u, z, y)
  PROVE  \E bh2 : /\ Heights((Q \ {z}) \cup {y}, bh2)
                  /\ Seen(t, u, Q, z, y, t.red, bh, bh2)
<1>1. PICK bh2 : /\ Heights((Q \ {z}) \cup {y}, bh2)
                 /\ \A n \in Q \cup {NIL} : bh2[Swap(n, z, y)] = bh[n]
  BY SubstitutedHeights
<1>2. NIL \notin Q
  BY TreeAssumption DEF Kin
<1>3. /\ \A n \in Q : \A q \in Sides : u[q][Swap(n, z, y)] = Swap(t[q][n], z, y)
      /\ \A n \in Q : u.red[Swap(n, z, y)] = t.red[n]
      /\ u.left[ROOT] = Swap(t.left[ROOT], z, y)
      /\ u.red[NIL] = t.red[NIL] /\ u.red[ROOT] = t.red[ROOT]
  BY SubstitutedLinks
<1>4. Swap(NIL, z, y) = NIL
  BY <1>2 DEF Swap
<1>5. QED
  BY <1>1, <1>3, <1>4 DEF Seen

(* So what was right at a node on one side is right there after it.        *)
LEMMA SeenNode ==
  ASSUME NEW t, NEW Q, Kin(t, Q), NEW r, NEW bh, NEW bh2, NEW z \in Q,
         NEW y \in Uthreads, y \notin Q, NEW x, x # z, x # y,
         NEW u, Seen(t, u, Q, z, y, r, bh, bh2), NEW n \in Q, NEW q \in Sides
  PROVE  /\ LevelOn(t, r, bh, n, q) => LevelOn(u, u.red, bh2, Swap(n, z, y), q)
         /\ PaleOn(t, r, n, x, q) => PaleOn(u, u.red, Swap(n, z, y), x, q)
<1> DEFINE c == t[q][n]
<1>1. c \in Q \cup {NIL}
  BY Below
<1> HIDE DEF c
<1>2. u[q][Swap(n, z, y)] = Swap(c, z, y)
  BY DEF Seen, c
<1>3. /\ u.red[Swap(n, z, y)] = r[n] /\ bh2[Swap(n, z, y)] = bh[n]
      /\ u.red[Swap(c, z, y)] = r[c] /\ bh2[Swap(c, z, y)] = bh[c]
  BY <1>1 DEF Seen
<1>4. Swap(c, z, y) = x <=> c = x
  <2>1. y \notin Q \cup {NIL}
    BY TreeAssumption
  <2>2. QED
    BY <1>1, <2>1 DEF Swap
<1>5. QED
  BY <1>2, <1>3, <1>4 DEF LevelOn, PaleOn, c

(* A substitution breaks no red-black rule.                                *)
LEMMA SubstitutedColoured ==
  ASSUME NEW t, NEW Q, Kin(t, Q), NEW bh, Coloured(t, t.red, Q, bh),
         NEW z \in Q, NEW y \in Uthreads, y \notin Q,
         NEW u \in Images, Substituted(t, u, z, y)
  PROVE  \E bh2 : Coloured(u, u.red, (Q \ {z}) \cup {y}, bh2)
<1> DEFINE Q2 == (Q \ {z}) \cup {y}
<1>1. Heights(Q, bh) /\ t.red[ROOT] = 0 /\ t.red[NIL] = 0 /\ t.red[t.left[ROOT]] = 0
  BY DEF Coloured
<1>2. PICK bh2 : Heights(Q2, bh2) /\ Seen(t, u, Q, z, y, t.red, bh, bh2)
  BY <1>1, SubstitutedSeen
<1>3. ROOT # z /\ ROOT # y /\ NIL # z /\ NIL \notin Q
  BY TreeAssumption DEF Kin
<1>4. ASSUME NEW m \in Q2
      PROVE  Level(u, u.red, bh2, m) /\ Pale(u, u.red, m, ROOT)
  <2>1. PICK n \in Q : m = Swap(n, z, y)
    <3>1. m = y => m = Swap(z, z, y)
      BY DEF Swap
    <3>2. m # y => m \in Q /\ m = Swap(m, z, y)
      BY DEF Swap
    <3>3. QED
      BY <3>1, <3>2
  <2>2. ASSUME NEW q \in Sides
        PROVE  LevelOn(t, t.red, bh, n, q) /\ PaleOn(t, t.red, n, ROOT, q)
    BY DEF Coloured, Level, LevelOn, Pale, PaleOn
  <2>3. ASSUME NEW q \in Sides
        PROVE  LevelOn(u, u.red, bh2, m, q) /\ PaleOn(u, u.red, m, ROOT, q)
    BY <1>2, <1>3, <2>1, <2>2, SeenNode
  <2>4. QED
    BY <2>3 DEF Level, LevelOn, Pale, PaleOn
<1>5. t.left[ROOT] \in Q \cup {NIL}
  BY DEF Kin
<1>6. u.red[u.left[ROOT]] = 0 /\ u.red[NIL] = 0 /\ u.red[ROOT] = 0
  <2>1. Swap(NIL, z, y) = NIL
    BY <1>3 DEF Swap
  <2>2. QED
    BY <1>1, <1>2, <1>5, <2>1 DEF Seen
<1>7. u.red \in [Addresses -> {0, 1}]
  BY DEF Images
<1>8. QED
  BY <1>2, <1>4, <1>6, <1>7 DEF Coloured

(* And leaves an x that lacks a black node as it was.                      *)
LEMMA SubstitutedLacking ==
  ASSUME NEW t, NEW Q, Kin(t, Q), NEW bh, NEW x, NEW p, NEW s,
         Lacking(t, t.red, Q, bh, x, p, s),
         NEW z \in Q, x # z, NEW y \in Uthreads, y \notin Q,
         NEW u \in Images, Substituted(t, u, z, y),
         u.parent[x] = Swap(p, z, y)
  PROVE  \E bh2 : Lacking(u, u.red, (Q \ {z}) \cup {y}, bh2, x, Swap(p, z, y), s)
<1> DEFINE Q2 == (Q \ {z}) \cup {y}
           p2 == Swap(p, z, y)
<1>1. /\ Heights(Q, bh) /\ t.red[ROOT] = 0 /\ t.red[NIL] = 0 /\ t.red[t.left[ROOT]] = 0
      /\ p \in Q /\ s \in Sides /\ x \in Q \cup {NIL}
      /\ t.parent[x] = p /\ t[s][p] = x
      /\ bh[p] + t.red[p] = bh[x] + 2
      /\ LevelOn(t, t.red, bh, p, Other(s))
  BY DEF Lacking, Hollow
<1>2. PICK bh2 : Heights(Q2, bh2) /\ Seen(t, u, Q, z, y, t.red, bh, bh2)
  BY <1>1, SubstitutedSeen
<1>3. ROOT # z /\ ROOT # y /\ NIL # z /\ NIL # y /\ NIL \notin Q /\ x # y
  BY <1>1, Below, TreeAssumption
<1>4. ASSUME NEW m \in Q2
      PROVE  /\ m # p2 => Level(u, u.red, bh2, m)
             /\ Loose(u, u.red, m, x)
  <2>1. PICK n \in Q : m = Swap(n, z, y)
    <3>1. m = y => m = Swap(z, z, y)
      BY DEF Swap
    <3>2. m # y => m \in Q /\ m = Swap(m, z, y)
      BY DEF Swap
    <3>3. QED
      BY <3>1, <3>2
  <2>2. m # p2 => Level(u, u.red, bh2, m)
    <3>1. m # p2 => \A q \in Sides : LevelOn(t, t.red, bh, n, q)
      BY <2>1 DEF Lacking, Level, LevelOn
    <3>2. m # p2 => \A q \in Sides : LevelOn(u, u.red, bh2, m, q)
      BY <1>2, <1>3, <2>1, <3>1, SeenNode
    <3>3. QED
      BY <3>2 DEF Level, LevelOn
  <2>3. Loose(u, u.red, m, x)
    <3>1. \A q \in Sides : PaleOn(t, t.red, n, x, q) \/ n = x
      BY DEF Lacking, Loose, PaleOn
    <3>2. n = x => m = x
      BY <1>3, <2>1 DEF Swap
    <3>3. \A q \in Sides : PaleOn(u, u.red, m, x, q) \/ m = x
      BY <1>2, <1>3, <2>1, <3>1, <3>2, SeenNode
    <3>4. QED
      BY <3>3 DEF Loose, PaleOn
  <2>4. QED
    BY <2>2, <2>3
<1>5. p2 \in Q2
  BY <1>1 DEF Swap
<1>6. Hollow(u, bh2, u.red, x, p2, s)
  <2>1. Swap(x, z, y) = x
    BY DEF Swap
  <2>2. u[s][p2] = x
    BY <1>1, <1>2, <2>1 DEF Seen
  <2>3. u.red[p2] = t.red[p] /\ bh2[p2] = bh[p] /\ bh2[x] = bh[x]
    BY <1>1, <1>2, <2>1 DEF Seen
  <2>4. LevelOn(u, u.red, bh2, p2, Other(s))
    <3>1. Other(s) \in Sides
      BY <1>1, TwoSides
    <3>2. QED
      BY <1>1, <1>2, <1>3, <3>1, SeenNode
  <2>5. QED
    BY <1>1, <2>2, <2>3, <2>4 DEF Hollow
<1>7. t.left[ROOT] \in Q \cup {NIL}
  BY DEF Kin
<1>8. u.red[u.left[ROOT]] = 0 /\ u.red[NIL] = 0 /\ u.red[ROOT] = 0
  <2>1. Swap(NIL, z, y) = NIL
    BY <1>3 DEF Swap
  <2>2. QED
    BY <1>1, <1>2, <1>7, <2>1 DEF Seen
<1>9. u.red \in [Addresses -> {0, 1}]
  BY DEF Images
<1>10. x \in Q2 \cup {NIL}
  BY <1>1
<1> HIDE DEF p2, Q2
<1>11. Lacking(u, u.red, Q2, bh2, x, p2, s)
  BY <1>1, <1>2, <1>4, <1>5, <1>6, <1>8, <1>9, <1>10 DEF Lacking
<1>12. QED
  BY <1>11 DEF p2, Q2

-----------------------------------------------------------------------------
(* Stores to a tree.                                                       *)

(* t is a tree with the nodes of Q, numbered by pos.                       *)
HasShape(t, Q, N, pos) == \E lo, hi : Shaped(t, Q, N, pos, lo, hi)

(* The nodes that are not in the tree are as free left them, and every     *)
(* node has the key it was made for.                                       *)
Clean(t, Q) ==
  \A n \in Uthreads :
    /\ t.key[n] = n
    /\ n \notin Q => t.left[n] = NIL /\ t.right[n] = NIL /\ t.parent[n] = NIL

(* Only colours and keys may differ.                                       *)
SamePointers(t, u) == \A g \in Pointers : u[g] = t[g]

(* Then all links are the same.                                            *)
LEMMA SamePointersLinks ==
  ASSUME NEW t, NEW u, SamePointers(t, u)
  PROVE  /\ u.left = t.left /\ u.right = t.right /\ u.parent = t.parent
         /\ \A s \in Sides : u[s] = t[s]
<1>1. u["left"] = t["left"] /\ u["right"] = t["right"] /\ u["parent"] = t["parent"]
  BY DEF SamePointers, Pointers
<1>2. QED
  BY <1>1 DEF Sides

(* And what colours say of the tree does not change.                       *)
LEMMA SamePointersColours ==
  ASSUME NEW t, NEW u, SamePointers(t, u), NEW r, NEW Q, NEW bh, NEW x
  PROVE  /\ Raised(t, r, Q, bh, x) => Raised(u, r, Q, bh, x)
         /\ AtTop(t, r, Q, bh, x) => AtTop(u, r, Q, bh, x)
         /\ Coloured(t, r, Q, bh) => Coloured(u, r, Q, bh)
         /\ \A p, s : Lacking(t, r, Q, bh, x, p, s) => Lacking(u, r, Q, bh, x, p, s)
<1>1. /\ u.left = t.left /\ u.right = t.right /\ u.parent = t.parent
      /\ \A s \in Sides : u[s] = t[s]
  BY SamePointersLinks
<1>2. ASSUME NEW n
      PROVE  /\ Level(t, r, bh, n) <=> Level(u, r, bh, n)
             /\ Pale(t, r, n, x) <=> Pale(u, r, n, x)
             /\ Pale(t, r, n, ROOT) <=> Pale(u, r, n, ROOT)
             /\ Loose(t, r, n, x) <=> Loose(u, r, n, x)
  BY <1>1 DEF Level, Pale, Loose
<1>3. Raised(t, r, Q, bh, x) => Raised(u, r, Q, bh, x)
  BY <1>1, <1>2 DEF Raised
<1>4. AtTop(t, r, Q, bh, x) => AtTop(u, r, Q, bh, x)
  BY <1>1, <1>2 DEF AtTop
<1>5. Coloured(t, r, Q, bh) => Coloured(u, r, Q, bh)
  BY <1>1, <1>2 DEF Coloured
<1>6. ASSUME NEW p, NEW s, Lacking(t, r, Q, bh, x, p, s)
      PROVE  Lacking(u, r, Q, bh, x, p, s)
  <2>1. s \in Sides /\ Hollow(t, bh, r, x, p, s)
    BY <1>6 DEF Lacking
  <2>2. Hollow(u, bh, r, x, p, s)
    BY <1>1, <2>1, TwoSides DEF Hollow, LevelOn
  <2>3. QED
    BY <1>1, <1>2, <1>6, <2>2 DEF Lacking
<1>7. QED
  BY <1>3, <1>4, <1>5, <1>6

(* A store to a red field changes a colour of the tree and not its shape.  *)
LEMMA PaintTree ==
  ASSUME NEW h \in Histories, NEW Q, NEW N, NEW pos, NEW lo, NEW hi,
         Shaped(Last(h), Q, N, pos, lo, hi), NEW P, Q \subseteq P, Clean(Last(h), P),
         NEW n \in Addresses, NEW c \in {0, 1}, n \in Q \/ c = 0
  PROVE  LET g == Paint(h, n, c)
         IN /\ g \in Histories
            /\ Shaped(Last(g), Q, N, pos, lo, hi) /\ Clean(Last(g), P)
            /\ SamePointers(Last(h), Last(g))
            /\ \A m \in Addresses : Last(g).red[m] = IF m = n THEN c ELSE Last(h).red[m]
<1> DEFINE g == Paint(h, n, c)
           t == Last(h)
           u == Last(g)
<1>1. g \in Histories /\ u \in Images
  BY PaintHistory, LastOfHistory
<1>2. /\ SamePointers(t, u) /\ u.key = t.key
      /\ \A m \in Addresses : u.red[m] = IF m = n THEN c ELSE t.red[m]
  BY PaintRed DEF SamePointers
<1> HIDE DEF g, t, u
<1>3. u.left = t.left /\ u.right = t.right /\ u.parent = t.parent
  BY <1>2, SamePointersLinks
<1>4. Shaped(t, Q, N, pos, lo, hi) /\ Clean(t, P)
  BY DEF t
<1>5. NIL \notin Q /\ ROOT \notin Q /\ NIL \in Addresses /\ ROOT \in Addresses
  BY <1>4, TreeAssumption DEF Shaped, Numbered, Addresses
<1>6. SameLinks(t, u, Q)
  <2>1. t.left[NIL] = NIL /\ t.right[NIL] = NIL /\ t.red[NIL] = 0 /\ t.red[ROOT] = 0
    BY <1>4 DEF Shaped, Sentinels
  <2>2. QED
    BY <1>2, <1>3, <1>5, <2>1 DEF SameLinks
<1>7. Shaped(u, Q, N, pos, lo, hi)
  BY <1>1, <1>4, <1>6, SameShape
<1>8. Clean(u, P)
  BY <1>2, <1>3, <1>4 DEF Clean
<1>9. QED
  BY <1>1, <1>2, <1>7, <1>8 DEF g, t, u

(* LeftRotate and RightRotate keep the nodes and their order.              *)
LEMMA RotateTree ==
  ASSUME NEW h \in Histories, NEW Q, NEW N, NEW pos, NEW lo, NEW hi,
         Shaped(Last(h), Q, N, pos, lo, hi), NEW P, Q \subseteq P, Clean(Last(h), P),
         NEW x \in Q, NEW s \in Sides, Last(h)[Other(s)][x] # NIL
  PROVE  LET g == Rotate(h, x, s)
         IN /\ g \in Histories
            /\ HasShape(Last(g), Q, N, pos) /\ Clean(Last(g), P)
            /\ Kin(Last(g), Q)
            /\ RotatedAt(Last(h), Last(g), x, s)
<1> DEFINE t == Last(h)
           g == Rotate(h, x, s)
           u == Last(g)
           y == t[Other(s)][x]
           b == t[s][y]
           p == t.parent[x]
<1>1. Shaped(t, Q, N, pos, lo, hi) /\ Clean(t, P)
  OBVIOUS
<1>2. Kin(t, Q) /\ Q \subseteq Uthreads /\ Q \subseteq Addresses
  BY <1>1, ShapeKin DEF Shaped, Numbered, Addresses
<1>3. Other(s) \in Sides /\ Other(Other(s)) = s
  BY TwoSides
<1>4. y \in Q /\ y # x /\ t.parent[y] = x /\ y # p
  BY <1>2, <1>3, Below
<1>5. /\ b = NIL \/ (b \in Q /\ b # y /\ t.parent[b] = y /\ b # x)
      /\ NIL \notin Q
  <2>1. \/ b = NIL
        \/ b \in Q /\ b # y /\ t.parent[b] = y /\ b # t.parent[y]
    BY <1>2, <1>4, Below
  <2>2. NIL \notin Q
    BY <1>2, TreeAssumption
  <2> HIDE DEF b, y, p, t
  <2>3. QED
    BY <1>4, <2>1, <2>2
<1>6. p # x
  BY <1>2, Above
<1>7. g \in Histories /\ RotatedAt(t, u, x, s)
  BY <1>2, <1>4, <1>5, <1>6, RotateEffect
<1> HIDE DEF g
<1>8. u \in Images
  BY <1>7, LastOfHistory
<1> HIDE DEF t, u
<1>9. HasShape(u, Q, N, pos)
  <2>1. CASE s = "left"
    <3>1. y = t.right[x] /\ y # NIL
      BY <1>4, <1>5, <2>1 DEF Other
    <3>2. Shaped(u, Q, N, pos, [lo EXCEPT ![y] = lo[x]],
                 [hi EXCEPT ![y] = hi[x], ![x] = pos[y] - 1])
      BY <1>1, <1>7, <1>8, <2>1, <3>1, RotateLeftShape
    <3>3. QED
      BY <3>2 DEF HasShape
  <2>2. CASE s = "right"
    <3>1. y = t.left[x] /\ y # NIL
      BY <1>4, <1>5, <2>2 DEF Other
    <3>2. Shaped(u, Q, N, pos, [lo EXCEPT ![y] = lo[x], ![x] = pos[y] + 1],
                 [hi EXCEPT ![y] = hi[x]])
      BY <1>1, <1>7, <1>8, <2>2, <3>1, RotateRightShape
    <3>3. QED
      BY <3>2 DEF HasShape
  <2>3. QED
    BY <2>1, <2>2 DEF Sides
<1>10. Kin(u, Q)
  BY <1>9, ShapeKin DEF HasShape
<1>11. Clean(u, P)
  <2>1. u.key = t.key
    BY <1>7 DEF RotatedAt
  <2>2. ASSUME NEW n \in Uthreads, n \notin P
        PROVE  u.left[n] = NIL /\ u.right[n] = NIL /\ u.parent[n] = NIL
    <3>1. n \in Addresses /\ n # x /\ n # y /\ (b # NIL => n # b)
      BY <1>4, <1>5, <2>2 DEF Addresses
    <3>2. n # p
      <4>1. p = ROOT \/ p \in Q
        BY <1>2, Above
      <4>2. QED
        BY <2>2, <4>1, TreeAssumption
    <3>3. \A q \in Sides : u[q][n] = t[q][n]
      BY <1>7, <3>1, <3>2 DEF RotatedAt
    <3>4. u.parent[n] = t.parent[n]
      BY <1>7, <3>1 DEF RotatedAt
    <3>5. u["left"][n] = t["left"][n] /\ u["right"][n] = t["right"][n]
      BY <3>3 DEF Sides
    <3>6. QED
      BY <1>1, <2>2, <3>4, <3>5 DEF Clean
  <2>3. QED
    BY <1>1, <2>1, <2>2 DEF Clean
<1>12. QED
  BY <1>7, <1>9, <1>10, <1>11 DEF t, u, g

-----------------------------------------------------------------------------
(* What somebody who reads without the lock may meet: not a tree, but      *)
(* nodes of P only.                                                        *)

(* From the top to the right there is nothing but nodes of P, every key is *)
(* its node's, and a top is missing only if there is one node or none.     *)
Passable(t, P) ==
  /\ t.left[ROOT] \in P \cup {NIL} /\ \A n \in P : t.right[n] \in P \cup {NIL}
  /\ t.left[ROOT] = NIL => \A m, n \in P : m = n
  /\ \A n \in Uthreads : t.key[n] = n

(* So it is in every image, and a top that was there once stays there.     *)
Walkable(h, P) ==
  /\ \A i \in 1..Len(h) : Passable(h[i], P)
  /\ \A i \in 1..(Len(h) - 1) : h[i].left[ROOT] # NIL => h[i + 1].left[ROOT] # NIL

(* One more image.                                                         *)
LEMMA AppendWalks ==
  ASSUME NEW h \in Histories, NEW P, Walkable(h, P), NEW t \in Images, Passable(t, P),
         Last(h).left[ROOT] # NIL => t.left[ROOT] # NIL
  PROVE  Walkable(Append(h, t), P)
<1> DEFINE g == Append(h, t)
<1>1. /\ Len(h) \in Nat \ {0} /\ Len(g) = Len(h) + 1 /\ Last(h) = h[Len(h)]
      /\ \A i \in 1..Len(h) : g[i] = h[i]
      /\ g[Len(h) + 1] = t
  BY DEF Histories, Last
<1> HIDE DEF g
<1>2. \A i \in 1..Len(h) : Passable(h[i], P)
  BY DEF Walkable
<1>3. ASSUME NEW i \in 1..Len(g) PROVE Passable(g[i], P)
  <2>1. i \in 1..Len(h) \/ i = Len(h) + 1
    BY <1>1
  <2>2. QED
    BY <1>1, <1>2, <2>1
<1>4. ASSUME NEW i \in 1..(Len(g) - 1), g[i].left[ROOT] # NIL PROVE g[i + 1].left[ROOT] # NIL
  <2>1. CASE i = Len(h)
    BY <1>1, <1>4, <2>1
  <2>2. CASE i # Len(h)
    <3>1. i \in 1..(Len(h) - 1) /\ i \in 1..Len(h) /\ i + 1 \in 1..Len(h)
      BY <1>1, <2>2
    <3>2. g[i] = h[i] /\ g[i + 1] = h[i + 1]
      BY <1>1, <3>1
    <3>3. QED
      BY <1>4, <3>1, <3>2 DEF Walkable
  <2>3. QED
    BY <2>1, <2>2
<1>5. Walkable(g, P)
  BY <1>3, <1>4 DEF Walkable
<1>6. QED
  BY <1>5 DEF g

(* The newest is such an image.                                            *)
LEMMA LastPassable ==
  ASSUME NEW h \in Histories, NEW P, Walkable(h, P)
  PROVE  Passable(Last(h), P)
BY DEF Histories, Walkable, Last

(* A store keeps to that if what it writes to the right of one of the      *)
(* nodes is one of them, and what it hangs from tree->root too.            *)
LEMMA PutWalks ==
  ASSUME NEW h \in Histories, NEW P, P \subseteq Uthreads, Walkable(h, P),
         NEW f \in Pointers, NEW n \in Addresses, NEW v \in Addresses,
         f = "right" /\ n \in P => v \in P \cup {NIL},
         f = "left" /\ n = ROOT => v \in P
  PROVE  Put(h, f, n, v) \in Histories /\ Walkable(Put(h, f, n, v), P)
<1> DEFINE t == Last(h)
           u == [t EXCEPT ![f][n] = v]
           g == Put(h, f, n, v)
<1>1. g \in Histories /\ g = Append(h, u)
  BY PutHistory DEF Put
<1>2. Last(g) = u
  BY DEF Put, Histories, Last
<1> HIDE DEF u
<1>3. /\ \A q \in Pointers : \A m \in Addresses :
           u[q][m] = IF q = f /\ m = n THEN v ELSE t[q][m]
      /\ u.key = t.key
  BY <1>2, PutPointer
<1>4. Passable(t, P)
  BY LastPassable
<1>5. u \in Images
  BY <1>1, <1>2, LastOfHistory
<1> HIDE DEF t, g
<1>6. /\ ROOT \in Addresses /\ "left" \in Pointers /\ "right" \in Pointers
      /\ \A m \in P : m \in Addresses
      /\ NIL \notin P
  BY TreeAssumption DEF Addresses, Pointers
<1>7. u["left"][ROOT] = IF "left" = f /\ ROOT = n THEN v ELSE t["left"][ROOT]
  BY <1>3, <1>6
<1>8. \A m \in P : u["right"][m] = IF "right" = f /\ m = n THEN v ELSE t["right"][m]
  BY <1>3, <1>6
<1>9. u.left[ROOT] = t.left[ROOT] \/ (u.left[ROOT] \in P /\ u.left[ROOT] # NIL)
  BY <1>6, <1>7
<1>10. \A m \in P : u.right[m] \in P \cup {NIL}
  BY <1>4, <1>8 DEF Passable
<1>11. Passable(u, P)
  BY <1>3, <1>4, <1>9, <1>10 DEF Passable
<1>12. t.left[ROOT] # NIL => u.left[ROOT] # NIL
  BY <1>9
<1>13. Walkable(Append(h, u), P)
  BY <1>5, <1>11, <1>12, AppendWalks DEF t
<1>14. QED
  BY <1>1, <1>13 DEF g

(* One that changes no pointer and no key does.                            *)
LEMMA StillWalks ==
  ASSUME NEW h \in Histories, NEW P, Walkable(h, P), NEW u \in Images,
         u.left = Last(h).left, u.right = Last(h).right, u.key = Last(h).key
  PROVE  Walkable(Append(h, u), P)
<1>1. Passable(Last(h), P)
  BY LastPassable
<1>2. Passable(u, P)
  BY <1>1 DEF Passable
<1>3. QED
  BY <1>2, AppendWalks

(* A store to a red field does.                                            *)
LEMMA PaintWalks ==
  ASSUME NEW h \in Histories, NEW P, Walkable(h, P), NEW n \in Addresses, NEW c \in {0, 1}
  PROVE  Walkable(Paint(h, n, c), P)
<1> DEFINE g == Paint(h, n, c)
           u == [Last(h) EXCEPT !["red"][n] = c]
<1>1. g = Append(h, u)
  BY DEF Paint, Put
<1>2. /\ u \in Images /\ u.left = Last(h).left /\ u.right = Last(h).right
      /\ u.key = Last(h).key
  BY LastOfHistory DEF Images
<1> HIDE DEF g, u
<1>3. QED
  BY <1>1, <1>2, StillWalks DEF g

(* A rotation does, from its first store to its last.                      *)
LEMMA RotateWalks ==
  ASSUME NEW h \in Histories, NEW P, Kin(Last(h), P), Walkable(h, P),
         NEW x \in P, NEW s \in Sides, Last(h)[Other(s)][x] # NIL
  PROVE  Walkable(Rotate(h, x, s), P)
<1> DEFINE t == Last(h)
           o == Other(s)
           y == t[o][x]
           b == t[s][y]
           h1 == Put(h, o, x, b)
           h2 == Adopted(h1, b, x)
           h3 == Put(h2, "parent", y, t.parent[x])
           p == Last(h3).parent[x]
           q == IF x = Last(h3).left[p] THEN "left" ELSE "right"
           h4 == Put(h3, q, p, y)
           h5 == Put(h4, s, y, x)
           h6 == Put(h5, "parent", x, y)
<1>1. Rotate(h, x, s) = h6
  BY DEF Rotate, Replace
<1>2. P \subseteq Uthreads /\ NIL \notin P /\ ROOT \notin P /\ P \cup {NIL} \subseteq Addresses
  BY TreeAssumption DEF Kin, Addresses
<1>3. o \in Sides /\ o \in Pointers /\ s \in Pointers /\ "parent" \in Pointers /\ q \in Pointers
  BY TwoSides DEF Sides, Pointers
<1>4. y \in P
  BY <1>3, Below
<1>5. b \in P \cup {NIL}
  BY <1>4, Below
<1>6. t \in Images /\ t.parent[x] \in Addresses
  BY <1>2 DEF Kin, Images
<1> HIDE DEF o, y, b, t, q
<1>7. h1 \in Histories /\ Walkable(h1, P)
  BY <1>2, <1>3, <1>5, PutWalks
<1> HIDE DEF h1
<1>8. h2 \in Histories /\ Walkable(h2, P)
  <2>1. b # NIL => Put(h1, "parent", b, x) \in Histories /\ Walkable(Put(h1, "parent", b, x), P)
    BY <1>2, <1>3, <1>5, <1>7, PutWalks
  <2>2. QED
    BY <1>7, <2>1 DEF Adopted
<1> HIDE DEF h2
<1>9. h3 \in Histories /\ Walkable(h3, P)
  BY <1>2, <1>3, <1>4, <1>6, <1>8, PutWalks
<1> HIDE DEF h3
<1>10. p \in Addresses
  BY <1>2, <1>9, LastOfHistory DEF Images
<1> HIDE DEF p
<1>11. h4 \in Histories /\ Walkable(h4, P)
  BY <1>2, <1>3, <1>4, <1>9, <1>10, PutWalks
<1> HIDE DEF h4
<1>12. h5 \in Histories /\ Walkable(h5, P)
  BY <1>2, <1>3, <1>4, <1>11, PutWalks
<1> HIDE DEF h5
<1>13. h6 \in Histories /\ Walkable(h6, P)
  BY <1>2, <1>3, <1>4, <1>12, PutWalks
<1>14. QED
  BY <1>1, <1>13

-----------------------------------------------------------------------------
(* Loops: numbers, and functions defined turn by turn.                     *)

(* A set of natural numbers has a least one.                               *)
LEMMA Least ==
  ASSUME NEW S, S \subseteq Nat, S # {}
  PROVE  \E m \in S : \A k \in S : m <= k
<1> DEFINE R == OpToRel(<, Nat)
<1>1. IsWellFoundedOn(R, Nat)
  BY NatLessThanWellFounded
<1>2. \A m, k \in Nat : <<m, k>> \in R <=> m < k
  BY DEF OpToRel
<1> HIDE DEF R
<1>3. PICK m \in S : \A k \in S : ~ (<<k, m>> \in R)
  BY <1>1, WFMin
<1>4. ASSUME NEW k \in S PROVE m <= k
  <2>1. m \in Nat /\ k \in Nat
    OBVIOUS
  <2>2. ~ (k < m)
    BY <1>2, <1>3, <2>1
  <2>3. QED
    BY <2>1, <2>2
<1>5. QED
  BY <1>4

(* Induction, for a set.                                                   *)
LEMMA Induct ==
  ASSUME NEW S, S \subseteq Nat, 0 \in S, \A n \in S : n + 1 \in S
  PROVE  S = Nat
<1> SUFFICES ASSUME Nat \ S # {} PROVE FALSE
  OBVIOUS
<1>1. PICK m \in Nat \ S : \A k \in Nat \ S : m <= k
  BY Least
<1>2. m # 0 /\ m - 1 \in Nat
  BY <1>1
<1>3. m - 1 \in S
  BY <1>1, <1>2
<1>4. (m - 1) + 1 = m
  BY <1>1
<1>5. QED
  BY <1>1, <1>3, <1>4

(* F again and again, from a. *)
Iterates(f, S, F, a, n) ==
  f \in [0..n -> S] /\ f[0] = a /\ \A i \in 0..(n - 1) : f[i + 1] = F[f[i]]

(* For ever.                                                               *)
Endless(f, S, F, a) ==
  f \in [Nat -> S] /\ f[0] = a /\ \A n \in Nat : f[n + 1] = F[f[n]]

(* What is iterated can be iterated for ever: this is why the turns of a   *)
(* loop are a function.                                                    *)
LEMMA Iterated ==
  ASSUME NEW S, NEW F \in [S -> S], NEW a \in S
  PROVE  \E f : Endless(f, S, F, a)
<1> DEFINE Good == {n \in Nat : \E f : Iterates(f, S, F, a, n)}
<1>1. 0 \in Good
  <2>1. Iterates([i \in 0..0 |-> a], S, F, a, 0)
    BY DEF Iterates
  <2>2. QED
    BY <2>1
<1>2. ASSUME NEW n \in Good PROVE n + 1 \in Good
  <2>1. n \in Nat
    OBVIOUS
  <2>2. PICK f : Iterates(f, S, F, a, n)
    OBVIOUS
  <2> DEFINE g == [i \in 0..(n + 1) |-> IF i = n + 1 THEN F[f[n]] ELSE f[i]]
  <2>3. /\ f \in [0..n -> S] /\ f[0] = a
        /\ \A i \in 0..(n - 1) : f[i + 1] = F[f[i]]
    BY <2>2 DEF Iterates
  <2>4. f[n] \in S /\ F[f[n]] \in S
    BY <2>1, <2>3
  <2>5. g \in [0..(n + 1) -> S]
    <3>1. ASSUME NEW i \in 0..(n + 1), i # n + 1 PROVE f[i] \in S
      BY <2>1, <2>3, <3>1
    <3>2. QED
      BY <2>4, <3>1
  <2>6. g[0] = a
    BY <2>1, <2>3
  <2>7. ASSUME NEW i \in 0..((n + 1) - 1) PROVE g[i + 1] = F[g[i]]
    <3>1. CASE i = n
      BY <2>1, <3>1
    <3>2. CASE i # n
      <4>1. i \in 0..(n - 1) /\ i + 1 \in 0..(n + 1) /\ i \in 0..(n + 1)
            /\ i + 1 # n + 1 /\ i # n + 1
        BY <2>1, <3>2
      <4>2. QED
        BY <2>3, <4>1
    <3>3. QED
      BY <3>1, <3>2
  <2> HIDE DEF g
  <2>8. Iterates(g, S, F, a, n + 1)
    BY <2>5, <2>6, <2>7 DEF Iterates
  <2>9. QED
    BY <2>1, <2>8
<1>3. Good = Nat
  <2> HIDE DEF Good
  <2>1. Good \subseteq Nat
    BY DEF Good
  <2>2. QED
    BY <1>1, <1>2, <2>1, Induct
<1> DEFINE fs == [n \in Nat |-> CHOOSE f : Iterates(f, S, F, a, n)]
<1>4. \A n \in Nat : Iterates(fs[n], S, F, a, n)
  BY <1>3
<1> HIDE DEF fs, Good
<1>5. \A n \in Nat : fs[n][n] \in S
  BY <1>4 DEF Iterates
<1>6. ASSUME NEW n \in Nat PROVE fs[n + 1][n] = fs[n][n]
  <2> DEFINE Same == {i \in Nat : i <= n => fs[n + 1][i] = fs[n][i]}
  <2>1. Iterates(fs[n], S, F, a, n) /\ Iterates(fs[n + 1], S, F, a, n + 1)
    BY <1>4
  <2>2. 0 \in Same
    BY <2>1 DEF Iterates
  <2>3. ASSUME NEW i \in Same PROVE i + 1 \in Same
    <3>1. CASE i + 1 <= n
      <4>1. i \in 0..(n - 1) /\ i \in 0..((n + 1) - 1)
        BY <3>1
      <4>2. fs[n + 1][i + 1] = F[fs[n + 1][i]] /\ fs[n][i + 1] = F[fs[n][i]]
        BY <2>1, <4>1 DEF Iterates
      <4>3. fs[n + 1][i] = fs[n][i]
        BY <3>1
      <4>4. QED
        BY <4>2, <4>3
    <3>2. CASE ~(i + 1 <= n)
      BY <3>2
    <3>3. QED
      BY <3>1, <3>2
  <2>4. Same = Nat
    <3> HIDE DEF Same
    <3>1. Same \subseteq Nat
      BY DEF Same
    <3>2. QED
      BY <2>2, <2>3, <3>1, Induct
  <2>5. QED
    BY <2>4
<1>7. ASSUME NEW n \in Nat PROVE fs[n + 1][n + 1] = F[fs[n][n]]
  <2>1. Iterates(fs[n + 1], S, F, a, n + 1) /\ n \in 0..((n + 1) - 1)
    BY <1>4
  <2>2. fs[n + 1][n + 1] = F[fs[n + 1][n]]
    BY <2>1 DEF Iterates
  <2>3. QED
    BY <1>6, <2>2
<1> DEFINE g == [n \in Nat |-> fs[n][n]]
<1>8. g \in [Nat -> S] /\ g[0] = a
  BY <1>4, <1>5 DEF Iterates
<1>9. \A n \in Nat : g[n + 1] = F[g[n]]
  BY <1>7
<1> HIDE DEF g
<1>10. Endless(g, S, F, a)
  BY <1>8, <1>9 DEF Endless
<1>11. QED
  BY <1>10

(* The loops of the tree's two fix-ups, as recursive functions. *)
LEMMA InsertTurnsAre ==
  ASSUME NEW h, NEW x, NEW S, <<h, x>> \in S,
         \A e \in S : InsertTurn(e[1], e[2]) \in S
  PROVE  /\ InsertTurns(h, x)[0] = <<h, x>>
         /\ \A n \in Nat : LET e == InsertTurns(h, x)[n]
                           IN e \in S /\ InsertTurns(h, x)[n + 1] = InsertTurn(e[1], e[2])
<1> DEFINE F == [e \in S |-> InsertTurn(e[1], e[2])]
           Turns(f) == f = [i \in Nat |-> IF i = 0 THEN <<h, x>>
                                          ELSE LET r == f[i - 1] IN InsertTurn(r[1], r[2])]
<1>1. F \in [S -> S]
  OBVIOUS
<1> DEFINE a == <<h, x>>
<1>2. PICK f : f \in [Nat -> S] /\ f[0] = a /\ \A n \in Nat : f[n + 1] = F[f[n]]
  <2>1. a \in S
    OBVIOUS
  <2> HIDE DEF F, a
  <2>2. \E f : Endless(f, S, F, a)
    BY <1>1, <2>1, Iterated
  <2>3. QED
    BY <2>2 DEF Endless
<1>3. Turns(f)
  <2>1. ASSUME NEW i \in Nat, i # 0 PROVE f[i] = InsertTurn(f[i - 1][1], f[i - 1][2])
    <3>1. i - 1 \in Nat /\ (i - 1) + 1 = i
      BY <2>1
    <3>2. f[i] = F[f[i - 1]] /\ f[i - 1] \in S
      BY <1>2, <3>1
    <3>3. QED
      BY <3>2
  <2>2. QED
    BY <1>2, <2>1
<1>4. Turns(InsertTurns(h, x))
  <2>1. InsertTurns(h, x) = CHOOSE g : Turns(g)
    BY DEF InsertTurns
  <2>2. QED
    BY <1>3, <2>1
<1> DEFINE g == InsertTurns(h, x)
<1> HIDE DEF g
<1>5. g[0] = <<h, x>> /\ \A n \in Nat : g[n + 1] = InsertTurn(g[n][1], g[n][2])
  <2>1. Turns(g)
    BY <1>4 DEF g
  <2>2. g[0] = <<h, x>>
    BY <2>1
  <2>3. ASSUME NEW n \in Nat PROVE g[n + 1] = InsertTurn(g[n][1], g[n][2])
    <3>1. n + 1 \in Nat /\ n + 1 # 0 /\ (n + 1) - 1 = n
      OBVIOUS
    <3>2. g[n + 1] = InsertTurn(g[(n + 1) - 1][1], g[(n + 1) - 1][2])
      BY <2>1, <3>1
    <3>3. QED
      BY <3>1, <3>2
  <2>4. QED
    BY <2>2, <2>3
<1>6. \A n \in Nat : g[n] \in S
  <2> DEFINE T == {n \in Nat : g[n] \in S}
  <2>1. 0 \in T
    BY <1>5
  <2>0. ASSUME NEW n \in T PROVE n + 1 \in T
    <3>1. n \in Nat /\ g[n] \in S
      OBVIOUS
    <3>2. InsertTurn(g[n][1], g[n][2]) \in S
      BY <3>1
    <3>3. QED
      BY <1>5, <3>1, <3>2
  <2>2. T = Nat
    <3> HIDE DEF T
    <3>1. T \subseteq Nat
      BY DEF T
    <3>2. QED
      BY <2>1, <2>0, <3>1, Induct
  <2>3. QED
    BY <2>2
<1>7. QED
  BY <1>5, <1>6 DEF g

-----------------------------------------------------------------------------
(* The loop of RBTreeInsert.                                               *)

(* A node is above fewer nodes than its parent is. *)
Width(lo, hi, n) == hi[n] - lo[n]

(* So every step up a tree leads to a node above more of them.             *)
LEMMA Wider ==
  ASSUME NEW t, NEW Q, NEW N, NEW pos, NEW lo, NEW hi,
         Shaped(t, Q, N, pos, lo, hi), NEW n \in Q, t.parent[n] \in Q
  PROVE  /\ Width(lo, hi, n) \in Int
         /\ Width(lo, hi, t.parent[n]) >= Width(lo, hi, n) + 1
<1> DEFINE p == t.parent[n]
<1>1. n \in {t.left[p], t.right[p]}
  <2>1. Hangs(t, Q, n)
    BY DEF Shaped
  <2>2. p # ROOT
    BY TreeAssumption DEF Shaped, Numbered
  <2>3. QED
    BY <2>1, <2>2 DEF Hangs
<1>2. n # NIL
  BY TreeAssumption DEF Shaped, Numbered
<1>3. Spans(t, Q, pos, lo, hi, p) /\ Spans(t, Q, pos, lo, hi, n)
  BY DEF Shaped
<1>4. /\ pos[n] \in Int /\ lo[n] \in Int /\ hi[n] \in Int
      /\ pos[p] \in Int /\ lo[p] \in Int /\ hi[p] \in Int
      /\ lo[p] <= pos[p] /\ pos[p] <= hi[p]
  BY <1>3 DEF Spans
<1>5. \/ lo[n] = lo[p] /\ hi[n] = pos[p] - 1
      \/ lo[n] = pos[p] + 1 /\ hi[n] = hi[p]
  BY <1>1, <1>2, <1>3 DEF Spans
<1> HIDE DEF p
<1>6. QED
  BY <1>4, <1>5 DEF Width, p

-----------------------------------------------------------------------------
(* The loop of RBTreeInsert: x is red, and the loop is over or x is above  *)
(* at least i more nodes.  All the way to there can be walked.             *)
Ascending(h, Q, N, pos, x, i) ==
  /\ h \in Histories /\ x \in Q /\ Clean(Last(h), Q) /\ Walkable(h, Q)
  /\ \E lo, hi, bh :
       /\ Shaped(Last(h), Q, N, pos, lo, hi)
       /\ Raised(Last(h), Last(h).red, Q, bh, x)
       /\ Last(h).red[Last(h).parent[x]] = 0 \/ Width(lo, hi, x) >= i

(* A turn with x on the outside ends the loop of RBTreeInsert.             *)
LEMMA RisingStep ==
  ASSUME NEW h \in Histories, NEW Q, NEW N, NEW pos, NEW lo, NEW hi, NEW bh,
         Shaped(Last(h), Q, N, pos, lo, hi), Clean(Last(h), Q), Walkable(h, Q), NEW x,
         Raised(Last(h), Last(h).red, Q, bh, x),
         NEW p, NEW g, NEW y, NEW s \in Sides, NEW o, o = Other(s),
         Line(Last(h), x, p, g, y, s, o), p \in Q, g \in Q,
         Last(h).red[p] = 1, Last(h).red[y] = 0, NEW i
  PROVE  Ascending(Rising(h, x, s), Q, N, pos, x, i)
<1> DEFINE t == Last(h)
           h1 == Paint(h, p, 0)
           h2 == Paint(h1, g, 1)
           h3 == Rotate(h2, g, o)
           t2 == Last(h2)
           u == Last(h3)
<1>1. Rising(h, x, s) = h3
  BY DEF Rising, Line, Uncle
<1>2. /\ Kin(t, Q) /\ p \in Addresses /\ g \in Addresses /\ p # NIL
  BY ShapeKin, TreeAssumption DEF Kin, Addresses
<1>3. /\ h1 \in Histories
      /\ Shaped(Last(h1), Q, N, pos, lo, hi) /\ Clean(Last(h1), Q)
      /\ SamePointers(t, Last(h1))
      /\ \A m \in Addresses : Last(h1).red[m] = IF m = p THEN 0 ELSE t.red[m]
  BY <1>2, PaintTree
<1>4. /\ h2 \in Histories
      /\ Shaped(t2, Q, N, pos, lo, hi) /\ Clean(t2, Q)
      /\ SamePointers(Last(h1), t2)
      /\ \A m \in Addresses : t2.red[m] = IF m = g THEN 1 ELSE Last(h1).red[m]
  <2> HIDE DEF h1
  <2>1. QED
    BY <1>2, <1>3, PaintTree
<1> HIDE DEF t, h1, h2
<1>5. SamePointers(t, t2) /\ Repainted(t.red, t2.red, {g}, {p})
  BY <1>3, <1>4 DEF SamePointers, Repainted
<1> HIDE DEF t2
<1>6. Raised(t2, t.red, Q, bh, x)
  BY <1>5, SamePointersColours DEF t
<1>7. Line(t2, x, p, g, y, s, o)
  BY <1>5, SamePointersLinks, TwoSides DEF Line, Uncle, t
<1>8. o \in Sides /\ Other(o) = s
  BY TwoSides
<1>9. t2[s][g] # NIL
  BY <1>2, <1>7 DEF Line, Uncle
<1>10. /\ h3 \in Histories /\ HasShape(u, Q, N, pos) /\ Clean(u, Q)
       /\ Kin(u, Q) /\ RotatedAt(t2, u, g, o)
  BY <1>4, <1>8, <1>9, RotateTree DEF t2
<1>19. Walkable(h2, Q)
  <2>1. Walkable(h1, Q)
    BY <1>2, PaintWalks DEF h1
  <2>2. QED
    BY <1>2, <1>3, <2>1, PaintWalks DEF h2
<1>20. Walkable(h3, Q)
  <2>1. Kin(Last(h2), Q) /\ Last(h2)[Other(o)][g] # NIL
    BY <1>4, <1>8, <1>9, ShapeKin DEF t2
  <2>2. QED
    BY <1>4, <1>8, <1>19, <2>1, RotateWalks
<1> HIDE DEF h3, u
<1>11. u.red = t2.red
  BY <1>10 DEF RotatedAt
<1>12. Kin(t2, Q)
  BY <1>4, ShapeKin
<1>13. t.red[p] = 1 /\ t.red[y] = 0
  BY DEF t
<1>14. Repainted(t.red, u.red, {g}, {p})
  BY <1>5, <1>11
<1>15. \E bh2 : Settled(u, Q, bh2, x)
  BY <1>6, <1>7, <1>10, <1>12, <1>13, <1>14, RaisedOuter
<1>16. x \in Q
  BY DEF Raised
<1>17. Ascending(h3, Q, N, pos, x, i)
  BY <1>10, <1>15, <1>16, <1>20 DEF Ascending, HasShape, Settled, u
<1>18. QED
  BY <1>1, <1>17

(* The nodes a turn of the loop is about. *)
Around(t, x, p, g, y, s, o) ==
  /\ p = t.parent[x] /\ g = t.parent[p]
  /\ s = IF p = t.left[g] THEN "left" ELSE "right"
  /\ o = Other(s) /\ y = t[o][g]

(* What they are to each other if p is red.                                *)
Relatives(t, Q, x, p, g, y, s, o) ==
  /\ p \in Q /\ g \in Q /\ x \in Q /\ s \in Sides
  /\ Uncle(t, x, p, g, y, s, o)
  /\ y \in Q \cup {NIL} /\ y # p /\ g # p /\ g # x /\ x # p
  /\ x = t[s][p] \/ x = t[o][p]

(* The top is black, so that a red p has a parent.                         *)
LEMMA RaisedFamily ==
  ASSUME NEW t, NEW Q, Kin(t, Q), NEW bh, NEW x, Raised(t, t.red, Q, bh, x),
         NEW p, NEW g, NEW y, NEW s, NEW o, Around(t, x, p, g, y, s, o), t.red[p] = 1
  PROVE  Relatives(t, Q, x, p, g, y, s, o)
<1>1. /\ x \in Q /\ t.red[NIL] = 0 /\ t.red[ROOT] = 0
      /\ t.red[t.left[ROOT]] = 0 \/ t.left[ROOT] = x
  BY DEF Raised
<1>2. /\ p \in Q /\ x # p /\ t.parent[x] = p
      /\ \E q \in Sides : t[q][p] = x
  <2>1. p = t.parent[x] /\ p # ROOT
    BY <1>1 DEF Around
  <2>2. p # x /\ p \in Q /\ \E q \in Sides : t[q][p] = x
    BY <1>1, <2>1, Above
  <2>3. QED
    BY <2>1, <2>2
<1>3. /\ g \in Q /\ g # p /\ t.parent[p] = g
      /\ \E q \in Sides : t[q][g] = p
  <2>1. g = t.parent[p]
    BY DEF Around
  <2>2. g # ROOT
    <3>1. t.left[ROOT] # p
      BY <1>1, <1>2
    <3>2. QED
      BY <1>2, <2>1, <3>1, Above, TreeAssumption DEF Kin
  <2>3. g # p /\ g \in Q /\ \E q \in Sides : t[q][g] = p
    BY <1>2, <2>1, <2>2, Above
  <2>4. QED
    BY <2>1, <2>3
<1>4. /\ s \in Sides /\ o \in Sides /\ o = Other(s)
      /\ s = (IF p = t.left[g] THEN "left" ELSE "right")
  <2>1. s \in Sides /\ s = (IF p = t.left[g] THEN "left" ELSE "right") /\ o = Other(s)
    BY DEF Around, Sides
  <2>2. QED
    BY <2>1, TwoSides
<1>5. t[s][g] = p
  <2>1. t["left"][g] = p \/ t["right"][g] = p
    BY <1>3 DEF Sides
  <2>2. QED
    BY <1>4, <2>1
<1>6. t[o][g] = y
  BY DEF Around
<1>7. y \in Q \cup {NIL} /\ y # p
  <2>1. p # NIL
    BY <1>2, TreeAssumption DEF Kin
  <2>2. Children(t, Q, g, t[s][g], t[o][g])
    BY <1>3, <1>4, ChildrenOf
  <2>3. QED
    BY <1>5, <1>6, <2>1, <2>2 DEF Children
<1>8. x = t[s][p] \/ x = t[o][p]
  BY <1>2, <1>4, TwoSides
<1>9. g # x
  <2>1. PICK q \in Sides : t[q][p] = x
    BY <1>2
  <2>2. x # NIL
    BY <1>1, TreeAssumption DEF Kin
  <2>3. x # t.parent[p]
    BY <1>2, <2>1, <2>2, Below
  <2>4. QED
    BY <1>3, <2>3
<1>10. QED
  BY <1>1, <1>2, <1>3, <1>4, <1>5, <1>6, <1>7, <1>8, <1>9 DEF Uncle, Relatives

(* A turn with a red uncle brings x up by two levels.                      *)
LEMMA RecolourStep ==
  ASSUME NEW h \in Histories, NEW Q, NEW N, NEW pos, NEW lo, NEW hi, NEW bh,
         Shaped(Last(h), Q, N, pos, lo, hi), Clean(Last(h), Q), Walkable(h, Q), NEW x,
         Raised(Last(h), Last(h).red, Q, bh, x),
         NEW p, NEW g, NEW y, NEW s \in Sides, NEW o, o = Other(s),
         Uncle(Last(h), x, p, g, y, s, o), p \in Q, g \in Q, y \in Q,
         Last(h).red[p] = 1, Last(h).red[y] = 1, g # p, g # y,
         NEW i \in Nat, Width(lo, hi, x) >= i
  PROVE  Ascending(Paint(Paint(Paint(h, p, 0), y, 0), g, 1), Q, N, pos, g, i + 1)
<1> DEFINE t == Last(h)
           h1 == Paint(h, p, 0)
           h2 == Paint(h1, y, 0)
           h3 == Paint(h2, g, 1)
           u == Last(h3)
<1>1. Kin(t, Q) /\ p \in Addresses /\ g \in Addresses /\ y \in Addresses
  BY ShapeKin DEF Kin, Addresses
<1>2. /\ h1 \in Histories
      /\ Shaped(Last(h1), Q, N, pos, lo, hi) /\ Clean(Last(h1), Q)
      /\ SamePointers(t, Last(h1))
      /\ \A m \in Addresses : Last(h1).red[m] = IF m = p THEN 0 ELSE t.red[m]
  BY <1>1, PaintTree
<1>13. Walkable(h1, Q)
  BY <1>1, PaintWalks
<1> HIDE DEF h1
<1>3. /\ h2 \in Histories
      /\ Shaped(Last(h2), Q, N, pos, lo, hi) /\ Clean(Last(h2), Q)
      /\ SamePointers(Last(h1), Last(h2))
      /\ \A m \in Addresses : Last(h2).red[m] = IF m = y THEN 0 ELSE Last(h1).red[m]
  BY <1>1, <1>2, PaintTree
<1>14. Walkable(h2, Q)
  BY <1>1, <1>2, <1>13, PaintWalks
<1> HIDE DEF h2
<1>4. /\ h3 \in Histories
      /\ Shaped(u, Q, N, pos, lo, hi) /\ Clean(u, Q)
      /\ SamePointers(Last(h2), u)
      /\ \A m \in Addresses : u.red[m] = IF m = g THEN 1 ELSE Last(h2).red[m]
  BY <1>1, <1>3, PaintTree
<1>15. Walkable(h3, Q)
  BY <1>1, <1>3, <1>14, PaintWalks
<1> HIDE DEF t, h3
<1>5. SamePointers(t, u)
  BY <1>2, <1>3, <1>4 DEF SamePointers
<1>6. Repainted(t.red, u.red, {g}, {p, y})
  BY <1>2, <1>3, <1>4 DEF Repainted
<1>7. u.red \in [Addresses -> {0, 1}]
  BY <1>4 DEF Shaped, Images
<1>8. \E bh2 : Raised(t, u.red, Q, bh2, g)
  BY <1>1, <1>6, <1>7, RaisedRecolour DEF t
<1>9. \E bh2 : Raised(u, u.red, Q, bh2, g)
  BY <1>5, <1>8, SamePointersColours
<1>10. Width(lo, hi, g) >= i + 1
  <2>1. x \in Q /\ t.parent[x] = p /\ t.parent[p] = g
    BY DEF Raised, Uncle, t
  <2>2. /\ Width(lo, hi, x) \in Int /\ Width(lo, hi, p) >= Width(lo, hi, x) + 1
    BY <2>1, Wider DEF t
  <2>3. /\ Width(lo, hi, p) \in Int /\ Width(lo, hi, g) >= Width(lo, hi, p) + 1
    BY <2>1, Wider DEF t
  <2>4. Width(lo, hi, g) \in Int
    <3>1. Spans(t, Q, pos, lo, hi, g)
      BY DEF Shaped, t
    <3>2. QED
      BY <3>1 DEF Spans, Width
  <2>5. QED
    BY <2>2, <2>3, <2>4
<1>11. Ascending(h3, Q, N, pos, g, i + 1)
  BY <1>4, <1>9, <1>10, <1>15 DEF Ascending
<1>12. QED
  BY <1>11 DEF h3, h2, h1

(* x is on the other side of p than p is of g.                             *)
Bent(t, x, p, g, y, s, o) == Uncle(t, x, p, g, y, s, o) /\ t[o][p] = x

(* A turn with x on the inside ends the loop.                              *)
LEMMA InnerStep ==
  ASSUME NEW h \in Histories, NEW Q, NEW N, NEW pos, NEW lo, NEW hi, NEW bh,
         Shaped(Last(h), Q, N, pos, lo, hi), Clean(Last(h), Q), Walkable(h, Q),
         NEW x \in Q,
         Raised(Last(h), Last(h).red, Q, bh, x),
         NEW p, NEW g, NEW y, NEW s \in Sides, NEW o, o = Other(s),
         Bent(Last(h), x, p, g, y, s, o), p \in Q, g \in Q, g # p, g # x, y # p,
         Last(h).red[p] = 1, Last(h).red[y] = 0, NEW i
  PROVE  Ascending(Rising(Rotate(h, p, s), p, s), Q, N, pos, p, i)
<1> DEFINE t == Last(h)
           h1 == Rotate(h, p, s)
           u == Last(h1)
<1>1. Kin(t, Q) /\ NIL \notin Q
  BY ShapeKin, TreeAssumption DEF Kin
<1>2. /\ h1 \in Histories /\ HasShape(u, Q, N, pos) /\ Clean(u, Q)
      /\ Kin(u, Q) /\ RotatedAt(t, u, p, s)
  <2>1. t[Other(s)][p] # NIL
    BY <1>1 DEF Bent
  <2>2. QED
    BY <2>1, RotateTree
<1>11. Walkable(h1, Q)
  <2>1. t[Other(s)][p] # NIL
    BY <1>1 DEF Bent
  <2>2. QED
    BY <1>1, <2>1, RotateWalks
<1> HIDE DEF t, h1, u
<1>3. x = t[o][p] /\ t.red[p] = 1 /\ t.red[y] = 0
  BY DEF Bent, Uncle, t
<1>4. Raised(u, u.red, Q, bh, p)
  <2>1. Inside(t, x, p, o)
    BY DEF Bent, Uncle, Inside, t
  <2>2. Raised(t, t.red, Q, bh, x)
    BY DEF t
  <2>3. QED
    BY <1>1, <1>2, <1>3, <2>1, <2>2, RaisedInner
<1>5. Line(u, p, x, g, y, s, o)
  <2>1. Swung(t, u, p, x, s, o)
    BY <1>1, <1>2, <1>3, RotateHere
  <2>2. /\ t.parent[p] = g /\ t[s][g] = p /\ t[o][g] = y
    BY DEF Bent, Uncle, t
  <2>0. ASSUME NEW q \in Sides
        PROVE  u[q][g] = IF t[q][g] = p THEN x ELSE t[q][g]
    <3>1. x = t[Other(s)][p]
      BY <1>3
    <3>2. QED
      BY <1>1, <1>2, <3>1, RotateAway
  <2>3. u[s][g] = x
    BY <2>0, <2>2
  <2>4. u[o][g] = y
    <3>1. o \in Sides
      BY TwoSides
    <3>2. QED
      BY <2>0, <2>2, <3>1
  <2>5. QED
    BY <2>1, <2>2, <2>3, <2>4 DEF Line, Uncle, Swung
<1>6. u.red = t.red
  BY <1>2 DEF RotatedAt
<1>7. t.red[x] = 1
  BY DEF Raised, t
<1>8. PICK lo2, hi2 : Shaped(u, Q, N, pos, lo2, hi2)
  BY <1>2 DEF HasShape
<1>9. Ascending(Rising(h1, p, s), Q, N, pos, p, i)
  BY <1>2, <1>3, <1>4, <1>5, <1>6, <1>7, <1>8, <1>11, RisingStep DEF u
<1>10. QED
  BY <1>9 DEF h1

(* Whatever turn it is, x is above one more node, or the loop is over.     *)
LEMMA InsertTurnStep ==
  ASSUME NEW h, NEW Q, NEW N, NEW pos, NEW x, NEW i \in Nat,
         Ascending(h, Q, N, pos, x, i)
  PROVE  \E h2, x2 : /\ InsertTurn(h, x) = <<h2, x2>>
                     /\ Ascending(h2, Q, N, pos, x2, i + 1)
<1> DEFINE t == Last(h)
           p == t.parent[x]
           g == t.parent[p]
           s == IF p = t.left[g] THEN "left" ELSE "right"
           o == Other(s)
           y == t[o][g]
<1>1. h \in Histories /\ x \in Q /\ Clean(t, Q) /\ Walkable(h, Q)
  BY DEF Ascending
<1>2. PICK lo, hi, bh :
        /\ Shaped(t, Q, N, pos, lo, hi)
        /\ Raised(t, t.red, Q, bh, x)
        /\ t.red[p] = 0 \/ Width(lo, hi, x) >= i
  BY DEF Ascending
<1>3. CASE t.red[p] = 0
  <2>1. InsertTurn(h, x) = <<h, x>>
    BY <1>3 DEF InsertTurn
  <2>2. Ascending(h, Q, N, pos, x, i + 1)
    BY <1>1, <1>2, <1>3 DEF Ascending
  <2>3. QED
    BY <2>1, <2>2
<1>4. CASE t.red[p] # 0
  <2>1. Kin(t, Q)
    BY <1>2, ShapeKin
  <2>2. t.red[p] = 1
    <3>1. t \in Images /\ p \in Q \cup {ROOT}
      BY <1>1, <2>1, Above DEF Kin
    <3>2. p \in Addresses
      BY <2>1, <3>1 DEF Kin, Addresses
    <3>3. QED
      BY <1>4, <3>1, <3>2 DEF Images
  <2>3. /\ p \in Q /\ g \in Q /\ x \in Q /\ s \in Sides
        /\ Uncle(t, x, p, g, y, s, o)
        /\ y \in Q \cup {NIL} /\ y # p /\ g # p /\ g # x /\ x # p
        /\ x = t[s][p] \/ x = t[o][p]
    <3>1. Around(t, x, p, g, y, s, o)
      BY DEF Around
    <3>2. Raised(t, t.red, Q, bh, x)
      BY <1>2
    <3> HIDE DEF t, p, g, s, o, y
    <3>3. Relatives(t, Q, x, p, g, y, s, o)
      BY <2>1, <2>2, <3>1, <3>2, RaisedFamily
    <3>4. QED
      BY <3>3 DEF Relatives
  <2>4. InsertTurn(h, x) =
          IF t.red[y] = 1
          THEN <<Paint(Paint(Paint(h, p, 0), y, 0), g, 1), g>>
          ELSE IF x = t[o][p] THEN <<Rising(Rotate(h, p, s), p, s), p>>
          ELSE <<Rising(h, x, s), x>>
    BY <1>4 DEF InsertTurn
  <2>5. t.red[NIL] = 0 /\ NIL \notin Q
    BY <1>2, <2>1, TreeAssumption DEF Raised, Kin
  <2>6. Width(lo, hi, x) >= i
    BY <1>2, <1>4
  <2>8. y \in Addresses /\ t \in Images
    BY <2>1, <2>3 DEF Kin, Addresses
  <2>9. t.red[y] = 0 \/ t.red[y] = 1
    BY <2>8 DEF Images
  <2> HIDE DEF p, g, s
  <2>7. g # y
    <3>1. o \in Sides
      BY <2>3, TwoSides
    <3>2. y = NIL \/ y # g
      BY <2>1, <2>3, <3>1, Below
    <3>3. QED
      BY <2>3, <2>5, <3>2
  <2> HIDE DEF y
  <2>10. CASE t.red[y] = 1
    <3>1. y \in Q
      BY <2>3, <2>5, <2>10
    <3>2. Ascending(Paint(Paint(Paint(h, p, 0), y, 0), g, 1), Q, N, pos, g, i + 1)
      BY <1>1, <1>2, <2>2, <2>3, <2>6, <2>7, <2>10, <3>1, RecolourStep
    <3>3. QED
      BY <2>4, <2>10, <3>2
  <2>11. CASE t.red[y] = 0 /\ x = t[o][p]
    <3>1. Bent(t, x, p, g, y, s, o)
      BY <2>3, <2>11 DEF Bent
    <3>2. /\ p \in Q /\ g \in Q /\ g # p /\ g # x /\ y # p /\ s \in Sides
          /\ t.red[p] = 1 /\ t.red[y] = 0
      BY <2>2, <2>3, <2>11
    <3>3. Shaped(t, Q, N, pos, lo, hi) /\ Raised(t, t.red, Q, bh, x)
      BY <1>2
    <3> HIDE DEF t
    <3>4. Ascending(Rising(Rotate(h, p, s), p, s), Q, N, pos, p, i + 1)
      BY <1>1, <3>1, <3>2, <3>3, InnerStep DEF t
    <3>5. QED
      BY <2>4, <2>11, <3>4
  <2>12. CASE t.red[y] = 0 /\ x # t[o][p]
    <3>1. Line(t, x, p, g, y, s, o)
      BY <2>3, <2>12 DEF Line
    <3>2. Ascending(Rising(h, x, s), Q, N, pos, x, i + 1)
      BY <1>1, <1>2, <2>2, <2>3, <2>12, <3>1, RisingStep
    <3>3. QED
      BY <2>4, <2>12, <3>2
  <2>13. QED
    BY <2>9, <2>10, <2>11, <2>12
<1>5. QED
  BY <1>3, <1>4

(* A numbering counts. *)
LEMMA NumberedCount ==
  ASSUME NEW Q, NEW N, NEW pos, Numbered(Q, N, pos)
  PROVE  /\ N = Cardinality(Q) /\ IsFiniteSet(Q)
         /\ N \in Nat /\ Cardinality(Uthreads) \in Nat /\ N <= Cardinality(Uthreads)
<1> DEFINE f == [i \in 1..N |-> CHOOSE n \in Q : pos[n] = i]
<1>1. /\ Q \subseteq Uthreads /\ N \in Nat /\ \A n \in Q : pos[n] \in 1..N
      /\ \A m, n \in Q : pos[m] = pos[n] => m = n
      /\ \A i \in 1..N : \E n \in Q : pos[n] = i
  BY DEF Numbered
<1>2. \A i \in 1..N : f[i] \in Q /\ pos[f[i]] = i
  BY <1>1
<1>3. f \in [1..N -> Q]
  BY <1>2
<1> HIDE DEF f
<1>4. f \in Bijection(1..N, Q)
  <2>1. \A i, j \in 1..N : f[i] = f[j] => i = j
    BY <1>2
  <2>2. \A n \in Q : \E i \in 1..N : f[i] = n
    BY <1>1, <1>2
  <2>3. QED
    BY <1>3, <2>1, <2>2 DEF Bijection, Injection, Surjection, IsInjective
<1>5. Cardinality(Q) = N
  BY <1>1, <1>4, FS_CountingElements DEF ExistsBijection
<1>6. /\ IsFiniteSet(Q) /\ Cardinality(Q) <= Cardinality(Uthreads)
      /\ Cardinality(Uthreads) \in Nat
  BY <1>1, TreeAssumption, FS_Subset, FS_CardinalityType
<1>7. QED
  BY <1>1, <1>5, <1>6

(* No red node has a red parent any more, but x may be a red top. *)
Risen(h, Q, N, pos) ==
  /\ h \in Histories /\ Clean(Last(h), Q) /\ Walkable(h, Q)
  /\ \E lo, hi : Shaped(Last(h), Q, N, pos, lo, hi)
  /\ \E x, bh : Settled(Last(h), Q, bh, x)

(* No x can be above more nodes than there are: after as many turns as     *)
(* there are uthreads RBTreeInsert's loop is over, one more would change   *)
(* nothing.                                                                *)
InsertOver(h, x) ==
  LET e == InsertTurns(h, x)[Cardinality(Uthreads)] IN InsertTurn(e[1], e[2]) = e

(* It is, if it begins in a tree where only x may be wrong, and nothing is *)
(* wrong then.                                                             *)
THEOREM InsertFixUpDone ==
  ASSUME NEW h, NEW Q, NEW N, NEW pos, NEW x, Ascending(h, Q, N, pos, x, 0)
  PROVE  InsertOver(h, x) /\ Risen(InsertFixUp(h, x), Q, N, pos)
<1> DEFINE S == {e \in Histories \X Q : Ascending(e[1], Q, N, pos, e[2], 0)}
           g == InsertTurns(h, x)
           C == Cardinality(Uthreads)
<1>1. ASSUME NEW e, NEW y, NEW i \in Nat, Ascending(e, Q, N, pos, y, i)
      PROVE  <<e, y>> \in S
  <2>1. PICK lo, hi, bh :
          /\ Shaped(Last(e), Q, N, pos, lo, hi)
          /\ Raised(Last(e), Last(e).red, Q, bh, y)
          /\ Last(e).red[Last(e).parent[y]] = 0 \/ Width(lo, hi, y) >= i
    BY <1>1 DEF Ascending
  <2>2. y \in Q /\ e \in Histories /\ Clean(Last(e), Q) /\ Walkable(e, Q)
    BY <1>1 DEF Ascending
  <2>3. Width(lo, hi, y) \in Int
    BY <2>1, <2>2 DEF Shaped, Spanned, Numbered, Width
  <2>4. Ascending(e, Q, N, pos, y, 0)
    BY <2>1, <2>2, <2>3 DEF Ascending
  <2>5. QED
    BY <2>2, <2>4
<1>2. ASSUME NEW e \in S PROVE InsertTurn(e[1], e[2]) \in S
  <2>1. Ascending(e[1], Q, N, pos, e[2], 0)
    OBVIOUS
  <2>2. PICK h2, x2 : /\ InsertTurn(e[1], e[2]) = <<h2, x2>>
                      /\ Ascending(h2, Q, N, pos, x2, 0 + 1)
    BY <2>1, InsertTurnStep
  <2>3. QED
    BY <1>1, <2>2
<1>3. <<h, x>> \in S
  BY <1>1
<1> HIDE DEF S
<1>4. /\ g[0] = <<h, x>>
      /\ \A n \in Nat : g[n] \in S /\ g[n + 1] = InsertTurn(g[n][1], g[n][2])
  BY <1>2, <1>3, InsertTurnsAre
<1> HIDE DEF g
<1> DEFINE T == {n \in Nat : Ascending(g[n][1], Q, N, pos, g[n][2], n)}
<1>5. 0 \in T
  BY <1>4
<1>6. ASSUME NEW n \in T PROVE n + 1 \in T
  <2>1. n \in Nat /\ Ascending(g[n][1], Q, N, pos, g[n][2], n)
    OBVIOUS
  <2>2. PICK h2, x2 : /\ InsertTurn(g[n][1], g[n][2]) = <<h2, x2>>
                      /\ Ascending(h2, Q, N, pos, x2, n + 1)
    BY <2>1, InsertTurnStep
  <2>3. g[n + 1] = <<h2, x2>>
    BY <1>4, <2>1, <2>2
  <2>4. QED
    BY <2>1, <2>2, <2>3
<1>7. T = Nat
  <2>1. T \subseteq Nat
    OBVIOUS
  <2> HIDE DEF T
  <2>2. QED
    BY <1>5, <1>6, <2>1, Induct
<1>8. C \in Nat
  BY TreeAssumption, FS_CardinalityType
<1> DEFINE e == g[C][1]
           y == g[C][2]
<1>9. Ascending(e, Q, N, pos, y, C)
  BY <1>7, <1>8
<1>10. g[C] = <<e, y>>
  BY <1>4, <1>8 DEF S
<1> HIDE DEF T
<1>11. PICK lo, hi, bh :
          /\ Shaped(Last(e), Q, N, pos, lo, hi)
          /\ Raised(Last(e), Last(e).red, Q, bh, y)
          /\ Last(e).red[Last(e).parent[y]] = 0 \/ Width(lo, hi, y) >= C
  BY <1>9 DEF Ascending
<1>12. y \in Q /\ e \in Histories /\ Clean(Last(e), Q) /\ Walkable(e, Q)
  BY <1>9 DEF Ascending
<1> HIDE DEF e, y
<1>13. Width(lo, hi, y) < C
  <2>1. Numbered(Q, N, pos) /\ Spanned(Q, N, lo, hi)
    BY <1>11 DEF Shaped
  <2>2. lo[y] \in 1..N /\ hi[y] \in 1..N
    BY <1>12, <2>1 DEF Spanned
  <2>3. N \in Nat /\ N <= C
    BY <2>1, NumberedCount
  <2> HIDE DEF C
  <2>4. QED
    BY <1>8, <2>2, <2>3 DEF Width
<1>14. Last(e).red[Last(e).parent[y]] = 0
  <2>1. Width(lo, hi, y) \in Int
    BY <1>11, <1>12 DEF Shaped, Spanned, Numbered, Width
  <2> HIDE DEF C
  <2>2. QED
    BY <1>8, <1>11, <1>13, <2>1
<1>15. Risen(e, Q, N, pos)
  BY <1>11, <1>12, <1>14 DEF Risen, Settled
<1>16. InsertFixUp(h, x) = e
  BY DEF InsertFixUp, e, g
<1>17. InsertTurn(e, y) = <<e, y>>
  BY <1>14 DEF InsertTurn
<1>18. InsertOver(h, x)
  BY <1>10, <1>17 DEF InsertOver, g, C
<1>19. QED
  BY <1>15, <1>16, <1>18

-----------------------------------------------------------------------------
(* RBTreeInsert.                                                           *)

(* Everything the run queue's tree should be, between two operations. *)
Sound(t, Q, N, pos) ==
  /\ HasShape(t, Q, N, pos) /\ Clean(t, Q)
  /\ \E bh : Coloured(t, t.red, Q, bh)

(* Storing a key that is there already changes nothing.                    *)
LEMMA PutKey ==
  ASSUME NEW h \in Histories, NEW n \in Uthreads, Last(h).key[n] = n
  PROVE  Put(h, "key", n, n) \in Histories /\ Last(Put(h, "key", n, n)) = Last(h)
<1> DEFINE t == Last(h)
           u == [t EXCEPT !["key"][n] = n]
<1>1. t \in Images
  BY LastOfHistory
<1>2. u = t
  BY <1>1 DEF Images
<1>3. QED
  BY <1>1, <1>2 DEF Histories, Put, Last

(* The stores of TreeInsertHelp. *)
Hanging(h, z, y, d) ==
  Put(Put(Put(Put(h, "right", z, NIL), "left", z, NIL), "parent", z, y), d, y, z)

(* They hang z from y.                                                     *)
LEMMA HangingHung ==
  ASSUME NEW h \in Histories, NEW z \in Uthreads, NEW y \in Addresses, y # z,
         NEW d \in Sides, Sentinels(Last(h))
  PROVE  LET g == Hanging(h, z, y, d)
         IN /\ g \in Histories
            /\ Hung(Last(h), Last(g), z, y, d)
            /\ Last(g).red = Last(h).red /\ Last(g).key = Last(h).key
<1> DEFINE t == Last(h)
           h1 == Put(h, "right", z, NIL)
           h2 == Put(h1, "left", z, NIL)
           h3 == Put(h2, "parent", z, y)
           h4 == Put(h3, d, y, z)
           u == Last(h4)
<1>1. /\ z \in Addresses /\ NIL \in Addresses /\ d \in Pointers
      /\ "left" \in Pointers /\ "right" \in Pointers /\ "parent" \in Pointers
  BY DEF Addresses, Sides, Pointers
<1>2. /\ h1 \in Histories /\ Last(h1).red = t.red /\ Last(h1).key = t.key
      /\ \A f \in Pointers : \A m \in Addresses :
           Last(h1)[f][m] = IF f = "right" /\ m = z THEN NIL ELSE t[f][m]
  BY <1>1, PutHistory, PutPointer
<1> HIDE DEF h1
<1>3. /\ h2 \in Histories /\ Last(h2).red = t.red /\ Last(h2).key = t.key
      /\ \A f \in Pointers : \A m \in Addresses :
           Last(h2)[f][m] = IF f = "left" /\ m = z THEN NIL ELSE Last(h1)[f][m]
  BY <1>1, <1>2, PutHistory, PutPointer
<1> HIDE DEF h2
<1>4. /\ h3 \in Histories /\ Last(h3).red = t.red /\ Last(h3).key = t.key
      /\ \A f \in Pointers : \A m \in Addresses :
           Last(h3)[f][m] = IF f = "parent" /\ m = z THEN y ELSE Last(h2)[f][m]
  BY <1>1, <1>3, PutHistory, PutPointer
<1> HIDE DEF h3
<1>5. /\ h4 \in Histories /\ u.red = t.red /\ u.key = t.key
      /\ \A f \in Pointers : \A m \in Addresses :
           u[f][m] = IF f = d /\ m = y THEN z ELSE Last(h3)[f][m]
  BY <1>1, <1>4, PutHistory, PutPointer
<1> HIDE DEF h4, u, t
<1>6. ASSUME NEW m \in Addresses, NEW q \in Sides
      PROVE  u[q][m] = IF m = z THEN NIL ELSE IF m = y /\ q = d THEN z ELSE t[q][m]
  <2>1. q \in Pointers /\ q # "parent" /\ (q = "left" \/ q = "right")
    BY DEF Sides, Pointers
  <2>2. u[q][m] = IF q = d /\ m = y THEN z ELSE Last(h3)[q][m]
    BY <1>5, <2>1
  <2>3. Last(h3)[q][m] = IF m = z THEN NIL ELSE t[q][m]
    BY <1>2, <1>3, <1>4, <2>1
  <2>4. QED
    BY <2>2, <2>3
<1>7. ASSUME NEW m \in Addresses
      PROVE  u.parent[m] = IF m = z THEN y ELSE t.parent[m]
  <2>1. d # "parent"
    BY DEF Sides
  <2>2. u["parent"][m] = IF m = z THEN y ELSE t["parent"][m]
    BY <1>1, <1>2, <1>3, <1>4, <1>5, <2>1
  <2>3. QED
    BY <2>2
<1>8. t.red[NIL] = 0 /\ t.red[ROOT] = 0
  BY DEF Sentinels, t
<1>9. Hung(t, u, z, y, d)
  BY <1>5, <1>6, <1>7, <1>8 DEF Hung
<1>10. QED
  BY <1>5, <1>9 DEF Hanging, t, u, h4, h3, h2, h1

(* And keep to the nodes that there are then.                              *)
LEMMA HangingWalks ==
  ASSUME NEW h \in Histories, NEW P, P \subseteq Uthreads, Walkable(h, P),
         NEW z \in P, NEW y \in Addresses, NEW d \in Sides
  PROVE  Walkable(Hanging(h, z, y, d), P)
<1> DEFINE h1 == Put(h, "right", z, NIL)
           h2 == Put(h1, "left", z, NIL)
           h3 == Put(h2, "parent", z, y)
           h4 == Put(h3, d, y, z)
<1>1. /\ z \in Addresses /\ z # ROOT /\ NIL \in Addresses /\ d \in Pointers
      /\ "left" \in Pointers /\ "right" \in Pointers /\ "parent" \in Pointers
  BY TreeAssumption DEF Addresses, Sides, Pointers
<1>2. h1 \in Histories /\ Walkable(h1, P)
  BY <1>1, PutWalks
<1> HIDE DEF h1
<1>3. h2 \in Histories /\ Walkable(h2, P)
  BY <1>1, <1>2, PutWalks
<1> HIDE DEF h2
<1>4. h3 \in Histories /\ Walkable(h3, P)
  BY <1>1, <1>3, PutWalks
<1> HIDE DEF h3
<1>5. Walkable(h4, P)
  BY <1>1, <1>4, PutWalks
<1>6. QED
  BY <1>5 DEF Hanging, h4, h3, h2, h1

(* Where a new node may be hung, and what number it then has. *)
Place(t, Q, y, d) ==
  \/ y = ROOT /\ d = "left" /\ t.left[ROOT] = NIL
  \/ y \in Q /\ d \in Sides /\ t[d][y] = NIL
Rank(pos, y, d) == IF y = ROOT THEN 1 ELSE IF d = "left" THEN pos[y] ELSE pos[y] + 1

(* TreeInsertHelp keeps the order, with z where it was hung.               *)
LEMMA HangShape ==
  ASSUME NEW t, NEW Q, NEW N, NEW pos, HasShape(t, Q, N, pos),
         NEW z \in Uthreads, z \notin Q, NEW y, NEW d, Place(t, Q, y, d),
         NEW u \in Images, Hung(t, u, z, y, d)
  PROVE  /\ Rank(pos, y, d) \in 1..(N + 1)
         /\ HasShape(u, Q \cup {z}, N + 1, Opened(Q, pos, z, Rank(pos, y, d)))
<1>1. PICK lo, hi : Shaped(t, Q, N, pos, lo, hi)
  BY DEF HasShape
<1>2. ROOT \notin Q
  BY <1>1, TreeAssumption DEF Shaped, Numbered
<1>3. CASE y = ROOT
  <2>1. d = "left" /\ t.left[ROOT] = NIL
    BY <1>2, <1>3 DEF Place
  <2>2. Hung(t, u, z, ROOT, "left")
    BY <1>3, <2>1
  <2>3. N = 0 /\ \E lo2, hi2 : Shaped(u, Q \cup {z}, 1, Opened(Q, pos, z, 1), lo2, hi2)
    BY <1>1, <2>1, <2>2, HangFirst
  <2>4. Rank(pos, y, d) = 1 /\ N + 1 = 1
    BY <1>3, <2>3 DEF Rank
  <2>5. QED
    BY <2>3, <2>4 DEF HasShape
<1>4. CASE y # ROOT
  <2>1. y \in Q /\ d \in Sides /\ t[d][y] = NIL
    BY <1>4 DEF Place
  <2>2. Rank(pos, y, d) = IF d = "left" THEN pos[y] ELSE pos[y] + 1
    BY <1>4 DEF Rank
  <2> DEFINE k == Rank(pos, y, d)
  <2> HIDE DEF k
  <2>3. /\ k \in 1..(N + 1)
        /\ \E lo2, hi2 : Shaped(u, Q \cup {z}, N + 1, Opened(Q, pos, z, k), lo2, hi2)
    BY <1>1, <2>1, <2>2, HangBelow DEF k
  <2>4. QED
    BY <2>3 DEF HasShape, k
<1>5. QED
  BY <1>3, <1>4

(* A new red leaf breaks no rule but, perhaps, that its parent is not red. *)
LEMMA HungColours ==
  ASSUME NEW t, NEW Q, Kin(t, Q), NEW bh, Coloured(t, t.red, Q, bh),
         NEW z \in Uthreads, z \notin Q, NEW y, NEW d, Place(t, Q, y, d),
         NEW u, Kin(u, Q \cup {z}), Hung(t, u, z, y, d),
         NEW w \in [Addresses -> {0, 1}],
         \A m \in Addresses : w[m] = IF m = z THEN 1 ELSE t.red[m]
  PROVE  \E bh2 : Raised(u, w, Q \cup {z}, bh2, z)
<1> DEFINE Q2 == Q \cup {z}
           r == t.red
           bh2 == [n \in Q2 \cup {NIL} |-> IF n = z THEN 1 ELSE bh[n]]
<1>1. /\ Q \subseteq Addresses /\ NIL \notin Q /\ ROOT \notin Q /\ ROOT # NIL
      /\ z \in Addresses /\ z # NIL /\ z # ROOT /\ ROOT \in Addresses /\ NIL \in Addresses
  BY TreeAssumption DEF Kin, Addresses
<1>2. /\ r[NIL] = 0 /\ r[ROOT] = 0 /\ r[t.left[ROOT]] = 0
      /\ bh \in [Q \cup {NIL} -> Nat \ {0}] /\ bh[NIL] = 1
      /\ \A n \in Q : Level(t, r, bh, n) /\ Pale(t, r, n, ROOT)
  BY DEF Coloured, Heights
<1>3. /\ Heights(Q2, bh2) /\ bh2[z] = 1
      /\ \A n \in Q \cup {NIL} : bh2[n] = bh[n]
  BY <1>1, <1>2 DEF Heights
<1> HIDE DEF bh2
<1>4. /\ w[z] = 1 /\ w[NIL] = 0 /\ w[ROOT] = 0
      /\ \A n \in Q \cup {NIL} : w[n] = r[n]
  BY <1>1, <1>2
<1>5. ASSUME NEW q \in Sides
      PROVE  LevelOn(u, w, bh2, z, q) /\ PaleOn(u, w, z, z, q)
  <2>1. u[q][z] = NIL
    BY <1>1 DEF Hung
  <2>2. bh2[NIL] = 1
    BY <1>2, <1>3
  <2>3. QED
    BY <1>3, <1>4, <2>1, <2>2 DEF LevelOn, PaleOn
<1>6. ASSUME NEW n \in Q, NEW q \in Sides
      PROVE  LevelOn(u, w, bh2, n, q) /\ PaleOn(u, w, n, z, q)
  <2> DEFINE c == t[q][n]
  <2>1. u[q][n] = IF n = y /\ q = d THEN z ELSE c
    BY <1>1 DEF Hung
  <2>2. bh[n] + r[n] = bh[c] + 1 /\ (r[n] = 0 \/ r[c] = 0 \/ c = ROOT)
    BY <1>2 DEF Level, Pale
  <2>3. c \in Q \cup {NIL}
    BY Below
  <2>4. n = y /\ q = d => c = NIL
    BY <1>1 DEF Place
  <2> HIDE DEF c, r
  <2>5. CASE n = y /\ q = d
    <3>1. u[q][n] = z /\ bh[n] + r[n] = 2
      BY <1>2, <2>1, <2>2, <2>4, <2>5
    <3>2. bh2[n] = bh[n] /\ w[n] = r[n]
      BY <1>3, <1>4
    <3>3. QED
      BY <1>3, <3>1, <3>2 DEF LevelOn, PaleOn
  <2>6. CASE ~(n = y /\ q = d)
    <3>1. u[q][n] = c
      BY <2>1, <2>6
    <3>2. bh2[n] = bh[n] /\ w[n] = r[n] /\ bh2[c] = bh[c] /\ w[c] = r[c] /\ c # ROOT
      BY <1>1, <1>3, <1>4, <2>3
    <3>3. QED
      BY <2>2, <3>1, <3>2 DEF LevelOn, PaleOn
  <2>7. QED
    BY <2>5, <2>6
<1>7. ASSUME NEW n \in Q2 PROVE Level(u, w, bh2, n) /\ Pale(u, w, n, z)
  BY <1>5, <1>6 DEF Level, LevelOn, Pale, PaleOn
<1>8. w[u.left[ROOT]] = 0 \/ u.left[ROOT] = z
  <2>1. u["left"][ROOT] = IF ROOT = y /\ "left" = d THEN z ELSE t["left"][ROOT]
    BY <1>1 DEF Hung, Sides
  <2>2. t.left[ROOT] \in Q \cup {NIL}
    BY DEF Kin
  <2>3. QED
    BY <1>2, <1>4, <2>1, <2>2
<1>9. Raised(u, w, Q2, bh2, z)
  BY <1>3, <1>4, <1>7, <1>8 DEF Raised
<1>10. QED
  BY <1>9

(* RBTreeInsert where Descend finds a place. *)
LEMMA InsertSound ==
  ASSUME NEW h \in Histories, NEW Q, NEW N, NEW pos, Sound(Last(h), Q, N, pos),
         NEW z \in Uthreads, z \notin Q, Walkable(h, Q \cup {z}), NEW vr,
         NEW y, y = Descend(Last(h), vr, vr[z]),
         NEW d, d = (IF y = ROOT \/ Greater(vr[Last(h).key[y]], vr[z])
                     THEN "left" ELSE "right"),
         Place(Last(h), Q, y, d)
  PROVE  LET g == RBTreeInsert(h, vr, z)
         IN /\ g \in Histories /\ Walkable(g, Q \cup {z})
            /\ Rank(pos, y, d) \in 1..(N + 1)
            /\ Sound(Last(g), Q \cup {z}, N + 1, Opened(Q, pos, z, Rank(pos, y, d)))
<1> DEFINE t == Last(h)
           Q2 == Q \cup {z}
           pos2 == Opened(Q, pos, z, Rank(pos, y, d))
           k1 == Put(h, "key", z, z)
           k2 == Hanging(k1, z, y, d)
           k3 == Paint(k2, z, 1)
           k4 == InsertFixUp(k3, z)
           k5 == Paint(k4, Last(k4).left[ROOT], 0)
<1>1. HasShape(t, Q, N, pos) /\ Clean(t, Q) /\ \E bh : Coloured(t, t.red, Q, bh)
  BY DEF Sound
<1>2. k1 \in Histories /\ Last(k1) = t
  BY <1>1, PutKey DEF Clean
<1>22. Walkable(k1, Q2)
  <2>1. t \in Images /\ t.key[z] = z
    BY <1>1, LastOfHistory DEF Clean
  <2>2. [t EXCEPT !["key"][z] = z] = t
    BY <2>1 DEF Images
  <2>3. k1 = Append(h, t)
    BY <2>2 DEF Put
  <2>4. QED
    BY <2>1, <2>3, StillWalks
<1>3. Kin(t, Q) /\ Sentinels(t)
  BY <1>1, ShapeKin DEF HasShape, Shaped
<1>4. RBTreeInsert(h, vr, z) = k5
  <2>1. TreeInsertHelp(k1, vr, z) = k2
    BY <1>2 DEF TreeInsertHelp, Hanging
  <2>2. QED
    BY <2>1 DEF RBTreeInsert
<1> HIDE DEF k1
<1>5. y \in Addresses /\ d \in Sides /\ y # z /\ y \in Q \cup {ROOT}
  BY <1>3, TreeAssumption DEF Place, Kin, Sides, Addresses
<1>6. /\ k2 \in Histories /\ Hung(t, Last(k2), z, y, d)
      /\ Last(k2).red = t.red /\ Last(k2).key = t.key
  BY <1>2, <1>3, <1>5, HangingHung
<1>23. Walkable(k2, Q2)
  <2>1. Q2 \subseteq Uthreads /\ z \in Q2
    BY <1>3 DEF Kin
  <2> HIDE DEF Q2
  <2>2. QED
    BY <1>2, <1>5, <1>22, <2>1, HangingWalks
<1> HIDE DEF k2
<1>7. Last(k2) \in Images
  BY <1>6, LastOfHistory
<1> HIDE DEF t
<1>8. Rank(pos, y, d) \in 1..(N + 1) /\ HasShape(Last(k2), Q2, N + 1, pos2)
  BY <1>1, <1>6, <1>7, HangShape DEF t
<1> HIDE DEF pos2
<1>9. Clean(Last(k2), Q2)
  <2>1. ASSUME NEW n \in Uthreads, n \notin Q2
        PROVE  Last(k2).left[n] = NIL /\ Last(k2).right[n] = NIL /\ Last(k2).parent[n] = NIL
    <3>1. n \in Addresses /\ n # z /\ n # y
      BY <1>5, <2>1, TreeAssumption DEF Addresses
    <3>2. \A q \in Sides : Last(k2)[q][n] = t[q][n]
      BY <1>6, <3>1 DEF Hung
    <3>3. Last(k2).parent[n] = t.parent[n]
      BY <1>6, <3>1 DEF Hung
    <3>4. t.left[n] = NIL /\ t.right[n] = NIL /\ t.parent[n] = NIL
      BY <1>1, <2>1 DEF Clean
    <3>5. Last(k2)["left"][n] = t["left"][n] /\ Last(k2)["right"][n] = t["right"][n]
      BY <3>2 DEF Sides
    <3>6. QED
      BY <3>3, <3>4, <3>5
  <2>2. QED
    BY <1>1, <1>6, <2>1 DEF Clean
<1>10. PICK lo, hi : Shaped(Last(k2), Q2, N + 1, pos2, lo, hi)
  BY <1>8 DEF HasShape
<1>11. /\ k3 \in Histories
       /\ Shaped(Last(k3), Q2, N + 1, pos2, lo, hi) /\ Clean(Last(k3), Q2)
       /\ SamePointers(Last(k2), Last(k3))
       /\ \A m \in Addresses : Last(k3).red[m] = IF m = z THEN 1 ELSE t.red[m]
  BY <1>6, <1>9, <1>10, PaintTree DEF Addresses
<1>24. Walkable(k3, Q2)
  BY <1>6, <1>23, PaintWalks DEF Addresses
<1> HIDE DEF k3
<1>12. \E bh2 : Raised(Last(k3), Last(k3).red, Q2, bh2, z)
  <2>1. Kin(Last(k2), Q2)
    BY <1>10, ShapeKin
  <2>2. Last(k3).red \in [Addresses -> {0, 1}]
    BY <1>11 DEF Shaped, Images
  <2>3. PICK bh : Coloured(t, t.red, Q, bh)
    BY <1>1
  <2>4. Place(t, Q, y, d)
    BY DEF t
  <2>5. \E bh2 : Raised(Last(k2), Last(k3).red, Q2, bh2, z)
    BY <1>3, <1>6, <1>11, <2>1, <2>2, <2>3, <2>4, HungColours
  <2>6. QED
    BY <1>11, <2>5, SamePointersColours
<1>13. Ascending(k3, Q2, N + 1, pos2, z, 0)
  <2>1. Width(lo, hi, z) >= 0
    <3>1. Spans(Last(k3), Q2, pos2, lo, hi, z)
      BY <1>11 DEF Shaped
    <3>2. QED
      BY <3>1 DEF Spans, Width
  <2>2. QED
    BY <1>11, <1>12, <1>24, <2>1 DEF Ascending
<1>14. Risen(k4, Q2, N + 1, pos2)
  BY <1>13, InsertFixUpDone
<1> HIDE DEF k4
<1>15. PICK lo2, hi2 : Shaped(Last(k4), Q2, N + 1, pos2, lo2, hi2)
  BY <1>14 DEF Risen
<1>16. PICK x, bh : Settled(Last(k4), Q2, bh, x)
  BY <1>14 DEF Risen
<1> DEFINE c == Last(k4).left[ROOT]
<1>17. c \in Addresses
  BY <1>15 DEF Shaped, Images, Addresses
<1>18. /\ k5 \in Histories
       /\ Shaped(Last(k5), Q2, N + 1, pos2, lo2, hi2) /\ Clean(Last(k5), Q2)
       /\ SamePointers(Last(k4), Last(k5))
       /\ \A m \in Addresses : Last(k5).red[m] = IF m = c THEN 0 ELSE Last(k4).red[m]
  BY <1>14, <1>15, <1>17, PaintTree DEF Risen
<1>25. Walkable(k5, Q2)
  BY <1>14, <1>17, PaintWalks DEF Risen
<1> HIDE DEF k5
<1>19. \E bh2 : Coloured(Last(k5), Last(k5).red, Q2, bh2)
  <2>1. Kin(Last(k4), Q2)
    BY <1>15, ShapeKin
  <2>2. Last(k5).red \in [Addresses -> {0, 1}]
    BY <1>18 DEF Shaped, Images
  <2>3. Repainted(Last(k4).red, Last(k5).red, {}, {Last(k4).left[ROOT]})
    BY <1>18 DEF Repainted
  <2>4. \E bh2 : Coloured(Last(k4), Last(k5).red, Q2, bh2)
    BY <1>16, <2>1, <2>2, <2>3, RaisedTop DEF Settled
  <2>5. QED
    BY <1>18, <2>4, SamePointersColours
<1>20. Sound(Last(k5), Q2, N + 1, pos2)
  BY <1>18, <1>19 DEF Sound, HasShape
<1>21. QED
  BY <1>4, <1>8, <1>18, <1>20, <1>25 DEF pos2

(* A tree that no one is working on can be walked, alone or with the node  *)
(* that somebody will hang there.                                          *)
LEMMA SoundPassable ==
  ASSUME NEW t, NEW Q, NEW N, NEW pos, Sound(t, Q, N, pos),
         NEW P, P \subseteq Uthreads, Q \subseteq P, \A m, n \in P \ Q : m = n
  PROVE  Passable(t, P)
<1>1. PICK lo, hi : Shaped(t, Q, N, pos, lo, hi)
  BY DEF Sound, HasShape
<1>2. /\ Kin(t, Q) /\ Clean(t, Q)
      /\ t.left[ROOT] = NIL => N = 0
      /\ Numbered(Q, N, pos)
  BY <1>1, ShapeKin DEF Sound, Shaped, TopSpans
<1>3. t.left[ROOT] \in P \cup {NIL}
  BY <1>2 DEF Kin
<1>4. ASSUME NEW n \in P PROVE t.right[n] \in P \cup {NIL}
  <2>1. CASE n \in Q
    <3>1. "right" \in Sides
      BY DEF Sides
    <3>2. t["right"][n] = NIL \/ t["right"][n] \in Q
      BY <1>2, <2>1, <3>1, Below
    <3>3. QED
      BY <3>2
  <2>2. CASE n \notin Q
    BY <1>2, <2>2 DEF Clean
  <2>3. QED
    BY <2>1, <2>2
<1>5. t.left[ROOT] = NIL => \A m, n \in P : m = n
  <2>1. t.left[ROOT] = NIL => Q = {}
    BY <1>2 DEF Numbered
  <2>2. QED
    BY <2>1
<1>6. \A n \in Uthreads : t.key[n] = n
  BY <1>2 DEF Clean
<1>7. QED
  BY <1>3, <1>4, <1>5, <1>6 DEF Passable

(* So it is before RBTreeInsert of z.                                      *)
LEMMA OneWalks ==
  ASSUME NEW t, NEW Q, NEW N, NEW pos, Sound(t, Q, N, pos), NEW z \in Uthreads
  PROVE  Walkable(<<t>>, Q \cup {z})
<1>1. Q \subseteq Uthreads
  BY DEF Sound, HasShape, Shaped, Numbered
<1>2. Passable(t, Q \cup {z})
  BY <1>1, SoundPassable
<1>3. QED
  BY <1>2 DEF Walkable
=============================================================================
