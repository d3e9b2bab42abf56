------------------------- MODULE RedBlackWalkProofs -------------------------
(***************************************************************************)
(* Further proofs about RedBlackTree: RBDeleteFixUp and RBDelete, and what *)
(* the walks and queries of the tree answer.                               *)
(*                                                                         *)
(* The walks are recursive functions of addresses, whatever the memory     *)
(* holds. Recursion says when such a definition has a value, and each walk *)
(* goes down in rank: towards the leaves (Deeper), the top (Higher), or    *)
(* the first node (Backwards).                                             *)
(***************************************************************************)
EXTENDS RedBlackTreeProofs

-----------------------------------------------------------------------------
(* The loop of RBDeleteFixUp.                                              *)

(* The loop of RBDeleteFixUp: x is short of one black node, and i turns    *)
(* later it is above i more nodes, or it is the top, or nothing is wrong.  *)
Low(t, Q, root, x, lo, hi, i) ==
  \E bh, p, s : /\ Lacking(t, t.red, Q, bh, x, p, s)
                /\ t.red[x] = 1 \/ (root = t.left[ROOT] /\ Width(lo, hi, p) >= i)
(* x is the top;                                                           *)
Topmost(t, Q, root, x) ==
  /\ \E bh : AtTop(t, t.red, Q, bh, x)
  /\ t.red[x] = 1 \/ x = root
(* nothing is wrong.                                                       *)
Mended(t, Q, root, x) ==
  /\ \E bh : Coloured(t, t.red, Q, bh)
  /\ x = root /\ t.red[root] = 0

(* One of these is so.                                                     *)
Sinking(h, Q, P, N, pos, root, x, i) ==
  /\ h \in Histories /\ Q \subseteq P /\ Clean(Last(h), P)
  /\ x \in Addresses /\ root \in Addresses
  /\ \E lo, hi : /\ Shaped(Last(h), Q, N, pos, lo, hi)
                 /\ \/ Low(Last(h), Q, root, x, lo, hi, i)
                    \/ Topmost(Last(h), Q, root, x)
                    \/ Mended(Last(h), Q, root, x)

(* root was the top before the rotation at p, if there was one. *)
WasTop(t, root, p) == root = t.left[ROOT] \/ root = p

(* With a red far nephew, the turn ends the loop.                          *)
(* (red_black_tree.c:525-529)                                              *)
LEMMA BorrowingStep ==
  ASSUME NEW h \in Histories, NEW Q, NEW N, NEW pos, NEW lo, NEW hi,
         Shaped(Last(h), Q, N, pos, lo, hi), NEW P, Q \subseteq P, Clean(Last(h), P),
         NEW bh, NEW x, NEW p, NEW s, Lacking(Last(h), Last(h).red, Q, bh, x, p, s),
         Last(h).red[x] = 0, NEW o, o = Other(s),
         NEW b, NEW near, NEW far, Nephews(Last(h), p, b, near, far, s, o),
         Last(h).red[b] = 0, Last(h).red[far] = 1,
         NEW root \in Addresses, WasTop(Last(h), root, p), NEW i
  PROVE  Sinking(Borrowing(h, x, s), Q, P, N, pos, root, root, i)
<1> DEFINE t == Last(h)
           r == t.red
           h1 == Paint(h, b, r[p])
           h2 == Paint(h1, p, 0)
           h3 == Paint(h2, far, 0)
           h4 == Rotate(h3, p, s)
           v == Last(h3)
           u == Last(h4)
<1>1. Kin(t, Q)
  BY ShapeKin
<1>2. Sibling(t, r, Q, bh, x, p, b, near, far)
  BY <1>1, LackingSibling
<1>3. /\ p \in Q /\ b \in Q /\ x \in Q \cup {NIL} /\ far \in Q \cup {NIL} /\ r[NIL] = 0
      /\ \A n \in Q \cup {NIL} : n \in Addresses /\ r[n] \in {0, 1}
      /\ NIL \notin Q
      /\ t.parent[x] = p /\ far # p /\ far # b /\ p # b
  BY <1>2 DEF Sibling
<1>4. far \in Q
  BY <1>3
<1>5. Borrowing(h, x, s) = h4
  <2>1. t[o][p] = b /\ t[o][b] = far
    BY DEF Nephews
  <2>2. QED
    BY <1>3, <2>1 DEF Borrowing
<1>6. /\ h1 \in Histories
      /\ Shaped(Last(h1), Q, N, pos, lo, hi) /\ Clean(Last(h1), P)
      /\ SamePointers(t, Last(h1))
      /\ \A m \in Addresses : Last(h1).red[m] = IF m = b THEN r[p] ELSE r[m]
  <2> DEFINE c == r[p]
  <2>1. b \in Q /\ b \in Addresses /\ c \in {0, 1}
    BY <1>3
  <2> HIDE DEF c
  <2>2. QED
    BY <2>1, PaintTree DEF c
<1> HIDE DEF h1
<1>7. /\ h2 \in Histories
      /\ Shaped(Last(h2), Q, N, pos, lo, hi) /\ Clean(Last(h2), P)
      /\ SamePointers(Last(h1), Last(h2))
      /\ \A m \in Addresses : Last(h2).red[m] = IF m = p THEN 0 ELSE Last(h1).red[m]
  BY <1>3, <1>6, PaintTree
<1> HIDE DEF h2
<1>8. /\ h3 \in Histories
      /\ Shaped(v, Q, N, pos, lo, hi) /\ Clean(v, P)
      /\ SamePointers(Last(h2), v)
      /\ \A m \in Addresses : v.red[m] = IF m = far THEN 0 ELSE Last(h2).red[m]
  BY <1>3, <1>4, <1>7, PaintTree
<1> HIDE DEF h3
<1>9. SamePointers(t, v)
  BY <1>6, <1>7, <1>8 DEF SamePointers
<1>10. Borrowed(r, v.red, p, b, far)
  BY <1>3, <1>6, <1>7, <1>8 DEF Borrowed
<1>11. s \in Sides /\ Other(s) \in Sides
  BY TwoSides DEF Lacking
<1>12. Nephews(v, p, b, near, far, s, o) /\ Lacking(v, r, Q, bh, x, p, s)
  <2>1. \A q \in Sides : v[q] = t[q]
    BY <1>9, SamePointersLinks
  <2>2. Nephews(v, p, b, near, far, s, o)
    BY <1>11, <2>1 DEF Nephews
  <2>3. Lacking(v, r, Q, bh, x, p, s)
    BY <1>9, SamePointersColours
  <2>4. QED
    BY <2>2, <2>3
<1> HIDE DEF v, t
<1>13. v[Other(s)][p] # NIL
  BY <1>3, <1>12 DEF Nephews
<1>14. /\ h4 \in Histories /\ HasShape(u, Q, N, pos) /\ Clean(u, P)
       /\ Kin(u, Q) /\ RotatedAt(v, u, p, s)
  BY <1>3, <1>8, <1>11, <1>13, RotateTree DEF v
<1> HIDE DEF h4, u
<1>15. u.red = v.red
  BY <1>14 DEF RotatedAt
<1>16. u.red \in [Addresses -> {0, 1}]
  BY <1>14 DEF Kin, Images
<1>17. Kin(v, Q)
  BY <1>8, ShapeKin
<1>18. r[x] = 0 /\ r[b] = 0 /\ r[far] = 1
  BY DEF t
<1> HIDE DEF r
<1>19. Borrowed(r, u.red, p, b, far)
  BY <1>10, <1>15
<1>20. /\ \E bh2 : Coloured(u, u.red, Q, bh2)
       /\ u.red[p] = 0 /\ u.red[v.left[ROOT]] = 0
  BY <1>12, <1>14, <1>16, <1>17, <1>18, <1>19, RedFar
<1>21. u.red[root] = 0
  <2>1. v.left = t.left
    BY <1>9, SamePointersLinks
  <2>2. QED
    BY <1>20, <2>1 DEF WasTop, t
<1>22. Mended(u, Q, root, root)
  BY <1>20, <1>21 DEF Mended
<1>23. Sinking(h4, Q, P, N, pos, root, root, i)
  BY <1>14, <1>22 DEF Sinking, HasShape, u
<1>24. QED
  BY <1>5, <1>23

(* The near nephew is red, the far one black: one rotation turns them      *)
(* round.                                                                  *)
LEMMA NearStep ==
  ASSUME NEW h \in Histories, NEW Q, NEW N, NEW pos, NEW lo, NEW hi,
         Shaped(Last(h), Q, N, pos, lo, hi), NEW P, Q \subseteq P, Clean(Last(h), P),
         NEW bh, NEW x, NEW p, NEW s, Lacking(Last(h), Last(h).red, Q, bh, x, p, s),
         Last(h).red[x] = 0, NEW o, o = Other(s),
         NEW b, NEW near, NEW far, Nephews(Last(h), p, b, near, far, s, o),
         Last(h).red[b] = 0, Last(h).red[near] = 1, Last(h).red[far] = 0,
         NEW root \in Addresses, WasTop(Last(h), root, p), NEW i
  PROVE  Sinking(Borrowing(Rotate(Paint(Paint(h, near, 0), b, 1), b, o), x, s),
                 Q, P, N, pos, root, root, i)
<1> DEFINE t == Last(h)
           r == t.red
           h1 == Paint(h, near, 0)
           h2 == Paint(h1, b, 1)
           h3 == Rotate(h2, b, o)
           v == Last(h2)
           u == Last(h3)
<1>1. Kin(t, Q)
  BY ShapeKin
<1>2. Sibling(t, r, Q, bh, x, p, b, near, far)
  BY <1>1, LackingSibling
<1>3. /\ p \in Q /\ b \in Q /\ x \in Q \cup {NIL} /\ r[NIL] = 0
      /\ \A n \in Q \cup {NIL} : n \in Addresses
      /\ NIL \notin Q /\ near \in Q \cup {NIL}
      /\ t.parent[x] = p /\ p # b /\ near # b
  BY <1>2 DEF Sibling
<1>4. near \in Q
  BY <1>3
<1>5. /\ h1 \in Histories
      /\ Shaped(Last(h1), Q, N, pos, lo, hi) /\ Clean(Last(h1), P)
      /\ SamePointers(t, Last(h1))
      /\ \A m \in Addresses : Last(h1).red[m] = IF m = near THEN 0 ELSE r[m]
  BY <1>3, <1>4, PaintTree
<1> HIDE DEF h1
<1>6. /\ h2 \in Histories
      /\ Shaped(v, Q, N, pos, lo, hi) /\ Clean(v, P)
      /\ SamePointers(Last(h1), v)
      /\ \A m \in Addresses : v.red[m] = IF m = b THEN 1 ELSE Last(h1).red[m]
  BY <1>3, <1>5, PaintTree
<1> HIDE DEF h2
<1>7. SamePointers(t, v)
  BY <1>5, <1>6 DEF SamePointers
<1>8. Repainted(r, v.red, {b}, {near})
  BY <1>3, <1>5, <1>6 DEF Repainted
<1>9. s \in Sides /\ o \in Sides /\ Other(o) = s
  BY TwoSides DEF Lacking
<1>10. /\ Nephews(v, p, b, near, far, s, o) /\ Lacking(v, r, Q, bh, x, p, s)
       /\ WasTop(v, root, p)
  <2>1. v.left = t.left /\ \A q \in Sides : v[q] = t[q]
    BY <1>7, SamePointersLinks
  <2>2. Nephews(v, p, b, near, far, s, o)
    BY <1>9, <2>1 DEF Nephews
  <2>3. Lacking(v, r, Q, bh, x, p, s)
    BY <1>7, SamePointersColours
  <2>4. QED
    BY <2>1, <2>2, <2>3 DEF WasTop
<1> HIDE DEF v, t
<1>11. v[Other(o)][b] # NIL
  BY <1>3, <1>4, <1>9, <1>10 DEF Nephews
<1>12. /\ h3 \in Histories /\ HasShape(u, Q, N, pos) /\ Clean(u, P)
       /\ Kin(u, Q) /\ RotatedAt(v, u, b, o)
  BY <1>3, <1>6, <1>9, <1>11, RotateTree DEF v
<1> HIDE DEF h3, u
<1>13. u.red = v.red
  BY <1>12 DEF RotatedAt
<1>14. u.red \in [Addresses -> {0, 1}]
  BY <1>12 DEF Kin, Images
<1>15. Kin(v, Q)
  BY <1>6, ShapeKin
<1>16. r[x] = 0 /\ r[b] = 0 /\ r[near] = 1 /\ r[far] = 0
  BY DEF t
<1> HIDE DEF r
<1>17. Repainted(r, u.red, {b}, {near})
  BY <1>8, <1>13
<1>18. /\ \E bh2 : Lacking(u, u.red, Q, bh2, x, p, s)
       /\ u[o][p] = near /\ u[o][near] = b
       /\ u.red[near] = 0 /\ u.red[b] = 1 /\ u.red[x] = 0
       /\ u.left[ROOT] = v.left[ROOT]
  BY <1>10, <1>12, <1>14, <1>15, <1>16, <1>17, RedNear
<1>19. PICK bh2 : Lacking(u, u.red, Q, bh2, x, p, s)
  BY <1>18
<1>20. PICK lo2, hi2 : Shaped(u, Q, N, pos, lo2, hi2)
  BY <1>12 DEF HasShape
<1> DEFINE c == u[s][near]
<1>21. Nephews(u, p, near, c, b, s, o)
  BY <1>18 DEF Nephews
<1>22. WasTop(u, root, p)
  BY <1>10, <1>18 DEF WasTop
<1> HIDE DEF c
<1>23. Sinking(Borrowing(h3, x, s), Q, P, N, pos, root, root, i)
  BY <1>12, <1>18, <1>19, <1>20, <1>21, <1>22, BorrowingStep DEF u
<1>24. QED
  BY <1>23 DEF h3, h2, h1

(* Both are black. *)
LEMMA BlackStep ==
  ASSUME NEW h \in Histories, NEW Q, NEW N, NEW pos, NEW lo, NEW hi,
         Shaped(Last(h), Q, N, pos, lo, hi), NEW P, Q \subseteq P, Clean(Last(h), P),
         NEW bh, NEW x, NEW p, NEW s, Lacking(Last(h), Last(h).red, Q, bh, x, p, s),
         Last(h).red[x] = 0, NEW o, o = Other(s),
         NEW b, NEW near, NEW far, Nephews(Last(h), p, b, near, far, s, o),
         Last(h).red[b] = 0, Last(h).red[near] = 0, Last(h).red[far] = 0,
         NEW root \in Addresses, NEW i \in Nat,
         Last(h).red[p] = 1 \/ (root = Last(h).left[ROOT] /\ Width(lo, hi, p) >= i)
  PROVE  Sinking(Paint(h, b, 1), Q, P, N, pos, root, p, i + 1)
<1> DEFINE t == Last(h)
           r == t.red
           h1 == Paint(h, b, 1)
           v == Last(h1)
<1>1. Kin(t, Q)
  BY ShapeKin
<1>2. Sibling(t, r, Q, bh, x, p, b, near, far)
  BY <1>1, LackingSibling
<1>3. /\ p \in Q /\ b \in Q /\ p # b /\ \A n \in Q \cup {NIL} : n \in Addresses
  BY <1>2 DEF Sibling
<1>4. /\ h1 \in Histories
      /\ Shaped(v, Q, N, pos, lo, hi) /\ Clean(v, P)
      /\ SamePointers(t, v)
      /\ \A m \in Addresses : v.red[m] = IF m = b THEN 1 ELSE r[m]
  BY <1>3, PaintTree
<1> HIDE DEF h1, v, t
<1>5. Repainted(r, v.red, {b}, {})
  BY <1>4 DEF Repainted
<1>6. v.red \in [Addresses -> {0, 1}]
  BY <1>4 DEF Shaped, Images
<1>7. r[x] = 0 /\ r[b] = 0 /\ r[near] = 0 /\ r[far] = 0
  BY DEF t
<1>8. Lacking(t, r, Q, bh, x, p, s) /\ Nephews(t, p, b, near, far, s, o)
  BY DEF t
<1>9. v.red[p] = r[p] /\ v.left = t.left /\ v.parent = t.parent
  BY <1>3, <1>4, SamePointersLinks
<1>10. r[p] = 1 \/ (root = t.left[ROOT] /\ Width(lo, hi, p) >= i)
  BY DEF t
<1> HIDE DEF r
<1>11. PICK bh2 : \/ AtTop(t, v.red, Q, bh2, p)
                  \/ \E q, s2 : Lacking(t, v.red, Q, bh2, p, q, s2)
  BY <1>1, <1>5, <1>6, <1>7, <1>8, BlackNephews
<1>12. CASE AtTop(t, v.red, Q, bh2, p)
  <2>1. AtTop(v, v.red, Q, bh2, p)
    BY <1>4, <1>12, SamePointersColours
  <2>2. v.left[ROOT] = p
    BY <2>1 DEF AtTop
  <2>3. Topmost(v, Q, root, p)
    BY <1>9, <1>10, <2>1, <2>2 DEF Topmost
  <2>4. QED
    BY <1>3, <1>4, <2>3 DEF Sinking, v, h1
<1>13. CASE \E q, s2 : Lacking(t, v.red, Q, bh2, p, q, s2)
  <2>1. PICK q, s2 : Lacking(t, v.red, Q, bh2, p, q, s2)
    BY <1>13
  <2>2. Lacking(v, v.red, Q, bh2, p, q, s2)
    BY <1>4, <2>1, SamePointersColours
  <2>3. q \in Q /\ v.parent[p] = q
    BY <2>2 DEF Lacking, Hollow
  <2>4. Width(lo, hi, p) \in Int /\ Width(lo, hi, q) >= Width(lo, hi, p) + 1
    BY <1>3, <1>4, <2>3, Wider
  <2>5. Width(lo, hi, q) \in Int
    BY <1>4, <2>3 DEF Shaped, Spanned, Numbered, Width
  <2>6. Width(lo, hi, p) >= i => Width(lo, hi, q) >= i + 1
    BY <2>4, <2>5
  <2>7. Low(v, Q, root, p, lo, hi, i + 1)
    BY <1>9, <1>10, <2>2, <2>6 DEF Low
  <2>8. QED
    BY <1>3, <1>4, <2>7 DEF Sinking, v, h1
<1>14. QED
  BY <1>11, <1>12, <1>13

(* e is a history and an x. *)
Sinks(e, Q, P, N, pos, root, i) ==
  /\ Sinking(e[1], Q, P, N, pos, root, e[2], i)
  /\ \E h2, x2 : e = <<h2, x2>>

(* The loop is about to be over, or x has i turns behind it. *)
Turning(t, root, lo, hi, p, i) ==
  t.red[p] = 1 \/ (root = t.left[ROOT] /\ Width(lo, hi, p) >= i)

(* With a black sibling, the turn ends the loop or brings x up.            *)
LEMMA BlackSiblingStep ==
  ASSUME NEW h \in Histories, NEW Q, NEW N, NEW pos, NEW lo, NEW hi,
         Shaped(Last(h), Q, N, pos, lo, hi), NEW P, Q \subseteq P, Clean(Last(h), P),
         NEW bh, NEW x, NEW p, NEW s, Lacking(Last(h), Last(h).red, Q, bh, x, p, s),
         Last(h).red[x] = 0, Last(h).red[Last(h)[Other(s)][p]] = 0,
         NEW root \in Addresses, WasTop(Last(h), root, p), NEW i \in Nat,
         Turning(Last(h), root, lo, hi, p, i)
  PROVE  Sinks(BlackSibling(h, root, x, s), Q, P, N, pos, root, i + 1)
<1> DEFINE t == Last(h)
           o == Other(s)
           b == t[o][p]
           near == t[s][b]
           far == t[o][b]
<1>1. Nephews(t, p, b, near, far, s, o)
  BY DEF Nephews
<1>2. Kin(t, Q)
  BY ShapeKin
<1>3. Sibling(t, t.red, Q, bh, x, p, b, near, far)
  BY <1>1, <1>2, LackingSibling
<1>4. /\ t.parent[x] = p
      /\ near \in Q \cup {NIL} /\ far \in Q \cup {NIL}
      /\ \A n \in Q \cup {NIL} : t.red[n] \in {0, 1}
  BY <1>3 DEF Sibling
<1> DEFINE h1 == Borrowing(Rotate(Paint(Paint(h, near, 0), b, 1), b, o), x, s)
           h2 == Borrowing(h, x, s)
           h3 == Paint(h, b, 1)
<1>5. BlackSibling(h, root, x, s) =
        IF t.red[near] = 0 /\ t.red[far] = 0 THEN <<h3, p>>
        ELSE IF t.red[far] = 0 THEN <<h1, root>> ELSE <<h2, root>>
  BY <1>4 DEF BlackSibling
<1> HIDE DEF near, far, b, o
<1>6. Shaped(t, Q, N, pos, lo, hi) /\ Clean(t, P) /\ Lacking(t, t.red, Q, bh, x, p, s)
      /\ t.red[x] = 0 /\ t.red[b] = 0 /\ WasTop(t, root, p) /\ o = Other(s)
      /\ (t.red[p] = 1 \/ (root = t.left[ROOT] /\ Width(lo, hi, p) >= i))
  BY DEF b, o, Turning
<1>7. CASE t.red[near] = 0 /\ t.red[far] = 0
  <2>1. Sinking(h3, Q, P, N, pos, root, p, i + 1)
    BY <1>1, <1>6, <1>7, BlackStep
  <2>2. BlackSibling(h, root, x, s) = <<h3, p>>
    BY <1>5, <1>7
  <2> HIDE DEF h3
  <2>3. QED
    BY <2>1, <2>2 DEF Sinks
<1>8. CASE t.red[near] = 1 /\ t.red[far] = 0
  <2>1. Sinking(h1, Q, P, N, pos, root, root, i + 1)
    BY <1>1, <1>6, <1>8, NearStep
  <2>2. BlackSibling(h, root, x, s) = <<h1, root>>
    BY <1>5, <1>8
  <2> HIDE DEF h1
  <2>3. QED
    BY <2>1, <2>2 DEF Sinks
<1>9. CASE t.red[far] = 1
  <2>1. Sinking(h2, Q, P, N, pos, root, root, i + 1)
    BY <1>1, <1>6, <1>9, BorrowingStep
  <2>2. BlackSibling(h, root, x, s) = <<h2, root>>
    BY <1>5, <1>9
  <2> HIDE DEF h2
  <2>3. QED
    BY <2>1, <2>2 DEF Sinks
<1>10. QED
  BY <1>4, <1>7, <1>8, <1>9

(* With a red one, the rotation at p makes it a turn with a black sibling, *)
(* below a red p, which ends the loop.                                     *)
LEMMA RedSiblingStep ==
  ASSUME NEW h \in Histories, NEW Q, NEW N, NEW pos, NEW lo, NEW hi,
         Shaped(Last(h), Q, N, pos, lo, hi), NEW P, Q \subseteq P, Clean(Last(h), P),
         NEW bh, NEW x, NEW p, NEW s, Lacking(Last(h), Last(h).red, Q, bh, x, p, s),
         Last(h).red[x] = 0, NEW o, o = Other(s),
         NEW b, NEW near, NEW far, Nephews(Last(h), p, b, near, far, s, o),
         Last(h).red[b] = 1,
         NEW root \in Addresses, root = Last(h).left[ROOT], NEW i \in Nat
  PROVE  LET e == BlackSibling(Rotate(Paint(Paint(h, b, 0), p, 1), p, s), root, x, s)
         IN Sinks(e, Q, P, N, pos, root, i + 1)
<1> DEFINE t == Last(h)
           r == t.red
           h1 == Paint(h, b, 0)
           h2 == Paint(h1, p, 1)
           v == Last(h2)
           g == Rotate(h2, p, s)
           u == Last(g)
<1>1. Kin(t, Q)
  BY ShapeKin
<1>2. Nephews(t, p, b, near, far, s, o)
  OBVIOUS
<1>3. Sibling(t, r, Q, bh, x, p, b, near, far)
  BY <1>1, <1>2, LackingSibling
<1>4. /\ p \in Q /\ b \in Q /\ p # b
      /\ \A n \in Q \cup {NIL} : n \in Addresses
      /\ NIL \notin Q
  BY <1>3 DEF Sibling
<1>5. /\ h1 \in Histories
      /\ Shaped(Last(h1), Q, N, pos, lo, hi) /\ Clean(Last(h1), P)
      /\ SamePointers(t, Last(h1))
      /\ \A m \in Addresses : Last(h1).red[m] = IF m = b THEN 0 ELSE r[m]
  BY <1>4, PaintTree
<1> HIDE DEF h1
<1>6. /\ h2 \in Histories
      /\ Shaped(v, Q, N, pos, lo, hi) /\ Clean(v, P)
      /\ SamePointers(Last(h1), v)
      /\ \A m \in Addresses : v.red[m] = IF m = p THEN 1 ELSE Last(h1).red[m]
  BY <1>4, <1>5, PaintTree
<1> HIDE DEF h2
<1>7. SamePointers(t, v)
  BY <1>5, <1>6 DEF SamePointers
<1>8. Repainted(r, v.red, {p}, {b})
  BY <1>4, <1>5, <1>6 DEF Repainted
<1>9. s \in Sides /\ o \in Sides
  BY TwoSides DEF Lacking
<1>10. /\ Nephews(v, p, b, near, far, s, o) /\ Lacking(v, r, Q, bh, x, p, s)
       /\ v.left = t.left
  <2>1. v.left = t.left /\ \A q \in Sides : v[q] = t[q]
    BY <1>7, SamePointersLinks
  <2>2. Nephews(v, p, b, near, far, s, o)
    BY <1>2, <1>9, <2>1 DEF Nephews
  <2>3. Lacking(v, r, Q, bh, x, p, s)
    BY <1>7, SamePointersColours
  <2>4. QED
    BY <2>1, <2>2, <2>3
<1> HIDE DEF v, t
<1>11. v[Other(s)][p] # NIL
  BY <1>4, <1>10 DEF Nephews
<1>12. /\ g \in Histories /\ HasShape(u, Q, N, pos) /\ Clean(u, P)
       /\ Kin(u, Q) /\ RotatedAt(v, u, p, s)
  BY <1>4, <1>6, <1>9, <1>11, RotateTree DEF v
<1> HIDE DEF u, g
<1>13. u.red = v.red
  BY <1>12 DEF RotatedAt
<1>14. u.red \in [Addresses -> {0, 1}]
  BY <1>12 DEF Kin, Images
<1>15. Kin(v, Q)
  BY <1>6, ShapeKin
<1>16. r[x] = 0 /\ r[b] = 1
  BY DEF t
<1> HIDE DEF r
<1>17. Repainted(r, u.red, {p}, {b})
  BY <1>8, <1>13
<1>18. /\ \E bh2 : Lacking(u, u.red, Q, bh2, x, p, s)
       /\ u[o][p] = near /\ u.red[near] = 0 /\ u.red[p] = 1 /\ u.red[x] = 0
       /\ v.left[ROOT] # p => u.left[ROOT] = v.left[ROOT]
  BY <1>10, <1>12, <1>14, <1>15, <1>16, <1>17, RedSibling
<1>19. PICK bh2 : Lacking(u, u.red, Q, bh2, x, p, s)
  BY <1>18
<1>20. PICK lo2, hi2 : Shaped(u, Q, N, pos, lo2, hi2)
  BY <1>12 DEF HasShape
<1>21. WasTop(u, root, p)
  <2>1. root = t.left[ROOT]
    BY DEF t
  <2>2. QED
    BY <1>10, <1>18, <2>1 DEF WasTop
<1>22. u.red[u[Other(s)][p]] = 0 /\ Turning(u, root, lo2, hi2, p, i)
  BY <1>18 DEF Turning
<1>23. Sinks(BlackSibling(g, root, x, s), Q, P, N, pos, root, i + 1)
  BY <1>12, <1>18, <1>19, <1>20, <1>21, <1>22, BlackSiblingStep DEF u
<1>24. QED
  BY <1>23 DEF g, h2, h1

(* x is below p on the side the loop takes it to be on, has a sibling, and *)
(* is not the top.                                                         *)
Beneath(t, Q, x, p, s) ==
  /\ t.parent[x] = p /\ p \in Addresses
  /\ (IF x = t.left[p] THEN "left" ELSE "right") = s
  /\ x # t.left[ROOT] /\ t[Other(s)][p] \in Q

(* RBDeleteFixUp finds out right which side x is on, although x may be     *)
(* nil, which is the child of many.                                        *)
LEMMA SinkingSide ==
  ASSUME NEW t, NEW Q, NEW N, NEW pos, NEW lo, NEW hi,
         Shaped(t, Q, N, pos, lo, hi), NEW bh, NEW x, NEW p, NEW s,
         Lacking(t, t.red, Q, bh, x, p, s), t.red[x] = 0
  PROVE  Beneath(t, Q, x, p, s)
<1> DEFINE o == Other(s)
           b == t[o][p]
           near == t[s][b]
           far == t[o][b]
<1>1. Kin(t, Q)
  BY ShapeKin
<1>2. Nephews(t, p, b, near, far, s, o)
  BY DEF Nephews
<1>3. Sibling(t, t.red, Q, bh, x, p, b, near, far)
  BY <1>1, <1>2, LackingSibling
<1>4. /\ t.parent[x] = p /\ p \in Q /\ b \in Q /\ x # b /\ p \in Addresses /\ ROOT \notin Q
  BY <1>3 DEF Sibling
<1>5. s \in Sides /\ t[s][p] = x
  BY DEF Lacking, Hollow
<1>6. (IF x = t.left[p] THEN "left" ELSE "right") = s
  <2>1. CASE s = "left"
    <3>1. t["left"][p] = x
      BY <1>5, <2>1
    <3>2. QED
      BY <2>1, <3>1
  <2>2. CASE s = "right"
    <3>1. o = "left"
      BY <2>2 DEF Other
    <3>2. b = t["left"][p]
      BY <3>1
    <3>3. b = t.left[p]
      BY <3>2
    <3> HIDE DEF b
    <3>4. QED
      BY <1>4, <2>2, <3>3
  <2>3. QED
    BY <1>5, <2>1, <2>2 DEF Sides
<1>7. x # t.left[ROOT]
  <2>1. t.left[ROOT] # NIL
    <3>1. TopSpans(t, Q, N, lo, hi) /\ pos[p] \in 1..N
      BY <1>4 DEF Shaped, Numbered
    <3>2. QED
      BY <3>1 DEF TopSpans
  <2>2. t.parent[t.left[ROOT]] = ROOT
    BY <1>1, <2>1 DEF Kin
  <2>3. QED
    BY <1>4, <2>2
<1>8. QED
  BY <1>4, <1>6, <1>7 DEF Beneath

(* Whatever turn it is, x is above one more node, or the loop is over.     *)
LEMMA DeleteTurnStep ==
  ASSUME NEW h, NEW Q, NEW P, NEW N, NEW pos, NEW root, NEW x, NEW i \in Nat,
         Sinking(h, Q, P, N, pos, root, x, i)
  PROVE  Sinks(DeleteTurn(h, root, x), Q, P, N, pos, root, i + 1)
<1> DEFINE t == Last(h)
<1>1. /\ h \in Histories /\ Q \subseteq P /\ Clean(t, P) /\ x \in Addresses /\ root \in Addresses
  BY DEF Sinking
<1>2. PICK lo, hi : /\ Shaped(t, Q, N, pos, lo, hi)
                    /\ \/ Low(t, Q, root, x, lo, hi, i)
                       \/ Topmost(t, Q, root, x)
                       \/ Mended(t, Q, root, x)
  BY DEF Sinking
<1>3. CASE t.red[x] = 1 \/ x = root
  <2>1. DeleteTurn(h, root, x) = <<h, x>>
    BY <1>3 DEF DeleteTurn
  <2>2. ASSUME Low(t, Q, root, x, lo, hi, i)
        PROVE  Low(t, Q, root, x, lo, hi, i + 1)
    <3>1. PICK bh, p, s : /\ Lacking(t, t.red, Q, bh, x, p, s)
                          /\ t.red[x] = 1 \/ root = t.left[ROOT]
      BY <2>2 DEF Low
    <3>2. t.red[x] = 1
      <4>1. t.red[x] \in {0, 1}
        BY <1>1, <3>1 DEF Lacking
      <4>2. t.red[x] # 0
        <5>1. SUFFICES ASSUME t.red[x] = 0 PROVE FALSE
          OBVIOUS
        <5>2. Beneath(t, Q, x, p, s)
          BY <1>2, <3>1, <5>1, SinkingSide
        <5>3. QED
          BY <1>3, <3>1, <5>1, <5>2 DEF Beneath
      <4>3. QED
        BY <4>1, <4>2
    <3>3. QED
      BY <3>1, <3>2 DEF Low
  <2>3. Sinking(h, Q, P, N, pos, root, x, i + 1)
    BY <1>1, <1>2, <2>2 DEF Sinking
  <2>4. QED
    BY <2>1, <2>3 DEF Sinks
<1>4. CASE ~(t.red[x] = 1 \/ x = root)
  <2>1. Low(t, Q, root, x, lo, hi, i)
    BY <1>2, <1>4 DEF Topmost, Mended
  <2>2. PICK bh, p, s : /\ Lacking(t, t.red, Q, bh, x, p, s)
                        /\ root = t.left[ROOT] /\ Width(lo, hi, p) >= i
    BY <1>4, <2>1 DEF Low
  <2>3. t.red[x] = 0
    BY <1>1, <1>4, <2>2 DEF Lacking
  <2>10. Beneath(t, Q, x, p, s)
    BY <1>2, <2>2, <2>3, SinkingSide
  <2>4. /\ t.parent[x] = p /\ p \in Addresses
        /\ (IF x = t.left[p] THEN "left" ELSE "right") = s
        /\ t[Other(s)][p] \in Q
    BY <2>10 DEF Beneath
  <2> DEFINE o == Other(s)
             b == t[o][p]
             near == t[s][b]
             far == t[o][b]
             h1 == Rotate(Paint(Paint(h, b, 0), p, 1), p, s)
  <2>5. DeleteTurn(h, root, x) =
          IF t.red[b] = 1 THEN BlackSibling(h1, root, x, s)
          ELSE BlackSibling(h, root, x, s)
    BY <1>4, <2>4 DEF DeleteTurn
  <2>6. t.red[b] \in {0, 1}
    <3>1. b \in Addresses
      BY <1>2, <2>4 DEF Shaped, Numbered, Addresses
    <3>2. QED
      BY <2>2, <3>1 DEF Lacking
  <2>7. CASE t.red[b] = 0
    <3>1. WasTop(t, root, p)
      BY <2>2 DEF WasTop
    <3>5. t.red[t[Other(s)][p]] = 0 /\ Turning(t, root, lo, hi, p, i)
      BY <2>2, <2>7 DEF Turning
    <3>6. Shaped(t, Q, N, pos, lo, hi) /\ Clean(t, P) /\ Lacking(t, t.red, Q, bh, x, p, s)
      BY <1>1, <1>2, <2>2
    <3> HIDE DEF b, near, far, o, h1, t
    <3>2. Sinks(BlackSibling(h, root, x, s), Q, P, N, pos, root, i + 1)
      BY <1>1, <2>3, <3>1, <3>5, <3>6, BlackSiblingStep DEF t
    <3>3. DeleteTurn(h, root, x) = BlackSibling(h, root, x, s)
      BY <2>5, <2>7
    <3>4. QED
      BY <3>2, <3>3
  <2>8. CASE t.red[b] = 1
    <3>1. Nephews(t, p, b, near, far, s, o)
      BY DEF Nephews
    <3>2. t.red[b] = 1 /\ o = Other(s)
      BY <2>8
    <3>3. DeleteTurn(h, root, x) = BlackSibling(h1, root, x, s)
      BY <2>5, <2>8
    <3>6. /\ Shaped(t, Q, N, pos, lo, hi) /\ Clean(t, P) /\ Lacking(t, t.red, Q, bh, x, p, s)
          /\ root = t.left[ROOT]
      BY <1>1, <1>2, <2>2
    <3> HIDE DEF b, near, far, o, h1, t
    <3>4. Sinks(BlackSibling(h1, root, x, s), Q, P, N, pos, root, i + 1)
      BY <1>1, <2>3, <3>1, <3>2, <3>6, RedSiblingStep DEF h1, t
    <3>5. QED
      BY <3>3, <3>4
  <2>9. QED
    BY <2>6, <2>7, <2>8
<1>5. QED
  BY <1>3, <1>4

(* The turns of RBDeleteFixUp's loop are a function.                       *)
LEMMA DeleteTurnsAre ==
  ASSUME NEW h, NEW root, NEW x, NEW S, <<h, x>> \in S,
         \A e \in S : DeleteTurn(e[1], root, e[2]) \in S
  PROVE  /\ DeleteTurns(h, root, x)[0] = <<h, x>>
         /\ \A n \in Nat : LET e == DeleteTurns(h, root, x)[n]
                           IN e \in S /\ DeleteTurns(h, root, x)[n + 1] = DeleteTurn(e[1], root, e[2])
<1> DEFINE F == [e \in S |-> DeleteTurn(e[1], root, e[2])]
           Turns(f) == f = [i \in Nat |-> IF i = 0 THEN <<h, x>>
                                          ELSE LET r == f[i - 1] IN DeleteTurn(r[1], root, r[2])]
<1>1. F \in [S -> S]
  OBVIOUS
<1> DEFINE a == <<h, x>>
<1>2. PICK f : f \in [Nat -> S] /\ f[0] = a /\ \A n \in Nat : f[n + 1] = F[f[n]]
  <2>1. a \in S
    OBVIOUS
  <2> HIDE DEF F, a
  <2>2. \E f : Endless(f, S, F, a)
    BY <1>1, <2>1, Iterated
  <2>3. QED
    BY <2>2 DEF Endless
<1>3. Turns(f)
  <2>1. ASSUME NEW i \in Nat, i # 0 PROVE f[i] = DeleteTurn(f[i - 1][1], root, f[i - 1][2])
    <3>1. i - 1 \in Nat /\ (i - 1) + 1 = i
      BY <2>1
    <3>2. f[i] = F[f[i - 1]] /\ f[i - 1] \in S
      BY <1>2, <3>1
    <3>3. QED
      BY <3>2
  <2>2. QED
    BY <1>2, <2>1
<1>4. Turns(DeleteTurns(h, root, x))
  <2>1. DeleteTurns(h, root, x) = CHOOSE g : Turns(g)
    BY DEF DeleteTurns
  <2>2. QED
    BY <1>3, <2>1
<1> DEFINE g == DeleteTurns(h, root, x)
<1> HIDE DEF g
<1>5. g[0] = <<h, x>> /\ \A n \in Nat : g[n + 1] = DeleteTurn(g[n][1], root, g[n][2])
  <2>1. Turns(g)
    BY <1>4 DEF g
  <2>2. g[0] = <<h, x>>
    BY <2>1
  <2>3. ASSUME NEW n \in Nat PROVE g[n + 1] = DeleteTurn(g[n][1], root, g[n][2])
    <3>1. n + 1 \in Nat /\ n + 1 # 0 /\ (n + 1) - 1 = n
      OBVIOUS
    <3>2. g[n + 1] = DeleteTurn(g[(n + 1) - 1][1], root, g[(n + 1) - 1][2])
      BY <2>1, <3>1
    <3>3. QED
      BY <3>1, <3>2
  <2>4. QED
    BY <2>2, <2>3
<1>6. \A n \in Nat : g[n] \in S
  <2> DEFINE T == {n \in Nat : g[n] \in S}
  <2>1. 0 \in T
    BY <1>5
  <2>0. ASSUME NEW n \in T PROVE n + 1 \in T
    <3>1. n \in Nat /\ g[n] \in S
      OBVIOUS
    <3>2. DeleteTurn(g[n][1], root, g[n][2]) \in S
      BY <3>1
    <3>3. QED
      BY <1>5, <3>1, <3>2
  <2>2. T = Nat
    <3> HIDE DEF T
    <3>1. T \subseteq Nat
      BY DEF T
    <3>2. QED
      BY <2>1, <2>0, <3>1, Induct
  <2>3. QED
    BY <2>2
<1>7. QED
  BY <1>5, <1>6 DEF g

(* A sound tree, and the nodes of P \ Q not freed yet. *)
Whole(t, Q, P, N, pos) ==
  /\ HasShape(t, Q, N, pos) /\ Clean(t, P)
  /\ \E bh : Coloured(t, t.red, Q, bh)

(* What the last store of RBDeleteFixUp makes of the loop's outcome. *)
LEMMA SunkDone ==
  ASSUME NEW h, NEW Q, NEW P, NEW N, NEW pos, NEW root, NEW x, NEW i \in Nat,
         Sinking(h, Q, P, N, pos, root, x, i), i >= Cardinality(Uthreads)
  PROVE  /\ DeleteTurn(h, root, x) = <<h, x>>
         /\ Paint(h, x, 0) \in Histories
         /\ Whole(Last(Paint(h, x, 0)), Q, P, N, pos)
<1> DEFINE t == Last(h)
           g == Paint(h, x, 0)
           w == Last(g).red
<1>1. h \in Histories /\ Q \subseteq P /\ Clean(t, P) /\ x \in Addresses /\ root \in Addresses
  BY DEF Sinking
<1>2. PICK lo, hi : /\ Shaped(t, Q, N, pos, lo, hi)
                    /\ \/ Low(t, Q, root, x, lo, hi, i)
                       \/ Topmost(t, Q, root, x)
                       \/ Mended(t, Q, root, x)
  BY DEF Sinking
<1>3. /\ g \in Histories
      /\ Shaped(Last(g), Q, N, pos, lo, hi) /\ Clean(Last(g), P)
      /\ SamePointers(t, Last(g))
      /\ \A m \in Addresses : w[m] = IF m = x THEN 0 ELSE t.red[m]
  BY <1>1, <1>2, PaintTree
<1> HIDE DEF g
<1>4. Kin(t, Q) /\ t.red \in [Addresses -> {0, 1}] /\ w \in [Addresses -> {0, 1}]
  BY <1>2, <1>3, ShapeKin DEF Shaped, Images
<1>5. Repainted(t.red, w, {}, {x})
  BY <1>3 DEF Repainted
<1>6. (t.red[x] = 1 \/ x = root) /\ \E bh2 : Coloured(t, w, Q, bh2)
  <2>1. CASE Low(t, Q, root, x, lo, hi, i)
    <3>1. PICK bh, p, s : /\ Lacking(t, t.red, Q, bh, x, p, s)
                          /\ t.red[x] = 1 \/ Width(lo, hi, p) >= i
      BY <2>1 DEF Low
    <3>2. Numbered(Q, N, pos) /\ Spanned(Q, N, lo, hi)
      BY <1>2 DEF Shaped
    <3>3. p \in Q
      BY <3>1 DEF Lacking
    <3>4. lo[p] \in 1..N /\ hi[p] \in 1..N
      BY <3>2, <3>3 DEF Spanned
    <3> DEFINE C == Cardinality(Uthreads)
    <3>5. N \in Nat /\ C \in Nat /\ N <= C
      BY <3>2, NumberedCount
    <3>6. i >= C
      OBVIOUS
    <3> HIDE DEF C
    <3>7. ~(Width(lo, hi, p) >= i)
      BY <3>4, <3>5, <3>6 DEF Width
    <3>8. t.red[x] = 1
      BY <3>1, <3>7
    <3> HIDE DEF t, w
    <3>9. \E bh2 : Coloured(t, w, Q, bh2)
      BY <1>4, <1>5, <3>1, <3>8, LackingDone
    <3>10. QED
      BY <3>8, <3>9
  <2>2. CASE Topmost(t, Q, root, x)
    <3>1. PICK bh : AtTop(t, t.red, Q, bh, x)
      BY <2>2 DEF Topmost
    <3>2. t.red[x] = 1 \/ x = root
      BY <2>2 DEF Topmost
    <3> HIDE DEF t, w
    <3>3. \E bh2 : Coloured(t, w, Q, bh2)
      BY <1>4, <1>5, <3>1, AtTopDone
    <3>4. QED
      BY <3>2, <3>3
  <2>3. CASE Mended(t, Q, root, x)
    <3>1. t.red[x] = 0 /\ x = root /\ \E bh : Coloured(t, t.red, Q, bh)
      BY <2>3 DEF Mended
    <3>2. w = t.red
      BY <1>3, <1>4, <3>1
    <3>3. QED
      BY <3>1, <3>2
  <2>4. QED
    BY <1>2, <2>1, <2>2, <2>3
<1>7. \E bh2 : Coloured(Last(g), w, Q, bh2)
  BY <1>3, <1>6, SamePointersColours
<1>8. Whole(Last(g), Q, P, N, pos)
  BY <1>3, <1>7 DEF Whole, HasShape
<1>9. DeleteTurn(h, root, x) = <<h, x>>
  BY <1>6 DEF DeleteTurn
<1>10. QED
  BY <1>3, <1>8, <1>9 DEF g

(* No x can be above more nodes than there are: after as many turns as     *)
(* there are uthreads RBDeleteFixUp's loop is over, one more would change  *)
(* nothing.                                                                *)
DeleteOver(h, x) ==
  LET root == Last(h).left[ROOT]
      e == DeleteTurns(h, root, x)[Cardinality(Uthreads)]
  IN DeleteTurn(e[1], root, e[2]) = e

(* It is, if it begins in a tree where x is short of a black node, and     *)
(* the rules hold again.                                                   *)
THEOREM DeleteFixUpDone ==
  ASSUME NEW h, NEW Q, NEW P, NEW N, NEW pos, NEW x,
         Sinking(h, Q, P, N, pos, Last(h).left[ROOT], x, 0)
  PROVE  /\ DeleteOver(h, x)
         /\ RBDeleteFixUp(h, x) \in Histories
         /\ Whole(Last(RBDeleteFixUp(h, x)), Q, P, N, pos)
<1> DEFINE root == Last(h).left[ROOT]
           S == {e \in Histories \X Addresses : Sinking(e[1], Q, P, N, pos, root, e[2], 0)}
           g == DeleteTurns(h, root, x)
           C == Cardinality(Uthreads)
<1>0. Sinking(h, Q, P, N, pos, root, x, 0)
  OBVIOUS
<1> HIDE DEF root
<1>1. ASSUME NEW e, NEW y, NEW i \in Nat, Sinking(e, Q, P, N, pos, root, y, i)
      PROVE  <<e, y>> \in S
  <2>1. PICK lo, hi : /\ Shaped(Last(e), Q, N, pos, lo, hi)
                      /\ \/ Low(Last(e), Q, root, y, lo, hi, i)
                         \/ Topmost(Last(e), Q, root, y)
                         \/ Mended(Last(e), Q, root, y)
    BY <1>1 DEF Sinking
  <2>2. /\ e \in Histories /\ Q \subseteq P /\ Clean(Last(e), P)
        /\ y \in Addresses /\ root \in Addresses
    BY <1>1 DEF Sinking
  <2>3. ASSUME Low(Last(e), Q, root, y, lo, hi, i)
        PROVE  Low(Last(e), Q, root, y, lo, hi, 0)
    <3>1. PICK bh, p, s :
            /\ Lacking(Last(e), Last(e).red, Q, bh, y, p, s)
            /\ Last(e).red[y] = 1 \/ (root = Last(e).left[ROOT] /\ Width(lo, hi, p) >= i)
      BY <2>3 DEF Low
    <3>2. p \in Q
      BY <3>1 DEF Lacking
    <3>3. Width(lo, hi, p) \in Int
      BY <2>1, <3>2 DEF Shaped, Spanned, Numbered, Width
    <3>4. Width(lo, hi, p) >= i => Width(lo, hi, p) >= 0
      BY <3>3
    <3>5. QED
      BY <3>1, <3>4 DEF Low
  <2>4. Sinking(e, Q, P, N, pos, root, y, 0)
    BY <2>1, <2>2, <2>3 DEF Sinking
  <2>5. QED
    BY <2>2, <2>4
<1>2. ASSUME NEW e \in S PROVE DeleteTurn(e[1], root, e[2]) \in S
  <2>1. Sinking(e[1], Q, P, N, pos, root, e[2], 0)
    OBVIOUS
  <2>2. Sinks(DeleteTurn(e[1], root, e[2]), Q, P, N, pos, root, 0 + 1)
    BY <2>1, DeleteTurnStep
  <2>3. PICK h2, x2 : DeleteTurn(e[1], root, e[2]) = <<h2, x2>>
    BY <2>2 DEF Sinks
  <2>4. Sinking(h2, Q, P, N, pos, root, x2, 0 + 1)
    BY <2>2, <2>3 DEF Sinks
  <2>5. QED
    BY <1>1, <2>3, <2>4
<1>3. <<h, x>> \in S
  BY <1>0, <1>1
<1> HIDE DEF S
<1>4. /\ g[0] = <<h, x>>
      /\ \A n \in Nat : g[n] \in S /\ g[n + 1] = DeleteTurn(g[n][1], root, g[n][2])
  BY <1>2, <1>3, DeleteTurnsAre
<1> HIDE DEF g
<1> DEFINE T == {n \in Nat : Sinking(g[n][1], Q, P, N, pos, root, g[n][2], n)}
<1>5. 0 \in T
  BY <1>0, <1>4
<1>6. ASSUME NEW n \in T PROVE n + 1 \in T
  <2>1. n \in Nat /\ Sinking(g[n][1], Q, P, N, pos, root, g[n][2], n)
    OBVIOUS
  <2>2. Sinks(DeleteTurn(g[n][1], root, g[n][2]), Q, P, N, pos, root, n + 1)
    BY <2>1, DeleteTurnStep
  <2>3. g[n + 1] = DeleteTurn(g[n][1], root, g[n][2])
    BY <1>4, <2>1
  <2>4. QED
    BY <2>1, <2>2, <2>3 DEF Sinks
<1>7. T = Nat
  <2>1. T \subseteq Nat
    OBVIOUS
  <2> HIDE DEF T
  <2>2. QED
    BY <1>5, <1>6, <2>1, Induct
<1>8. C \in Nat /\ C >= C
  BY TreeAssumption, FS_CardinalityType
<1> DEFINE e == g[C][1]
           y == g[C][2]
<1>9. Sinking(e, Q, P, N, pos, root, y, C)
  BY <1>7, <1>8
<1>10. g[C] = <<e, y>>
  BY <1>4, <1>8 DEF S
<1> HIDE DEF T
<1>11. RBDeleteFixUp(h, x) = Paint(e, y, 0)
  BY DEF RBDeleteFixUp, g, root
<1> HIDE DEF e, y
<1>12. /\ DeleteTurn(e, root, y) = <<e, y>>
       /\ Paint(e, y, 0) \in Histories /\ Whole(Last(Paint(e, y, 0)), Q, P, N, pos)
  BY <1>8, <1>9, SunkDone
<1>13. DeleteOver(h, x)
  BY <1>12, <1>10 DEF DeleteOver, g, root, C
<1>14. QED
  BY <1>11, <1>12, <1>13

-----------------------------------------------------------------------------
(* The stores of RBDelete.                                                 *)

(* The first stores of RBDelete. *)
Unhanging(h, y, x) ==
  LET h1 == Put(h, "parent", x, Last(h).parent[y])
  IN IF Last(h).parent[y] = ROOT THEN Put(h1, "left", ROOT, x) ELSE Replace(h1, y, x)

(* They take y out of the tree.                                            *)
LEMMA UnhangingUnhung ==
  ASSUME NEW h \in Histories, NEW Q, Kin(Last(h), Q), NEW y \in Q,
         NEW x \in Q \cup {NIL}, x # y
  PROVE  LET g == Unhanging(h, y, x)
         IN /\ g \in Histories
            /\ Unhung(Last(h), Last(g), y, x)
            /\ Last(g).key = Last(h).key
<1> DEFINE t == Last(h)
           p == t.parent[y]
           h1 == Put(h, "parent", x, p)
           d == IF t.left[p] = y THEN "left" ELSE "right"
           h2 == Put(h1, d, p, x)
           u == Last(h2)
<1>1. /\ x \in Addresses /\ y \in Addresses /\ p \in Addresses /\ d \in Pointers
      /\ "left" \in Pointers /\ "parent" \in Pointers /\ d # "parent"
      /\ ROOT \in Addresses
  BY Above, TreeAssumption DEF Kin, Addresses, Pointers
<1>2. p = ROOT => t.left[ROOT] = y
  BY Above, TreeAssumption DEF Kin
<1> HIDE DEF p
<1>3. /\ h1 \in Histories /\ Last(h1).red = t.red /\ Last(h1).key = t.key
      /\ \A f \in Pointers : \A m \in Addresses :
           Last(h1)[f][m] = IF f = "parent" /\ m = x THEN p ELSE t[f][m]
  BY <1>1, PutHistory, PutPointer
<1>4. Last(h1)["parent"][y] = t["parent"][y] /\ Last(h1)["left"][p] = t["left"][p]
  BY <1>1, <1>3
<1>5. Last(h1).parent[y] = p /\ Last(h1).left[p] = t.left[p]
  BY <1>4 DEF p
<1>6. Unhanging(h, y, x) = h2
  <2>1. Unhanging(h, y, x) = IF p = ROOT THEN Put(h1, "left", ROOT, x) ELSE Replace(h1, y, x)
    BY DEF Unhanging, p
  <2> HIDE DEF h1, t
  <2>2. Replace(h1, y, x) = h2
    BY <1>5 DEF Replace
  <2>3. p = ROOT => h2 = Put(h1, "left", ROOT, x)
    BY <1>2
  <2>4. QED
    BY <2>1, <2>2, <2>3
<1> HIDE DEF h1
<1>7. /\ h2 \in Histories /\ u.red = t.red /\ u.key = t.key
      /\ \A f \in Pointers : \A m \in Addresses :
           u[f][m] = IF f = d /\ m = p THEN x ELSE Last(h1)[f][m]
  <2>1. h1 \in Histories /\ d \in Pointers /\ p \in Addresses /\ x \in Addresses
    BY <1>1, <1>3
  <2> HIDE DEF d, t
  <2>2. h2 \in Histories
    BY <2>1, PutHistory
  <2>3. QED
    BY <1>3, <2>1, <2>2, PutPointer
<1> HIDE DEF h2, u, t
<1>8. ASSUME NEW m \in Addresses, NEW q \in Sides
      PROVE  u[q][m] = IF m = p /\ (q = "left" <=> t.left[p] = y) THEN x ELSE t[q][m]
  <2>1. q \in Pointers /\ q # "parent" /\ (q = "left" \/ q = "right")
    BY DEF Sides, Pointers
  <2>2. u[q][m] = IF q = d /\ m = p THEN x ELSE t[q][m]
    BY <1>3, <1>7, <2>1
  <2>3. QED
    BY <2>1, <2>2
<1>9. ASSUME NEW m \in Addresses
      PROVE  u.parent[m] = IF m = x THEN p ELSE t.parent[m]
  <2>1. u["parent"][m] = IF m = x THEN p ELSE t["parent"][m]
    BY <1>1, <1>3, <1>7
  <2>2. QED
    BY <2>1
<1>10. Unhung(t, u, y, x)
  BY <1>7, <1>8, <1>9 DEF Unhung, p
<1>11. QED
  BY <1>6, <1>7, <1>10 DEF u, t

(* The stores of RBDelete for y # z substitute y for z.                    *)
LEMMA SplicedSubstituted ==
  ASSUME NEW h \in Histories, NEW Q, Kin(Last(h), Q), NEW z \in Q,
         NEW y \in Uthreads, y \notin Q
  PROVE  LET g == Spliced(h, y, z)
         IN /\ g \in Histories
            /\ Substituted(Last(h), Last(g), z, y)
            /\ Last(g).key = Last(h).key
<1> DEFINE t == Last(h)
           a == t.left[z]
           b == t.right[z]
           p == t.parent[z]
           c == t.red[z]
           d == IF z = t.left[p] THEN "left" ELSE "right"
           h1 == Put(h, "left", y, a)
           h2 == Put(h1, "right", y, b)
           h3 == Put(h2, "parent", y, p)
           h4 == Paint(h3, y, c)
           h5 == Put(h4, "parent", b, y)
           h6 == Put(h5, "parent", a, y)
           h7 == Put(h6, d, p, y)
           u == Last(h7)
<1>1. /\ a \in Addresses /\ b \in Addresses /\ p \in Addresses /\ c \in {0, 1}
      /\ y \in Addresses /\ z \in Addresses /\ d \in Pointers
      /\ "left" \in Pointers /\ "right" \in Pointers /\ "parent" \in Pointers
      /\ d # "parent"
  BY LastOfHistory DEF Addresses, Pointers, Kin, Images
<1>2. /\ y # z /\ y # p /\ y # a /\ y # b /\ z # a /\ z # b
  <2>1. /\ t["left"][z] = a /\ t["right"][z] = b /\ "left" \in Sides /\ "right" \in Sides
    BY DEF Sides
  <2>2. p \in Q \cup {ROOT}
    BY Above
  <2>3. a \in Q \cup {NIL} /\ b \in Q \cup {NIL} /\ a # z /\ b # z
    BY <2>1, Below
  <2>4. y # NIL /\ y # ROOT
    BY TreeAssumption
  <2>5. QED
    BY <2>2, <2>3, <2>4
<1> HIDE DEF a, b, p, c
<1>3. /\ h1 \in Histories /\ Last(h1).red = t.red /\ Last(h1).key = t.key
      /\ \A f \in Pointers : \A m \in Addresses :
           Last(h1)[f][m] = IF f = "left" /\ m = y THEN a ELSE t[f][m]
  BY <1>1, PutHistory, PutPointer
<1> HIDE DEF h1
<1>4. /\ h2 \in Histories /\ Last(h2).red = t.red /\ Last(h2).key = t.key
      /\ \A f \in Pointers : \A m \in Addresses :
           Last(h2)[f][m] = IF f = "right" /\ m = y THEN b ELSE Last(h1)[f][m]
  BY <1>1, <1>3, PutHistory, PutPointer
<1> HIDE DEF h2
<1>5. /\ h3 \in Histories /\ Last(h3).red = t.red /\ Last(h3).key = t.key
      /\ \A f \in Pointers : \A m \in Addresses :
           Last(h3)[f][m] = IF f = "parent" /\ m = y THEN p ELSE Last(h2)[f][m]
  BY <1>1, <1>4, PutHistory, PutPointer
<1> HIDE DEF h3
<1>6. /\ h4 \in Histories /\ Last(h4).key = t.key
      /\ \A f \in Pointers : Last(h4)[f] = Last(h3)[f]
      /\ \A m \in Addresses : Last(h4).red[m] = IF m = y THEN c ELSE Last(h3).red[m]
  <2>1. y \in Addresses /\ c \in {0, 1} /\ h3 \in Histories
    BY <1>1, <1>5
  <2>2. h4 \in Histories
    BY <2>1, PaintHistory
  <2>3. /\ Last(h4).key = Last(h3).key
        /\ \A f \in Pointers : Last(h4)[f] = Last(h3)[f]
        /\ \A m \in Addresses : Last(h4).red[m] = IF m = y THEN c ELSE Last(h3).red[m]
    BY <2>1, PaintRed
  <2>4. QED
    BY <1>5, <2>2, <2>3
<1> HIDE DEF h4
<1>7. /\ h5 \in Histories /\ Last(h5).red = Last(h4).red /\ Last(h5).key = t.key
      /\ \A f \in Pointers : \A m \in Addresses :
           Last(h5)[f][m] = IF f = "parent" /\ m = b THEN y ELSE Last(h4)[f][m]
  BY <1>1, <1>6, PutHistory, PutPointer
<1> HIDE DEF h5
<1>8. /\ h6 \in Histories /\ Last(h6).red = Last(h4).red /\ Last(h6).key = t.key
      /\ \A f \in Pointers : \A m \in Addresses :
           Last(h6)[f][m] = IF f = "parent" /\ m = a THEN y ELSE Last(h5)[f][m]
  BY <1>1, <1>7, PutHistory, PutPointer
<1> HIDE DEF h6
<1>9. /\ h7 \in Histories /\ u.red = Last(h4).red /\ u.key = t.key
      /\ \A f \in Pointers : \A m \in Addresses :
           u[f][m] = IF f = d /\ m = p THEN y ELSE Last(h6)[f][m]
  <2>1. h6 \in Histories /\ d \in Pointers /\ p \in Addresses /\ y \in Addresses
    BY <1>1, <1>8
  <2> HIDE DEF d, t
  <2>2. h7 \in Histories
    BY <2>1, PutHistory
  <2>3. QED
    BY <1>8, <2>1, <2>2, PutPointer
<1>10. Last(h6).parent[z] = p /\ Last(h6).left[p] = t.left[p]
  <2>1. Last(h6)["parent"][z] = t["parent"][z]
    BY <1>1, <1>2, <1>3, <1>4, <1>5, <1>6, <1>7, <1>8
  <2>2. Last(h6)["left"][p] = t["left"][p]
    BY <1>1, <1>2, <1>3, <1>4, <1>5, <1>6, <1>7, <1>8
  <2>3. QED
    BY <2>1, <2>2 DEF p
<1>11. Spliced(h, y, z) = h7
  <2>1. Spliced(h, y, z) =
          Put(h6, IF z = Last(h6).left[Last(h6).parent[z]] THEN "left" ELSE "right",
              Last(h6).parent[z], y)
    BY DEF Spliced, h1, h2, h3, h4, h5, h6, a, b, p, c
  <2> HIDE DEF t
  <2>2. QED
    BY <1>10, <2>1
<1> HIDE DEF h7, u, t
<1>12. ASSUME NEW m \in Addresses, NEW q \in Sides
       PROVE  u[q][m] = IF m = p /\ (q = "left" <=> t.left[p] = z) THEN y
                        ELSE IF m = y THEN t[q][z] ELSE t[q][m]
  <2>1. q \in Pointers /\ q # "parent" /\ (q = "left" \/ q = "right")
    BY DEF Sides, Pointers
  <2>2. Last(h6)[q][m] = IF m = y THEN IF q = "left" THEN a ELSE b ELSE t[q][m]
    BY <1>1, <1>3, <1>4, <1>5, <1>6, <1>7, <1>8, <2>1
  <2>3. u[q][m] = IF q = d /\ m = p THEN y ELSE Last(h6)[q][m]
    BY <1>9, <2>1
  <2>4. t["left"][z] = a /\ t["right"][z] = b
    BY DEF a, b, t
  <2>5. QED
    BY <1>2, <2>1, <2>2, <2>3, <2>4
<1>13. ASSUME NEW m \in Addresses
       PROVE  u.parent[m] = IF m = y THEN p
                            ELSE IF m = a \/ m = b THEN y ELSE t.parent[m]
  <2>1. u["parent"][m] = IF m = a \/ m = b THEN y
                         ELSE IF m = y THEN p ELSE t["parent"][m]
    BY <1>1, <1>3, <1>4, <1>5, <1>6, <1>7, <1>8, <1>9
  <2>2. QED
    BY <1>2, <2>1
<1>14. ASSUME NEW m \in Addresses
       PROVE  u.red[m] = IF m = y THEN c ELSE t.red[m]
  BY <1>5, <1>6, <1>9
<1>15. Substituted(t, u, z, y)
  <2>1. a = t.left[z] /\ b = t.right[z] /\ p = t.parent[z] /\ c = t.red[z]
    BY DEF a, b, p, c, t
  <2>2. QED
    BY <1>12, <1>13, <1>14, <2>1 DEF Substituted
<1>16. QED
  BY <1>9, <1>11, <1>15 DEF u, t

-----------------------------------------------------------------------------
(* Recursive functions.                                                    *)

(* What H says of f at m depends only on f where the rank is less. *)
Local(H, S, V, rank) ==
  \A m \in S : \A f, g \in [S -> V] :
    (\A k \in S : rank[k] < rank[m] => f[k] = g[k]) => H[m][f] = H[m][g]

(* So H defines a function. *)
Defined(H, S, V, f) == f \in [S -> V] /\ \A m \in S : f[m] = H[m][f]

(* A recursive definition that goes down in rank defines a function: this  *)
(* is what lets TLAPS reason about the walks below.                        *)
LEMMA Recursion ==
  ASSUME NEW S, NEW V, V # {}, NEW rank \in [S -> Nat],
         NEW H \in [S -> [[S -> V] -> V]], Local(H, S, V, rank)
  PROVE  \E f : Defined(H, S, V, f)
<1> DEFINE W == [S -> V]
           F == [f \in W |-> [m \in S |-> H[m][f]]]
<1>1. F \in [W -> W]
  OBVIOUS
<1>2. PICK a : a \in W
  <2>1. PICK v : v \in V
    OBVIOUS
  <2>2. [m \in S |-> v] \in W
    BY <2>1
  <2>3. QED
    BY <2>2
<1>3. \A f \in W : \A m \in S : F[f][m] = H[m][f]
  OBVIOUS
<1>4. \A m \in S : \A f, g \in W :
        (\A k \in S : rank[k] < rank[m] => f[k] = g[k]) => H[m][f] = H[m][g]
  BY DEF Local
<1> HIDE DEF F
<1>5. PICK fs : fs \in [Nat -> W] /\ fs[0] = a /\ \A n \in Nat : fs[n + 1] = F[fs[n]]
  <2> HIDE DEF W
  <2>1. \E f : Endless(f, W, F, a)
    BY <1>1, <1>2, Iterated
  <2>2. QED
    BY <2>1 DEF Endless
<1>14. ASSUME NEW n \in Nat, NEW m \in S
       PROVE  fs[n] \in W /\ fs[n + 1][m] = H[m][fs[n]]
  <2> HIDE DEF W
  <2>1. fs[n] \in W /\ fs[n + 1] = F[fs[n]]
    BY <1>5
  <2>2. F[fs[n]][m] = H[m][fs[n]]
    BY <1>3, <2>1
  <2>3. QED
    BY <2>1, <2>2
<1> DEFINE Calm == {n \in Nat : \A m \in S : rank[m] < n => fs[n + 1][m] = fs[n][m]}
<1>6. 0 \in Calm
  OBVIOUS
<1>7. ASSUME NEW n \in Calm PROVE n + 1 \in Calm
  <2>1. n \in Nat /\ n + 1 \in Nat
    OBVIOUS
  <2>2. ASSUME NEW m \in S, rank[m] < n + 1
        PROVE  fs[(n + 1) + 1][m] = fs[n + 1][m]
    <3>1. fs[n] \in W /\ fs[n + 1] \in W
      BY <1>14, <2>1
    <3>2. fs[n + 1][m] = H[m][fs[n]] /\ fs[(n + 1) + 1][m] = H[m][fs[n + 1]]
      BY <1>14, <2>1
    <3>3. \A k \in S : rank[k] < rank[m] => fs[n + 1][k] = fs[n][k]
      BY <2>2
    <3>4. QED
      BY <1>4, <3>1, <3>2, <3>3
  <2>3. QED
    BY <2>1, <2>2
<1>8. Calm = Nat
  <2>1. Calm \subseteq Nat
    OBVIOUS
  <2> HIDE DEF Calm
  <2>2. QED
    BY <1>6, <1>7, <2>1, Induct
<1>9. \A n \in Nat : \A m \in S : rank[m] < n => fs[n + 1][m] = fs[n][m]
  BY <1>8
<1> HIDE DEF Calm
<1>10. ASSUME NEW m \in S, NEW n \in Nat, rank[m] < n
       PROVE  fs[n][m] = fs[rank[m] + 1][m]
  <2> DEFINE j == rank[m] + 1
             Same == {i \in Nat : fs[j + i][m] = fs[j][m]}
  <2>1. j \in Nat /\ n - j \in Nat /\ j + (n - j) = n /\ rank[m] \in Nat /\ j = rank[m] + 1
    BY <1>10
  <2> HIDE DEF j
  <2>2. 0 \in Same
    BY <2>1
  <2>3. ASSUME NEW i \in Same PROVE i + 1 \in Same
    <3>1. i \in Nat /\ j + i \in Nat /\ rank[m] < j + i /\ (j + i) + 1 = j + (i + 1)
      BY <2>1
    <3>2. fs[(j + i) + 1][m] = fs[j + i][m]
      BY <1>9, <3>1
    <3>3. QED
      BY <3>1, <3>2
  <2>4. Same = Nat
    <3>1. Same \subseteq Nat
      OBVIOUS
    <3> HIDE DEF Same
    <3>2. QED
      BY <2>2, <2>3, <3>1, Induct
  <2>5. QED
    BY <2>1, <2>4 DEF j
<1> DEFINE g == [m \in S |-> fs[rank[m] + 1][m]]
<1>11. g \in W
  <2>1. \A m \in S : fs[rank[m] + 1][m] \in V
    <3>1. \A m \in S : fs[rank[m] + 1] \in W
      BY <1>14
    <3>2. QED
      BY <3>1
  <2>2. QED
    BY <2>1
<1>12. ASSUME NEW m \in S PROVE g[m] = H[m][g]
  <2>1. rank[m] \in Nat /\ fs[rank[m]] \in W
    BY <1>14
  <2>2. g[m] = H[m][fs[rank[m]]]
    BY <1>14, <2>1
  <2>3. \A k \in S : rank[k] < rank[m] => fs[rank[m]][k] = g[k]
    BY <1>10, <2>1
  <2>4. QED
    BY <1>4, <1>11, <2>1, <2>2, <2>3
<1>13. Defined(H, S, V, g)
  BY <1>11, <1>12 DEF Defined
<1>15. QED
  BY <1>13

(* What holds of m if it holds wherever the rank is less holds everywhere. *)
LEMMA Ranked ==
  ASSUME NEW S, NEW rank \in [S -> Nat], NEW A,
         \A m \in S : (\A k \in S : rank[k] < rank[m] => k \in A) => m \in A
  PROVE  S \subseteq A
<1> DEFINE B == S \ A
           R == {rank[m] : m \in B}
<1> SUFFICES ASSUME B # {} PROVE FALSE
  OBVIOUS
<1>1. R \subseteq Nat /\ R # {}
  OBVIOUS
<1> HIDE DEF R
<1>2. PICK r \in R : \A k \in R : r <= k
  BY <1>1, Least
<1>3. PICK m \in B : rank[m] = r
  BY <1>2 DEF R
<1>4. ASSUME NEW k \in S, rank[k] < rank[m] PROVE k \in A
  <2>1. k \notin A => rank[k] \in R
    BY DEF R
  <2>2. rank[k] \in Nat /\ rank[m] \in Nat
    BY <1>3
  <2>3. QED
    BY <1>2, <1>3, <1>4, <2>1, <2>2
<1>5. QED
  BY <1>3, <1>4

-----------------------------------------------------------------------------
(* The walk to the end of one side.                                        *)

(* How deep a tree may hang from an address. *)
Depth(Q, N, lo, hi) ==
  [m \in Addresses |-> IF m \in Q THEN Width(lo, hi, m) + 1
                       ELSE IF m = ROOT THEN N + 1
                       ELSE IF m = NIL THEN 0 ELSE 1]

(* Every step down a tree leads to a smaller one.                          *)
LEMMA Deeper ==
  ASSUME NEW t, NEW Q, NEW N, NEW pos, NEW lo, NEW hi,
         Shaped(t, Q, N, pos, lo, hi), Clean(t, Q), NEW m \in Addresses, NEW s \in Sides
  PROVE  /\ Depth(Q, N, lo, hi) \in [Addresses -> Nat]
         /\ t[s][m] \in Q \cup {NIL} /\ t[s][m] \in Addresses
         /\ t[s][m] # NIL => m # NIL
         /\ m # NIL => Depth(Q, N, lo, hi)[t[s][m]] < Depth(Q, N, lo, hi)[m]
<1> DEFINE D == Depth(Q, N, lo, hi)
           c == t[s][m]
<1>1. /\ N \in Nat /\ Q \subseteq Addresses /\ NIL \notin Q /\ ROOT \notin Q /\ ROOT # NIL
      /\ NIL \in Addresses /\ ROOT \in Addresses
      /\ \A n \in Addresses : n \in Q \/ n = ROOT \/ n = NIL \/ (n \in Uthreads /\ n \notin Q)
  BY TreeAssumption DEF Shaped, Numbered, Addresses
<1>2. \A n \in Q : /\ pos[n] \in 1..N /\ lo[n] \in 1..N /\ hi[n] \in 1..N
                   /\ Spans(t, Q, pos, lo, hi, n)
  BY DEF Shaped, Numbered, Spanned
<1>3. \A n \in Q : Width(lo, hi, n) \in Nat /\ Width(lo, hi, n) < N
  <2>1. ASSUME NEW n \in Q PROVE Width(lo, hi, n) \in Nat /\ Width(lo, hi, n) < N
    BY <1>1, <1>2 DEF Spans, Width
  <2>2. QED
    BY <2>1
<1>4. /\ \A n \in Q : D[n] = Width(lo, hi, n) + 1
      /\ D[ROOT] = N + 1 /\ D[NIL] = 0
      /\ \A n \in Uthreads \ Q : D[n] = 1
  BY <1>1, TreeAssumption DEF Depth, Addresses
<1>5. D \in [Addresses -> Nat]
  BY <1>1, <1>3 DEF Depth
<1> HIDE DEF D
<1>6. c = IF s = "left" THEN t.left[m] ELSE t.right[m]
  <2>1. t["left"][m] = t.left[m] /\ t["right"][m] = t.right[m]
    OBVIOUS
  <2>2. QED
    BY <2>1 DEF Sides
<1> HIDE DEF c
<1>7. CASE m \in Q
  <2>1. Spans(t, Q, pos, lo, hi, m)
    BY <1>2, <1>7
  <2>2. c = NIL \/ (c \in Q /\ c \in {t.left[m], t.right[m]})
    BY <1>6, <2>1 DEF Spans
  <2>3. CASE c = NIL
    <3>1. D[m] >= 1
      BY <1>3, <1>4, <1>7
    <3>2. QED
      BY <1>1, <1>4, <1>5, <1>7, <2>3, <3>1 DEF c, D
  <2>4. CASE c # NIL
    <3>1. c \in Q /\ t.parent[c] = m
      BY <1>6, <2>1, <2>4 DEF Spans
    <3>2. Width(lo, hi, t.parent[c]) >= Width(lo, hi, c) + 1
      BY <1>7, <3>1, Wider
    <3>3. D[c] < D[m]
      BY <1>3, <1>4, <1>7, <3>1, <3>2
    <3>4. QED
      BY <1>1, <1>5, <1>7, <3>1, <3>3 DEF c, D
  <2>5. QED
    BY <2>3, <2>4
<1>8. CASE m = ROOT
  <2>1. c = NIL \/ c \in Q
    BY <1>6, <1>8 DEF Shaped, TopSpans, Sentinels
  <2>2. D[c] < D[m]
    BY <1>1, <1>3, <1>4, <1>8, <2>1
  <2>3. QED
    BY <1>1, <1>5, <1>8, <2>1, <2>2 DEF c, D
<1>9. CASE m = NIL
  <2>1. c = NIL
    BY <1>6, <1>9 DEF Shaped, Sentinels
  <2>2. QED
    BY <1>1, <1>5, <1>9, <2>1 DEF c, D
<1>10. CASE m \in Uthreads /\ m \notin Q
  <2>1. c = NIL
    BY <1>6, <1>10 DEF Clean
  <2>2. m # NIL /\ D[c] < D[m]
    BY <1>4, <1>10, <2>1, TreeAssumption
  <2>3. QED
    BY <1>1, <1>5, <2>1, <2>2 DEF c, D
<1>11. QED
  BY <1>1, <1>7, <1>8, <1>9, <1>10

(* The farthest node on the left of n is the first below it, on the right  *)
(* the last.                                                               *)
Bound(s, lo, hi, n) == IF s = "left" THEN lo[n] ELSE hi[n]

(* Going on to one side ends at the first or last node below n.            *)
LEMMA FarthestIs ==
  ASSUME NEW t, NEW Q, NEW N, NEW pos, NEW lo, NEW hi,
         Shaped(t, Q, N, pos, lo, hi), Clean(t, Q), NEW n \in Q, NEW s \in Sides
  PROVE  /\ Farthest(t, n, s) \in Q
         /\ t[s][Farthest(t, n, s)] = NIL
         /\ pos[Farthest(t, n, s)] = Bound(s, lo, hi, n)
<1> DEFINE A == Addresses
           D == Depth(Q, N, lo, hi)
           H == [m \in A |-> [f \in [A -> A] |-> IF t[s][m] = NIL THEN m ELSE f[t[s][m]]]]
           Far(f) == f = [m \in A |-> IF t[s][m] = NIL THEN m ELSE f[t[s][m]]]
           g == CHOOSE f : Far(f)
<1>1. \A m \in A : /\ t[s][m] \in Q \cup {NIL} /\ t[s][m] \in A
                   /\ t[s][m] # NIL => D[t[s][m]] < D[m]
  BY Deeper
<1>2. D \in [A -> Nat] /\ Q \subseteq A /\ A # {}
  BY Deeper, TreeAssumption DEF Shaped, Numbered, Addresses
<1> HIDE DEF D, A
<1>3. H \in [A -> [[A -> A] -> A]]
  BY <1>1
<1>4. Local(H, A, A, D)
  BY <1>1 DEF Local
<1>5. \A m \in A : \A f \in [A -> A] : H[m][f] = IF t[s][m] = NIL THEN m ELSE f[t[s][m]]
  OBVIOUS
<1> HIDE DEF H
<1>6. PICK f : Defined(H, A, A, f)
  BY <1>2, <1>3, <1>4, Recursion
<1>7. Far(g)
  <2>1. Far(f)
    BY <1>5, <1>6 DEF Defined
  <2>2. QED
    BY <2>1
<1>8. g[n] = Farthest(t, n, s)
  BY DEF Farthest, A
<1> HIDE DEF g
<1>9. \A m \in A : g[m] = IF t[s][m] = NIL THEN m ELSE g[t[s][m]]
  BY <1>7
<1> HIDE DEF Far
<1> DEFINE E == {m \in A : m \in Q => /\ g[m] \in Q /\ t[s][g[m]] = NIL
                                      /\ pos[g[m]] = Bound(s, lo, hi, m)}
<1>10. ASSUME NEW m \in A, \A k \in A : D[k] < D[m] => k \in E
       PROVE  m \in E
  <2>1. SUFFICES ASSUME m \in Q
                 PROVE  /\ g[m] \in Q /\ t[s][g[m]] = NIL
                        /\ pos[g[m]] = Bound(s, lo, hi, m)
    OBVIOUS
  <2>2. Spans(t, Q, pos, lo, hi, m)
    BY <2>1 DEF Shaped
  <2> DEFINE c == t[s][m]
  <2>3. t["left"][m] = t.left[m] /\ t["right"][m] = t.right[m]
    OBVIOUS
  <2>4. /\ c = NIL => pos[m] = Bound(s, lo, hi, m)
        /\ c # NIL => Bound(s, lo, hi, c) = Bound(s, lo, hi, m)
    <3>1. CASE s = "left"
      <4>1. c = t.left[m] /\ NIL \notin Q
        BY <2>3, <3>1, TreeAssumption DEF Shaped, Numbered
      <4> HIDE DEF c
      <4>2. QED
        BY <2>2, <3>1, <4>1 DEF Spans, Bound
    <3>2. CASE s = "right"
      <4>1. c = t.right[m] /\ NIL \notin Q
        BY <2>3, <3>2, TreeAssumption DEF Shaped, Numbered
      <4> HIDE DEF c
      <4>2. QED
        BY <2>2, <3>2, <4>1 DEF Spans, Bound
    <3>3. QED
      BY <3>1, <3>2 DEF Sides
  <2>5. CASE c = NIL
    BY <1>9, <2>1, <2>4, <2>5
  <2>6. CASE c # NIL
    <3>1. c \in Q /\ c \in A /\ D[c] < D[m]
      BY <1>1, <2>6
    <3>2. g[m] = g[c]
      BY <1>9, <2>6
    <3> HIDE DEF c
    <3>3. c \in E
      BY <1>10, <3>1
    <3>4. QED
      BY <2>4, <2>6, <3>1, <3>2, <3>3
  <2>7. QED
    BY <2>5, <2>6
<1>11. A \subseteq E
  <2> HIDE DEF E
  <2>1. QED
    BY <1>2, <1>10, Ranked
<1>12. n \in E
  BY <1>2, <1>11
<1>13. QED
  BY <1>8, <1>12

-----------------------------------------------------------------------------
(* RBDelete.                                                               *)

(* x may be short of one black node. *)
Missing(t, Q, x) ==
  \/ \E bh : AtTop(t, t.red, Q, bh, x)
  \/ \E bh, p, s : Lacking(t, t.red, Q, bh, x, p, s)

(* What RBDelete leaves for RBDeleteFixUp is what its loop can mend.       *)
LEMMA MissingSinking ==
  ASSUME NEW h \in Histories, NEW Q, NEW P, Q \subseteq P, NEW N, NEW pos,
         HasShape(Last(h), Q, N, pos), Clean(Last(h), P),
         NEW x \in Addresses, Missing(Last(h), Q, x)
  PROVE  Sinking(h, Q, P, N, pos, Last(h).left[ROOT], x, 0)
<1> DEFINE t == Last(h)
           root == t.left[ROOT]
<1>1. PICK lo, hi : Shaped(t, Q, N, pos, lo, hi)
  BY DEF HasShape
<1>2. root \in Addresses
  BY <1>1 DEF Shaped, Images, Addresses
<1>3. CASE \E bh : AtTop(t, t.red, Q, bh, x)
  <2>1. PICK bh : AtTop(t, t.red, Q, bh, x)
    BY <1>3
  <2>2. x = root
    BY <2>1 DEF AtTop
  <2>3. Topmost(t, Q, root, x)
    BY <2>1, <2>2 DEF Topmost
  <2>4. QED
    BY <1>1, <1>2, <2>3 DEF Sinking
<1>4. CASE \E bh, p, s : Lacking(t, t.red, Q, bh, x, p, s)
  <2>1. PICK bh, p, s : Lacking(t, t.red, Q, bh, x, p, s)
    BY <1>4
  <2>2. Width(lo, hi, p) >= 0
    <3>1. p \in Q
      BY <2>1 DEF Lacking
    <3>2. Spans(t, Q, pos, lo, hi, p)
      BY <1>1, <3>1 DEF Shaped
    <3>3. QED
      BY <3>2 DEF Spans, Width
  <2>3. Low(t, Q, root, x, lo, hi, 0)
    BY <2>1, <2>2 DEF Low
  <2>4. QED
    BY <1>1, <1>2, <2>3 DEF Sinking
<1>5. QED
  BY <1>3, <1>4 DEF Missing

(* x is, below p. *)
MissingBelow(t, Q, x, p) == \E bh, s : Lacking(t, t.red, Q, bh, x, p, s)

(* The tree without y, which still has its own pointers. *)
Without(h, g, Q, N, pos, y, x) ==
  /\ g \in Histories
  /\ Unhung(Last(h), Last(g), y, x)
  /\ HasShape(Last(g), Q \ {y}, N - 1, Closed(Q, pos, y))
  /\ Clean(Last(g), Q) /\ Last(g).red = Last(h).red
  /\ x \in Q \cup {NIL} /\ x # y
  /\ Last(h).red[y] = 1 => \E bh : Coloured(Last(g), Last(g).red, Q \ {y}, bh)
  /\ Last(h).red[y] = 0 => Missing(Last(g), Q \ {y}, x)
  /\ Last(h).red[y] = 0 /\ Last(h).parent[y] # ROOT =>
       MissingBelow(Last(g), Q \ {y}, x, Last(h).parent[y])

(* Taking out y leaves a tree in which x, at most, lacks a black node.     *)
LEMMA UnhangTree ==
  ASSUME NEW h \in Histories, NEW Q, NEW N, NEW pos, Sound(Last(h), Q, N, pos),
         NEW y \in Q, NEW x, OnlyChild(Last(h), y, x)
  PROVE  Without(h, Unhanging(h, y, x), Q, N, pos, y, x)
<1> DEFINE t == Last(h)
           g == Unhanging(h, y, x)
           u == Last(g)
           Q2 == Q \ {y}
<1>1. HasShape(t, Q, N, pos) /\ Clean(t, Q) /\ \E bh : Coloured(t, t.red, Q, bh)
  BY DEF Sound
<1>2. PICK lo, hi : Shaped(t, Q, N, pos, lo, hi)
  BY <1>1 DEF HasShape
<1>3. PICK bh : Coloured(t, t.red, Q, bh)
  BY <1>1
<1>4. Kin(t, Q)
  BY <1>2, ShapeKin
<1>5. OnlyChild(t, y, x)
  OBVIOUS
<1>6. x \in Q \cup {NIL} /\ x # y
  <2> HIDE DEF t
  <2>1. QED
    BY <1>3, <1>4, <1>5, OnlyChildHeights
<1>7. g \in Histories /\ Unhung(t, u, y, x) /\ u.key = t.key
  BY <1>4, <1>6, UnhangingUnhung
<1> HIDE DEF g
<1>8. u \in Images /\ u.red = t.red
  BY <1>7, LastOfHistory DEF Unhung
<1> HIDE DEF t, u
<1>9. HasShape(u, Q2, N - 1, Closed(Q, pos, y))
  <2>1. \E lo2, hi2 : Shaped(u, Q2, N - 1, Closed(Q, pos, y), lo2, hi2)
    BY <1>2, <1>5, <1>7, <1>8, UnhangShape
  <2>2. QED
    BY <2>1 DEF HasShape
<1>10. Kin(u, Q2)
  BY <1>9, ShapeKin DEF HasShape
<1>11. Clean(u, Q)
  <2>1. ASSUME NEW n \in Uthreads, n \notin Q
        PROVE  u.left[n] = NIL /\ u.right[n] = NIL /\ u.parent[n] = NIL
    <3>1. n \in Addresses /\ n # x /\ n # ROOT
      BY <1>6, <2>1, TreeAssumption DEF Addresses
    <3>2. n # t.parent[y]
      BY <1>4, <2>1, <3>1, Above
    <3>3. \A q \in Sides : u[q][n] = t[q][n]
      BY <1>7, <3>1, <3>2 DEF Unhung
    <3>4. u.parent[n] = t.parent[n]
      BY <1>7, <3>1 DEF Unhung
    <3>5. u["left"][n] = t["left"][n] /\ u["right"][n] = t["right"][n]
      BY <3>3 DEF Sides
    <3>6. QED
      BY <1>1, <2>1, <3>4, <3>5 DEF Clean
  <2>2. QED
    BY <1>1, <1>7, <2>1 DEF Clean
<1> DEFINE r == t.red
<1>12. /\ r[y] = 1 => \E bh2 : Coloured(u, r, Q2, bh2)
       /\ r[y] = 0 /\ t.parent[y] = ROOT => \E bh2 : AtTop(u, r, Q2, bh2, x)
       /\ r[y] = 0 /\ t.parent[y] # ROOT =>
            \E bh2, s : Lacking(u, r, Q2, bh2, x, t.parent[y], s)
  <2> HIDE DEF r
  <2>1. Coloured(t, r, Q, bh)
    BY <1>3 DEF r
  <2>2. QED
    BY <1>4, <1>5, <1>7, <1>10, <2>1, UnhangColours
<1>13. u.red[y] = 0 => Missing(u, Q2, x)
  BY <1>8, <1>12 DEF Missing
<1>14. u.red[y] = 0 /\ t.parent[y] # ROOT => MissingBelow(u, Q2, x, t.parent[y])
  BY <1>8, <1>12 DEF MissingBelow
<1>15. QED
  BY <1>6, <1>7, <1>8, <1>9, <1>11, <1>12, <1>13, <1>14 DEF t, u, g, Without

(* free, when the node is in no tree. *)
LEMMA FreeSound ==
  ASSUME NEW h \in Histories, NEW Q, NEW N, NEW pos, NEW z \in Uthreads, z \notin Q,
         Whole(Last(h), Q, Q \cup {z}, N, pos)
  PROVE  Free(h, z) \in Histories /\ Sound(Last(Free(h, z)), Q, N, pos)
<1> DEFINE t == Last(h)
           u == [t EXCEPT !.left[z] = NIL, !.right[z] = NIL, !.parent[z] = NIL,
                          !.red[z] = 0, !.key[z] = z]
<1>1. t \in Images /\ z \in Addresses /\ NIL \in Addresses
  BY LastOfHistory DEF Addresses
<1>2. u \in Images
  BY <1>1 DEF Images
<1>3. Free(h, z) \in Histories /\ Last(Free(h, z)) = u
  BY <1>2 DEF Histories, Free, Last
<1>4. /\ \A m \in Addresses :
           /\ u.left[m] = IF m = z THEN NIL ELSE t.left[m]
           /\ u.right[m] = IF m = z THEN NIL ELSE t.right[m]
           /\ u.parent[m] = IF m = z THEN NIL ELSE t.parent[m]
           /\ u.red[m] = IF m = z THEN 0 ELSE t.red[m]
      /\ \A n \in Uthreads : u.key[n] = IF n = z THEN z ELSE t.key[n]
  BY <1>1 DEF Images
<1>5. HasShape(t, Q, N, pos) /\ Clean(t, Q \cup {z}) /\ \E bh : Coloured(t, t.red, Q, bh)
  BY DEF Whole
<1> HIDE DEF u, t
<1>6. PICK lo, hi : Shaped(t, Q, N, pos, lo, hi)
  BY <1>5 DEF HasShape
<1>7. /\ z # NIL /\ z # ROOT /\ Q \subseteq Addresses /\ ROOT \in Addresses
      /\ NIL \notin Q /\ ROOT \notin Q
  BY <1>6, TreeAssumption DEF Shaped, Numbered, Addresses
<1>8. Sentinels(t)
  BY <1>6 DEF Shaped
<1>9. Shaped(u, Q, N, pos, lo, hi)
  <2>1. SameLinks(t, u, Q)
    BY <1>1, <1>4, <1>7, <1>8 DEF SameLinks, Sentinels
  <2>2. QED
    BY <1>2, <1>6, <2>1, SameShape
<1>10. Clean(u, Q)
  BY <1>4, <1>5 DEF Clean, Addresses
<1>11. Kin(t, Q)
  BY <1>6, ShapeKin
<1>12. PICK bh : Coloured(t, t.red, Q, bh)
  BY <1>5
<1>13. ASSUME NEW n \in Q
       PROVE  Level(u, u.red, bh, n) /\ Pale(u, u.red, n, ROOT)
  <2>1. ASSUME NEW q \in Sides
        PROVE  u[q][n] = t[q][n] /\ u.red[t[q][n]] = t.red[t[q][n]]
    <3>1. t[q][n] \in Q \cup {NIL}
      BY <1>11, Below
    <3>2. u["left"][n] = t["left"][n] /\ u["right"][n] = t["right"][n]
      BY <1>4, <1>7
    <3>3. u[q][n] = t[q][n]
      BY <3>2 DEF Sides
    <3> DEFINE c == t[q][n]
    <3> HIDE DEF c
    <3>4. u.red[c] = t.red[c]
      BY <1>1, <1>4, <1>7, <3>1 DEF c
    <3>5. QED
      BY <3>3, <3>4 DEF c
  <2>2. u.red[n] = t.red[n]
    BY <1>4, <1>7
  <2>3. Level(t, t.red, bh, n) /\ Pale(t, t.red, n, ROOT)
    BY <1>12 DEF Coloured
  <2>4. QED
    BY <2>1, <2>2, <2>3 DEF Level, Pale
<1>14. Coloured(u, u.red, Q, bh)
  <2>1. u.red[NIL] = 0 /\ u.red[ROOT] = 0
    BY <1>1, <1>4, <1>7, <1>8 DEF Sentinels
  <2>2. u.red[u.left[ROOT]] = 0
    <3>1. t.left[ROOT] \in Q \cup {NIL} /\ t.red[t.left[ROOT]] = 0
      BY <1>11, <1>12 DEF Kin, Coloured
    <3>2. u.left[ROOT] = t.left[ROOT]
      BY <1>4, <1>7
    <3>3. QED
      BY <1>1, <1>4, <1>7, <3>1, <3>2
  <2>3. u.red \in [Addresses -> {0, 1}]
    BY <1>2 DEF Images
  <2>4. QED
    BY <1>12, <1>13, <2>1, <2>2, <2>3 DEF Coloured
<1>15. Sound(u, Q, N, pos)
  BY <1>9, <1>10, <1>14 DEF Sound, HasShape
<1>16. QED
  BY <1>3, <1>15

(* Taking out z's successor y and putting it in z's place takes z out of   *)
(* the order.                                                              *)
LEMMA RenamedClosed ==
  ASSUME NEW Q, NEW N, NEW pos, Numbered(Q, N, pos), NEW y \in Q, NEW z \in Q,
         pos[y] = pos[z] + 1
  PROVE  /\ y # z /\ ((Q \ {y}) \ {z}) \cup {y} = Q \ {z}
         /\ Renamed(Q \ {y}, Closed(Q, pos, y), z, y) = Closed(Q, pos, z)
<1>1. \A m, n \in Q : pos[m] \in Int /\ (pos[m] = pos[n] => m = n)
  BY DEF Numbered
<1>2. y # z
  BY <1>1
<1>3. ((Q \ {y}) \ {z}) \cup {y} = Q \ {z}
  BY <1>2
<1>4. ASSUME NEW n \in Q \ {z}
      PROVE  Renamed(Q \ {y}, Closed(Q, pos, y), z, y)[n] = Closed(Q, pos, z)[n]
  <2>1. CASE n = y
    <3>1. Closed(Q, pos, y)[z] = pos[z]
      BY <1>1, <1>2 DEF Closed
    <3>2. Closed(Q, pos, z)[y] = pos[z]
      BY <1>1, <1>2 DEF Closed
    <3>3. QED
      BY <1>3, <2>1, <3>1, <3>2 DEF Renamed
  <2>2. CASE n # y
    <3>1. pos[n] # pos[y] /\ pos[n] # pos[z] /\ pos[n] \in Int /\ pos[y] \in Int /\ pos[z] \in Int
      BY <1>1, <2>2
    <3>2. pos[n] > pos[y] <=> pos[n] > pos[z]
      BY <3>1
    <3>3. Closed(Q, pos, y)[n] = Closed(Q, pos, z)[n]
      BY <2>2, <3>2 DEF Closed
    <3>4. QED
      BY <1>3, <2>2, <3>3 DEF Renamed
  <2>3. QED
    BY <2>1, <2>2
<1>5. QED
  BY <1>2, <1>3, <1>4 DEF Renamed, Closed

(* The successor of a node with a right child. *)
LEMMA SuccessorBelow ==
  ASSUME NEW t, NEW Q, NEW N, NEW pos, NEW lo, NEW hi,
         Shaped(t, Q, N, pos, lo, hi), Clean(t, Q), NEW z \in Q, t.right[z] # NIL,
         NEW y, y = TreeSuccessor(t, z)
  PROVE  /\ y \in Q /\ t.left[y] = NIL /\ pos[y] = pos[z] + 1
         /\ t.parent[y] # ROOT /\ t.right[y] # z
<1> DEFINE c == t.right[z]
<1>1. Spans(t, Q, pos, lo, hi, z)
  BY DEF Shaped
<1>2. c \in Q /\ lo[c] = pos[z] + 1
  BY <1>1 DEF Spans
<1>3. y = Farthest(t, c, "left")
  <2>1. t["right"][z] = c
    OBVIOUS
  <2>2. QED
    BY <2>1 DEF TreeSuccessor, Neighbour, Other
<1>4. y \in Q /\ t["left"][y] = NIL /\ pos[y] = Bound("left", lo, hi, c)
  <2> HIDE DEF c
  <2>1. "left" \in Sides
    BY DEF Sides
  <2>2. QED
    BY <1>2, <1>3, <2>1, FarthestIs
<1>5. t.left[y] = NIL /\ pos[y] = pos[z] + 1
  BY <1>2, <1>4 DEF Bound
<1>6. /\ pos[z] \in 1..N /\ ROOT \notin Q /\ NIL \notin Q
      /\ Spans(t, Q, pos, lo, hi, y) /\ Hangs(t, Q, y) /\ TopSpans(t, Q, N, lo, hi)
  BY <1>4, TreeAssumption DEF Shaped, Numbered
<1>7. t.parent[y] # ROOT
  <2>1. SUFFICES ASSUME t.parent[y] = ROOT PROVE FALSE
    OBVIOUS
  <2>2. t.left[ROOT] = y
    BY <1>6, <2>1 DEF Hangs
  <2>3. lo[y] = 1
    BY <1>4, <1>6, <2>2 DEF TopSpans
  <2>4. lo[y] = pos[y]
    BY <1>5, <1>6 DEF Spans
  <2>5. QED
    BY <1>5, <1>6, <2>3, <2>4
<1>8. t.right[y] # z
  <2>1. SUFFICES ASSUME t.right[y] = z PROVE FALSE
    OBVIOUS
  <2>2. lo[z] = pos[y] + 1
    BY <1>6, <2>1 DEF Spans
  <2>3. lo[z] <= pos[z] /\ lo[z] \in Nat
    BY <1>1 DEF Spans
  <2>4. QED
    BY <1>5, <1>6, <2>2, <2>3
<1>9. QED
  BY <1>4, <1>5, <1>7, <1>8

(* y, in no tree, spliced into z's place. *)
LEMMA SpliceTree ==
  ASSUME NEW h \in Histories, NEW Q, NEW N, NEW pos, HasShape(Last(h), Q, N, pos),
         NEW z \in Q, NEW y \in Uthreads, y \notin Q, Clean(Last(h), Q \cup {y})
  PROVE  LET g == Spliced(h, y, z)
         IN /\ g \in Histories /\ Last(g) \in Images
            /\ Substituted(Last(h), Last(g), z, y)
            /\ HasShape(Last(g), (Q \ {z}) \cup {y}, N, Renamed(Q, pos, z, y))
            /\ Clean(Last(g), Q \cup {y})
<1> DEFINE t == Last(h)
           g == Spliced(h, y, z)
           u == Last(g)
<1>1. PICK lo, hi : Shaped(t, Q, N, pos, lo, hi)
  BY DEF HasShape
<1>2. Kin(t, Q)
  BY <1>1, ShapeKin
<1>3. g \in Histories /\ Substituted(t, u, z, y) /\ u.key = t.key
  BY <1>2, SplicedSubstituted
<1> HIDE DEF g
<1>4. u \in Images
  BY <1>3, LastOfHistory
<1>5. Clean(t, Q \cup {y})
  OBVIOUS
<1> HIDE DEF t, u
<1>6. HasShape(u, (Q \ {z}) \cup {y}, N, Renamed(Q, pos, z, y))
  <2>1. \E lo2, hi2 : Shaped(u, (Q \ {z}) \cup {y}, N, Renamed(Q, pos, z, y), lo2, hi2)
    BY <1>1, <1>3, <1>4, SubstituteShape
  <2>2. QED
    BY <2>1 DEF HasShape
<1>7. Clean(u, Q \cup {y})
  <2>1. ASSUME NEW n \in Uthreads, n \notin Q \cup {y}
        PROVE  u.left[n] = NIL /\ u.right[n] = NIL /\ u.parent[n] = NIL
    <3>1. n \in Addresses /\ n # y /\ n # NIL /\ n # ROOT
      BY <2>1, TreeAssumption DEF Addresses
    <3>2. n # t.parent[z]
      BY <1>2, <2>1, <3>1, Above
    <3>3. \A q \in Sides : u[q][n] = t[q][n]
      BY <1>3, <3>1, <3>2 DEF Substituted
    <3>4. n # t.left[z] /\ n # t.right[z]
      <4>1. "left" \in Sides /\ "right" \in Sides
        BY DEF Sides
      <4>2. t["left"][z] \in Q \cup {NIL} /\ t["right"][z] \in Q \cup {NIL}
        BY <1>2, <4>1, Below
      <4>3. QED
        BY <2>1, <3>1, <4>2
    <3>5. u.parent[n] = t.parent[n]
      BY <1>3, <3>1, <3>4 DEF Substituted
    <3>6. u["left"][n] = t["left"][n] /\ u["right"][n] = t["right"][n]
      BY <3>3 DEF Sides
    <3>7. QED
      BY <1>5, <2>1, <3>5, <3>6 DEF Clean
  <2>2. QED
    BY <1>3, <1>5, <2>1 DEF Clean
<1>8. QED
  BY <1>3, <1>4, <1>6, <1>7 DEF g, t, u

(* x's parent pointer names the node it is below once y is in z's place. *)
LEMMA SplicedParent ==
  ASSUME NEW t, NEW Q, Kin(t, Q), NEW y \in Q, NEW z \in Q, y # z,
         t.left[z] # NIL, t.right[z] # NIL,
         NEW x, x \in Q \cup {NIL}, x # y, NEW u, Unhung(t, u, y, x), Kin(u, Q \ {y}),
         NEW v, Substituted(u, v, z, y)
  PROVE  v.parent[x] = Swap(t.parent[y], z, y)
<1> DEFINE p == t.parent[y]
           a == u.left[z]
           b == u.right[z]
<1>1. /\ x \in Addresses /\ "left" \in Sides /\ "right" \in Sides
      /\ NIL \notin Q /\ z \in Q \ {y}
  BY TreeAssumption DEF Kin, Addresses, Sides
<1>2. u.parent[x] = p
  BY <1>1 DEF Unhung
<1>3. v.parent[x] = IF x = a \/ x = b THEN y ELSE p
  BY <1>1, <1>2 DEF Substituted
<1>4. /\ u["left"][z] = IF t["left"][z] = y THEN x ELSE t["left"][z]
      /\ u["right"][z] = IF t["right"][z] = y THEN x ELSE t["right"][z]
  BY <1>1, UnhungLinks
<1>5. (t["left"][z] = y => p = z) /\ (t["right"][z] = y => p = z)
  BY <1>1, Below
<1>6. p = z => \E q \in Sides : t[q][z] = y
  <2>1. SUFFICES ASSUME p = z PROVE \E q \in Sides : t[q][z] = y
    OBVIOUS
  <2>2. ROOT \notin Q
    BY TreeAssumption DEF Kin
  <2>3. \E q \in Sides : t[q][t.parent[y]] = y
    BY <2>1, <2>2, Above
  <2>4. QED
    BY <2>1, <2>3
<1>7. CASE p = z
  <2>1. x = a \/ x = b
    BY <1>4, <1>6, <1>7 DEF Sides
  <2>2. QED
    BY <1>3, <1>7, <2>1 DEF Swap
<1>8. CASE p # z
  <2>1. a = t.left[z] /\ b = t.right[z]
    BY <1>4, <1>5, <1>8
  <2>2. x = a \/ x = b => u.parent[x] = z
    <3>1. u["left"][z] # NIL => u.parent[u["left"][z]] = z
      BY <1>1, Below
    <3>2. u["right"][z] # NIL => u.parent[u["right"][z]] = z
      BY <1>1, Below
    <3>3. a # NIL /\ b # NIL
      BY <2>1
    <3>4. QED
      BY <3>1, <3>2, <3>3
  <2>3. ~(x = a \/ x = b)
    BY <1>2, <1>8, <2>2
  <2>4. QED
    BY <1>3, <1>8, <2>3 DEF Swap
<1>9. QED
  BY <1>7, <1>8

(* RBDelete up to its free. *)
Cut(h, z, y, x) ==
  LET h2 == Unhanging(h, y, x)
      h3 == IF y = z THEN h2 ELSE Spliced(h2, y, z)
  IN IF SplicedWasBlack(Last(h), y, z) THEN RBDeleteFixUp(h3, x) ELSE h3

(* RBDelete of a node with one child, or none, up to its free.             *)
LEMMA CutHere ==
  ASSUME NEW h \in Histories, NEW Q, NEW N, NEW pos, Sound(Last(h), Q, N, pos),
         NEW z \in Q, NEW x, OnlyChild(Last(h), z, x)
  PROVE  /\ Cut(h, z, z, x) \in Histories
         /\ Whole(Last(Cut(h, z, z, x)), Q \ {z}, Q, N - 1, Closed(Q, pos, z))
<1> DEFINE t == Last(h)
           g == Unhanging(h, z, x)
           u == Last(g)
           Q2 == Q \ {z}
           pos2 == Closed(Q, pos, z)
<1>1. /\ g \in Histories /\ HasShape(u, Q2, N - 1, pos2)
      /\ Clean(u, Q) /\ x \in Q \cup {NIL}
      /\ t.red[z] = 1 => \E bh : Coloured(u, u.red, Q2, bh)
      /\ t.red[z] = 0 => Missing(u, Q2, x)
  <2>1. Without(h, g, Q, N, pos, z, x)
    BY UnhangTree
  <2>2. QED
    BY <2>1 DEF Without
<1>2. Q2 \subseteq Q /\ x \in Addresses /\ z \in Addresses
  <2>1. Q \subseteq Uthreads
    BY DEF Sound, HasShape, Shaped, Numbered
  <2>2. QED
    BY <1>1, <2>1 DEF Addresses
<1>3. t.red[z] \in {0, 1}
  BY <1>2 DEF Sound, HasShape, Shaped, Images
<1> HIDE DEF g, pos2
<1>4. CASE t.red[z] = 1
  <2>1. Cut(h, z, z, x) = g
    BY <1>4 DEF Cut, SplicedWasBlack, g
  <2>2. QED
    BY <1>1, <1>4, <2>1 DEF Whole, pos2
<1>5. CASE t.red[z] = 0
  <2>1. Cut(h, z, z, x) = RBDeleteFixUp(g, x)
    BY <1>5 DEF Cut, SplicedWasBlack, g
  <2>2. Sinking(g, Q2, Q, N - 1, pos2, u.left[ROOT], x, 0)
    BY <1>1, <1>2, <1>5, MissingSinking
  <2>3. /\ RBDeleteFixUp(g, x) \in Histories
        /\ Whole(Last(RBDeleteFixUp(g, x)), Q2, Q, N - 1, pos2)
    BY <2>2, DeleteFixUpDone
  <2>4. QED
    BY <2>1, <2>3 DEF pos2
<1>6. QED
  BY <1>3, <1>4, <1>5

(* RBDelete of a node with two children, whose successor takes its place,  *)
(* up to its free.                                                         *)
LEMMA CutBelow ==
  ASSUME NEW h \in Histories, NEW Q, NEW N, NEW pos, Sound(Last(h), Q, N, pos),
         NEW z \in Q, Last(h).left[z] # NIL, Last(h).right[z] # NIL,
         NEW y \in Q, pos[y] = pos[z] + 1, Last(h).parent[y] # ROOT,
         NEW x, OnlyChild(Last(h), y, x), x # z
  PROVE  /\ Cut(h, z, y, x) \in Histories
         /\ Whole(Last(Cut(h, z, y, x)), Q \ {z}, Q, N - 1, Closed(Q, pos, z))
<1> DEFINE t == Last(h)
           g == Unhanging(h, y, x)
           u == Last(g)
           Q1 == Q \ {y}
           k == Spliced(g, y, z)
           v == Last(k)
           Q2 == Q \ {z}
           pos1 == Closed(Q, pos, y)
           pos2 == Closed(Q, pos, z)
           p == t.parent[y]
<1>1. /\ g \in Histories /\ Unhung(t, u, y, x) /\ HasShape(u, Q1, N - 1, pos1)
      /\ Clean(u, Q) /\ u.red = t.red /\ x \in Q \cup {NIL} /\ x # y
      /\ t.red[y] = 1 => \E bh : Coloured(u, u.red, Q1, bh)
      /\ t.red[y] = 0 => MissingBelow(u, Q1, x, p)
  <2>1. Without(h, g, Q, N, pos, y, x)
    BY UnhangTree
  <2>2. p # ROOT
    OBVIOUS
  <2> HIDE DEF g
  <2>3. QED
    BY <2>1, <2>2 DEF Without
<1>2. Numbered(Q, N, pos) /\ Kin(t, Q) /\ Q \subseteq Uthreads
  BY ShapeKin DEF Sound, HasShape, Shaped, Numbered
<1>3. y # z /\ (Q1 \ {z}) \cup {y} = Q2 /\ Renamed(Q1, pos1, z, y) = pos2
  BY <1>2, RenamedClosed
<1>4. x \in Addresses /\ y \in Addresses /\ y \in Uthreads /\ z \in Q1 /\ y \notin Q1
      /\ Q1 \cup {y} = Q /\ Q2 \subseteq Q
  BY <1>1, <1>2, <1>3 DEF Addresses
<1>5. t.red[y] \in {0, 1}
  BY <1>2, <1>4 DEF Kin, Images
<1>6. t.left[z] # NIL /\ t.right[z] # NIL
  OBVIOUS
<1> HIDE DEF g, pos1, pos2, t
<1>7. /\ k \in Histories /\ v \in Images /\ Substituted(u, v, z, y)
      /\ HasShape(v, Q2, N - 1, pos2) /\ Clean(v, Q)
  <2> DEFINE R == (Q1 \ {z}) \cup {y}
             f == Renamed(Q1, pos1, z, y)
             C == Q1 \cup {y}
  <2>1. Clean(u, C)
    BY <1>1, <1>4
  <2>2. /\ k \in Histories /\ v \in Images /\ Substituted(u, v, z, y)
        /\ HasShape(v, R, N - 1, f) /\ Clean(v, C)
    <3> HIDE DEF Q1
    <3>1. QED
      BY <1>1, <1>4, <2>1, SpliceTree
  <2>3. R = Q2 /\ f = pos2 /\ C = Q
    BY <1>3, <1>4
  <2> HIDE DEF R, f, C
  <2>4. QED
    BY <2>2, <2>3
<1> HIDE DEF k
<1>8. Kin(u, Q1)
  BY <1>1, ShapeKin DEF HasShape
<1> HIDE DEF u, v
<1>9. v.parent[x] = Swap(p, z, y)
  BY <1>1, <1>2, <1>3, <1>6, <1>7, <1>8, SplicedParent
<1>10. t.red[y] = 0 => Missing(v, Q2, x)
  <2>1. SUFFICES ASSUME t.red[y] = 0 PROVE Missing(v, Q2, x)
    OBVIOUS
  <2> DEFINE pp == p
  <2>2. PICK bh, s : Lacking(u, u.red, Q1, bh, x, pp, s)
    BY <1>1, <2>1 DEF MissingBelow
  <2>3. v.parent[x] = Swap(pp, z, y) /\ x # z
    BY <1>9
  <2> HIDE DEF pp, Q1
  <2>4. \E bh2 : Lacking(v, v.red, (Q1 \ {z}) \cup {y}, bh2, x, Swap(pp, z, y), s)
    BY <1>4, <1>7, <1>8, <2>2, <2>3, SubstitutedLacking
  <2>5. QED
    BY <1>3, <2>4 DEF Missing
<1>11. t.red[y] = 1 => \E bh2 : Coloured(v, v.red, Q2, bh2)
  <2>1. SUFFICES ASSUME t.red[y] = 1 PROVE \E bh2 : Coloured(v, v.red, Q2, bh2)
    OBVIOUS
  <2>2. PICK bh : Coloured(u, u.red, Q1, bh)
    BY <1>1, <2>1
  <2> HIDE DEF Q1
  <2>3. \E bh2 : Coloured(v, v.red, (Q1 \ {z}) \cup {y}, bh2)
    BY <1>4, <1>7, <1>8, <2>2, SubstitutedColoured
  <2>4. QED
    BY <1>3, <2>3
<1>12. CASE t.red[y] = 1
  <2>1. Cut(h, z, y, x) = k
    BY <1>3, <1>12 DEF Cut, SplicedWasBlack, k, g, t
  <2>2. QED
    BY <1>7, <1>11, <1>12, <2>1 DEF Whole, pos2, v
<1>13. CASE t.red[y] = 0
  <2>1. Cut(h, z, y, x) = RBDeleteFixUp(k, x)
    BY <1>3, <1>13 DEF Cut, SplicedWasBlack, k, g, t
  <2>2. Missing(v, Q2, x)
    BY <1>10, <1>13
  <2>3. Sinking(k, Q2, Q, N - 1, pos2, v.left[ROOT], x, 0)
    BY <1>4, <1>7, <2>2, MissingSinking DEF v
  <2>4. /\ RBDeleteFixUp(k, x) \in Histories
        /\ Whole(Last(RBDeleteFixUp(k, x)), Q2, Q, N - 1, pos2)
    BY <2>3, DeleteFixUpDone DEF v
  <2>5. QED
    BY <2>1, <2>4 DEF pos2
<1>14. QED
  BY <1>5, <1>12, <1>13

(* RBDelete: the tree without z, its other nodes in the same order. *)
THEOREM DeleteSound ==
  ASSUME NEW h \in Histories, NEW Q, NEW N, NEW pos, Sound(Last(h), Q, N, pos),
         NEW z \in Q
  PROVE  /\ RBDelete(h, z) \in Histories
         /\ Sound(Last(RBDelete(h, z)), Q \ {z}, N - 1, Closed(Q, pos, z))
<1> DEFINE t == Last(h)
           y == IF t.left[z] = NIL \/ t.right[z] = NIL THEN z ELSE TreeSuccessor(t, z)
           x == IF t.left[y] = NIL THEN t.right[y] ELSE t.left[y]
           k == Cut(h, z, y, x)
<1>1. RBDelete(h, z) = Free(k, z)
  BY DEF RBDelete, Cut, Unhanging
<1>2. PICK lo, hi : Shaped(t, Q, N, pos, lo, hi)
  BY DEF Sound, HasShape
<1>3. Clean(t, Q) /\ Kin(t, Q) /\ Q \subseteq Uthreads
  BY <1>2, ShapeKin DEF Sound, Kin
<1>7. ASSUME k \in Histories, Whole(Last(k), Q \ {z}, Q, N - 1, Closed(Q, pos, z))
      PROVE  /\ Free(k, z) \in Histories
             /\ Sound(Last(Free(k, z)), Q \ {z}, N - 1, Closed(Q, pos, z))
  <2>1. z \in Uthreads /\ z \notin Q \ {z} /\ (Q \ {z}) \cup {z} = Q
    BY <1>3
  <2> DEFINE R == Q \ {z}
  <2>2. Whole(Last(k), R, R \cup {z}, N - 1, Closed(Q, pos, z))
    BY <1>7, <2>1
  <2> HIDE DEF R, k
  <2>3. QED
    BY <1>7, <2>1, <2>2, FreeSound DEF R
<1>4. CASE t.left[z] = NIL \/ t.right[z] = NIL
  <2>1. y = z
    BY <1>4
  <2>2. OnlyChild(t, z, x)
    BY <1>4, <2>1 DEF OnlyChild
  <2> HIDE DEF x, y
  <2>3. /\ Cut(h, z, z, x) \in Histories
        /\ Whole(Last(Cut(h, z, z, x)), Q \ {z}, Q, N - 1, Closed(Q, pos, z))
    BY <2>2, CutHere
  <2>4. QED
    BY <1>1, <1>7, <2>1, <2>3
<1>5. CASE ~(t.left[z] = NIL \/ t.right[z] = NIL)
  <2>1. y = TreeSuccessor(t, z)
    BY <1>5
  <2> HIDE DEF y, t
  <2>2. /\ y \in Q /\ t.left[y] = NIL /\ pos[y] = pos[z] + 1
        /\ t.parent[y] # ROOT /\ t.right[y] # z
    BY <1>2, <1>3, <1>5, <2>1, SuccessorBelow
  <2>3. x = t.right[y]
    BY <2>2
  <2>4. OnlyChild(t, y, x) /\ x # z
    BY <2>2, <2>3 DEF OnlyChild
  <2> HIDE DEF x
  <2>5. /\ Cut(h, z, y, x) \in Histories
        /\ Whole(Last(Cut(h, z, y, x)), Q \ {z}, Q, N - 1, Closed(Q, pos, z))
    BY <1>5, <2>2, <2>4, CutBelow DEF t
  <2>6. QED
    BY <1>1, <1>7, <2>5
<1>6. QED
  BY <1>4, <1>5

-----------------------------------------------------------------------------
(* The black height, as RedBlackTree computes it.                          *)

(* Every way down from a node has as many black nodes.                     *)
LEMMA BlackHeightIs ==
  ASSUME NEW t, NEW Q, NEW N, NEW pos, NEW lo, NEW hi,
         Shaped(t, Q, N, pos, lo, hi), Clean(t, Q),
         NEW bh, Coloured(t, t.red, Q, bh), NEW n \in Q \cup {NIL}
  PROVE  BlackHeight(t, n) = bh[n] /\ bh[n] \in Nat \ {0}
<1> DEFINE A == Addresses
           D == Depth(Q, N, lo, hi)
           a(m) == t.left[m]
           b(m) == t.right[m]
           body(f, m) == IF m = NIL THEN 1
                         ELSE LET l == f[t.left[m]]
                                  r == f[t.right[m]]
                              IN IF l # r \/ l = 0 THEN 0 ELSE l + 1 - t.red[m]
           H == [m \in A |-> [f \in [A -> Nat] |-> body(f, m)]]
           Counts(f) == f = [m \in A |-> body(f, m)]
           g == CHOOSE f : Counts(f)
<1>1. \A m \in A : /\ a(m) \in A /\ b(m) \in A
                   /\ m # NIL => D[a(m)] < D[m] /\ D[b(m)] < D[m]
  <2>1. ASSUME NEW m \in A, NEW s \in Sides
        PROVE  t[s][m] \in A /\ (m # NIL => D[t[s][m]] < D[m])
    BY Deeper
  <2>2. ASSUME NEW m \in A
        PROVE  /\ t["left"][m] \in A /\ t["right"][m] \in A
               /\ m # NIL => D[t["left"][m]] < D[m] /\ D[t["right"][m]] < D[m]
    <3>1. "left" \in Sides /\ "right" \in Sides
      BY DEF Sides
    <3>2. QED
      BY <2>1, <3>1
  <2>3. QED
    BY <2>2
<1>2. /\ D \in [A -> Nat] /\ Q \subseteq A /\ A # {} /\ NIL \in A /\ NIL \notin Q
      /\ t.red \in [A -> {0, 1}]
  BY Deeper, TreeAssumption DEF Shaped, Numbered, Addresses, Sides, Images
<1> HIDE DEF D, A
<1>3. ASSUME NEW m \in A, NEW f \in [A -> Nat] PROVE body(f, m) \in Nat
  <2>1. f[a(m)] \in Nat /\ f[b(m)] \in Nat /\ t.red[m] \in {0, 1}
    BY <1>1, <1>2
  <2>2. QED
    BY <2>1
<1>4. ASSUME NEW m \in A, NEW f \in [A -> Nat], NEW f2 \in [A -> Nat],
             \A k \in A : D[k] < D[m] => f[k] = f2[k]
      PROVE  body(f, m) = body(f2, m)
  <2>1. m # NIL => f[a(m)] = f2[a(m)] /\ f[b(m)] = f2[b(m)]
    BY <1>1, <1>4
  <2>2. QED
    BY <2>1
<1>5. \A m \in A : \A f \in [A -> Nat] : H[m][f] = body(f, m)
  OBVIOUS
<1>6. \A f : Counts(f) => \A m \in A : f[m] = body(f, m)
  OBVIOUS
<1>7. \A f : f \in [A -> Nat] /\ (\A m \in A : f[m] = body(f, m)) => Counts(f)
  OBVIOUS
<1>8. BlackHeight(t, n) = g[n]
  BY DEF BlackHeight, A
<1>9. H \in [A -> [[A -> Nat] -> Nat]]
  BY <1>3
<1> HIDE DEF H, Counts
<1>10. Local(H, A, Nat, D)
  <2> HIDE DEF body
  <2>1. QED
    BY <1>4, <1>5 DEF Local
<1>11. PICK f : Defined(H, A, Nat, f)
  BY <1>2, <1>9, <1>10, Recursion
<1>12. Counts(f)
  <2> HIDE DEF body
  <2>1. QED
    BY <1>5, <1>7, <1>11 DEF Defined
<1>13. Counts(g)
  BY <1>12
<1> HIDE DEF g
<1>14. \A m \in A : g[m] = body(g, m)
  BY <1>6, <1>13
<1> DEFINE E == {m \in A : m \in Q \cup {NIL} => g[m] = bh[m]}
<1>15. bh \in [Q \cup {NIL} -> Nat \ {0}] /\ bh[NIL] = 1
  BY DEF Coloured, Heights
<1>16. Kin(t, Q)
  BY ShapeKin
<1>17. ASSUME NEW m \in A, \A k \in A : D[k] < D[m] => k \in E PROVE m \in E
  <2>1. CASE m = NIL
    BY <1>2, <1>14, <1>15, <2>1
  <2>2. CASE m \in Q
    <3>1. m # NIL /\ a(m) \in E /\ b(m) \in E
      BY <1>1, <1>2, <1>17, <2>2
    <3>2. a(m) \in Q \cup {NIL} /\ b(m) \in Q \cup {NIL}
      <4>1. t["left"][m] \in Q \cup {NIL} /\ t["right"][m] \in Q \cup {NIL}
        BY <1>16, <2>2, Below DEF Sides
      <4>2. QED
        BY <4>1
    <3>3. g[a(m)] = bh[a(m)] /\ g[b(m)] = bh[b(m)]
      BY <3>1, <3>2
    <3>4. bh[m] + t.red[m] = bh[a(m)] + 1 /\ bh[m] + t.red[m] = bh[b(m)] + 1
      <4>1. Level(t, t.red, bh, m)
        BY <2>2 DEF Coloured
      <4>2. bh[m] + t.red[m] = bh[t["left"][m]] + 1 /\ bh[m] + t.red[m] = bh[t["right"][m]] + 1
        BY <4>1 DEF Level, Sides
      <4>3. QED
        BY <4>2
    <3> DEFINE x == bh[m]
               l == bh[a(m)]
               r == bh[b(m)]
               c == t.red[m]
    <3>5. x \in Nat \ {0} /\ l \in Nat \ {0} /\ r \in Nat \ {0} /\ c \in {0, 1}
      BY <1>2, <1>15, <2>2, <3>2
    <3>6. g[m] = IF l # r \/ l = 0 THEN 0 ELSE l + 1 - c
      BY <1>14, <3>1, <3>3
    <3>7. x + c = l + 1 /\ x + c = r + 1
      BY <3>4
    <3> HIDE DEF x, l, r, c
    <3>8. g[m] = x
      BY <3>5, <3>6, <3>7
    <3>9. QED
      BY <3>8 DEF x
  <2>3. CASE m \notin Q \cup {NIL}
    BY <2>3
  <2>4. QED
    BY <2>1, <2>2, <2>3
<1>18. A \subseteq E
  <2> HIDE DEF E
  <2>1. QED
    BY <1>2, <1>17, Ranked
<1>19. g[n] = bh[n]
  BY <1>2, <1>18
<1>20. QED
  BY <1>8, <1>15, <1>19

-----------------------------------------------------------------------------
(* The nodes in order.                                                     *)

(* A sequence of k nodes, numbered from a. *)
Consecutive(s, Q, pos, a, k) ==
  /\ s \in Seq(Q) /\ Len(s) = k
  /\ \A i \in 1..k : pos[s[i]] = a + i - 1

(* The nodes on the left, m, and the nodes on the right make one such      *)
(* sequence.                                                               *)
LEMMA Joined ==
  ASSUME NEW Q, NEW pos, NEW a \in Nat, NEW k \in Nat, NEW j \in Nat, NEW m \in Q,
         NEW l, Consecutive(l, Q, pos, a, k), pos[m] = a + k,
         NEW r, Consecutive(r, Q, pos, pos[m] + 1, j)
  PROVE  Consecutive(l \o <<m>> \o r, Q, pos, a, k + 1 + j)
<1>1. l \in Seq(Q) /\ Len(l) = k /\ r \in Seq(Q) /\ Len(r) = j
  BY DEF Consecutive
<1> DEFINE u == l \o <<m>>
           w == u \o r
<1>2. u \in Seq(Q) /\ Len(u) = k + 1 /\ \A i \in 1..(k + 1) : u[i] = IF i <= k THEN l[i] ELSE m
  BY <1>1
<1> HIDE DEF u
<1>3. w \in Seq(Q) /\ Len(w) = k + 1 + j
      /\ \A i \in 1..(k + 1 + j) : w[i] = IF i <= k + 1 THEN u[i] ELSE r[i - (k + 1)]
  BY <1>1, <1>2
<1> HIDE DEF w
<1>4. ASSUME NEW i \in 1..(k + 1 + j) PROVE pos[w[i]] = a + i - 1
  <2>1. CASE i <= k
    <3>1. w[i] = l[i] /\ i \in 1..k
      BY <1>2, <1>3, <2>1
    <3>2. QED
      BY <3>1 DEF Consecutive
  <2>2. CASE i = k + 1
    <3>1. w[i] = m
      BY <1>2, <1>3, <2>2
    <3>2. QED
      BY <2>2, <3>1
  <2>3. CASE i > k + 1
    <3>1. w[i] = r[i - (k + 1)] /\ i - (k + 1) \in 1..j
      BY <1>3, <2>3
    <3>2. pos[r[i - (k + 1)]] = (pos[m] + 1) + (i - (k + 1)) - 1
      BY <3>1 DEF Consecutive
    <3>3. QED
      BY <3>1, <3>2
  <2>4. QED
    BY <2>1, <2>2, <2>3
<1>5. QED
  BY <1>3, <1>4 DEF Consecutive, w, u

(* The nodes below one, itself included, in order of their numbers.        *)
LEMMA InOrderIs ==
  ASSUME NEW t, NEW Q, NEW N, NEW pos, NEW lo, NEW hi,
         Shaped(t, Q, N, pos, lo, hi), Clean(t, Q), NEW n \in Q \cup {NIL}
  PROVE  IF n = NIL THEN InOrder(t, n) = <<>>
         ELSE Consecutive(InOrder(t, n), Q, pos, lo[n], hi[n] - lo[n] + 1)
<1> DEFINE A == Addresses
           V == Seq(A)
           D == Depth(Q, N, lo, hi)
           a(m) == t.left[m]
           b(m) == t.right[m]
           body(f, m) == IF m = NIL THEN <<>> ELSE f[t.left[m]] \o <<m>> \o f[t.right[m]]
           H == [m \in A |-> [f \in [A -> V] |-> body(f, m)]]
           Lists(f) == f = [m \in A |-> body(f, m)]
           g == CHOOSE f : Lists(f)
<1>1. \A m \in A : /\ a(m) \in A /\ b(m) \in A
                   /\ m # NIL => D[a(m)] < D[m] /\ D[b(m)] < D[m]
  <2>1. ASSUME NEW m \in A, NEW s \in Sides
        PROVE  t[s][m] \in A /\ (m # NIL => D[t[s][m]] < D[m])
    BY Deeper
  <2>2. ASSUME NEW m \in A
        PROVE  /\ t["left"][m] \in A /\ t["right"][m] \in A
               /\ m # NIL => D[t["left"][m]] < D[m] /\ D[t["right"][m]] < D[m]
    <3>1. "left" \in Sides /\ "right" \in Sides
      BY DEF Sides
    <3>2. QED
      BY <2>1, <3>1
  <2>3. QED
    BY <2>2
<1>2. /\ D \in [A -> Nat] /\ Q \subseteq A /\ A # {} /\ NIL \in A /\ NIL \notin Q
  BY Deeper, TreeAssumption DEF Shaped, Numbered, Addresses, Sides, Images
<1> HIDE DEF D, A
<1>3. ASSUME NEW m \in A, NEW f \in [A -> V] PROVE body(f, m) \in V
  <2>1. f[a(m)] \in V /\ f[b(m)] \in V
    BY <1>1, <1>2
  <2>2. QED
    BY <2>1
<1>4. ASSUME NEW m \in A, NEW f \in [A -> V], NEW f2 \in [A -> V],
             \A k \in A : D[k] < D[m] => f[k] = f2[k]
      PROVE  body(f, m) = body(f2, m)
  <2>1. m # NIL => f[a(m)] = f2[a(m)] /\ f[b(m)] = f2[b(m)]
    BY <1>1, <1>4
  <2>2. QED
    BY <2>1
<1>5. \A m \in A : \A f \in [A -> V] : H[m][f] = body(f, m)
  OBVIOUS
<1>6. \A f : Lists(f) => \A m \in A : f[m] = body(f, m)
  OBVIOUS
<1>7. \A f : f \in [A -> V] /\ (\A m \in A : f[m] = body(f, m)) => Lists(f)
  OBVIOUS
<1>8. InOrder(t, n) = g[n]
  BY DEF InOrder, A
<1>9. H \in [A -> [[A -> V] -> V]]
  BY <1>3
<1> HIDE DEF H, Lists
<1>10. Local(H, A, V, D)
  <2> HIDE DEF body, V
  <2>1. QED
    BY <1>4, <1>5 DEF Local
<1>20. V # {}
  <2>1. <<>> \in V
    OBVIOUS
  <2>2. QED
    BY <2>1
<1>11. PICK f : Defined(H, A, V, f)
  <2> HIDE DEF V
  <2>1. QED
    BY <1>2, <1>9, <1>10, <1>20, Recursion
<1>12. Lists(f)
  <2> HIDE DEF body, V
  <2>1. QED
    BY <1>5, <1>7, <1>11 DEF Defined
<1>13. Lists(g)
  BY <1>12
<1> HIDE DEF g
<1>14. \A m \in A : g[m] = body(g, m)
  BY <1>6, <1>13
<1> DEFINE Goal(m) == IF m = NIL THEN g[m] = <<>>
                      ELSE Consecutive(g[m], Q, pos, lo[m], hi[m] - lo[m] + 1)
           E == {m \in A : m \in Q \cup {NIL} => Goal(m)}
<1>17. ASSUME NEW m \in A, \A k \in A : D[k] < D[m] => k \in E PROVE m \in E
  <2>1. CASE m = NIL
    BY <1>14, <2>1
  <2>2. CASE m \in Q
    <3>1. m # NIL /\ a(m) \in E /\ b(m) \in E
      BY <1>1, <1>2, <1>17, <2>2
    <3>2. Spans(t, Q, pos, lo, hi, m)
      BY <2>2 DEF Shaped
    <3>3. g[m] = g[a(m)] \o <<m>> \o g[b(m)]
      BY <1>14, <3>1
    <3>4. pos[m] \in Nat /\ lo[m] \in Nat /\ hi[m] \in Nat /\ lo[m] <= pos[m] /\ pos[m] <= hi[m]
      BY <3>2 DEF Spans
    <3>5. Consecutive(g[a(m)], Q, pos, lo[m], pos[m] - lo[m])
      <4>1. CASE a(m) = NIL
        <5>1. lo[m] = pos[m]
          BY <1>2, <3>2, <4>1 DEF Spans
        <5>2. g[a(m)] = <<>>
          BY <3>1, <4>1
        <5>3. QED
          BY <3>4, <5>1, <5>2 DEF Consecutive
      <4>2. CASE a(m) # NIL
        <5>1. a(m) \in Q /\ lo[a(m)] = lo[m] /\ hi[a(m)] = pos[m] - 1
          BY <3>2, <4>2 DEF Spans
        <5>2. Consecutive(g[a(m)], Q, pos, lo[a(m)], hi[a(m)] - lo[a(m)] + 1)
          BY <3>1, <4>2, <5>1
        <5>3. hi[a(m)] - lo[a(m)] + 1 = pos[m] - lo[m]
          BY <3>4, <5>1
        <5>4. QED
          BY <5>1, <5>2, <5>3
      <4>3. QED
        BY <4>1, <4>2
    <3>6. Consecutive(g[b(m)], Q, pos, pos[m] + 1, hi[m] - pos[m])
      <4>1. CASE b(m) = NIL
        <5>1. hi[m] = pos[m]
          BY <1>2, <3>2, <4>1 DEF Spans
        <5>2. g[b(m)] = <<>>
          BY <3>1, <4>1
        <5>3. QED
          BY <3>4, <5>1, <5>2 DEF Consecutive
      <4>2. CASE b(m) # NIL
        <5>1. b(m) \in Q /\ lo[b(m)] = pos[m] + 1 /\ hi[b(m)] = hi[m]
          BY <3>2, <4>2 DEF Spans
        <5>2. Consecutive(g[b(m)], Q, pos, lo[b(m)], hi[b(m)] - lo[b(m)] + 1)
          BY <3>1, <4>2, <5>1
        <5>3. hi[b(m)] - lo[b(m)] + 1 = hi[m] - pos[m]
          BY <3>4, <5>1
        <5>4. QED
          BY <5>1, <5>2, <5>3
      <4>3. QED
        BY <4>1, <4>2
    <3> DEFINE k == pos[m] - lo[m]
               j == hi[m] - pos[m]
    <3>7. k \in Nat /\ j \in Nat /\ lo[m] \in Nat /\ pos[m] = lo[m] + k /\ k + 1 + j = hi[m] - lo[m] + 1
      BY <3>4
    <3> DEFINE l == g[a(m)]
               r == g[b(m)]
    <3> HIDE DEF l, r, k, j
    <3>8. Consecutive(l \o <<m>> \o r, Q, pos, lo[m], k + 1 + j)
      <4>1. Consecutive(l, Q, pos, lo[m], k) /\ Consecutive(r, Q, pos, pos[m] + 1, j)
        BY <3>5, <3>6 DEF l, r, k, j
      <4>2. QED
        BY <2>2, <3>7, <4>1, Joined
    <3>9. Goal(m)
      <4>1. g[m] = l \o <<m>> \o r
        BY <3>3 DEF l, r
      <4>2. QED
        BY <3>1, <3>7, <3>8, <4>1
    <3>10. QED
      BY <3>9
  <2>3. CASE m \notin Q \cup {NIL}
    BY <2>3
  <2>4. QED
    BY <2>1, <2>2, <2>3
<1>18. A \subseteq E
  <2> HIDE DEF E
  <2>1. QED
    BY <1>2, <1>17, Ranked
<1>19. Goal(n)
  BY <1>2, <1>18
<1>21. QED
  BY <1>8, <1>19

(* TreeNodes lists all nodes in order.                                     *)
LEMMA TreeNodesAre ==
  ASSUME NEW t, NEW Q, NEW N, NEW pos, HasShape(t, Q, N, pos), Clean(t, Q)
  PROVE  Consecutive(TreeNodes(t), Q, pos, 1, N)
<1>1. PICK lo, hi : Shaped(t, Q, N, pos, lo, hi)
  BY DEF HasShape
<1> DEFINE r == t.left[ROOT]
<1>2. r \in Q \cup {NIL} /\ NIL \notin Q /\ N \in Nat
  BY <1>1, TreeAssumption DEF Shaped, TopSpans, Numbered
<1>3. /\ r = NIL => N = 0
      /\ r # NIL => lo[r] = 1 /\ hi[r] = N
  BY <1>1 DEF Shaped, TopSpans
<1>4. TreeNodes(t) = InOrder(t, r)
  BY DEF TreeNodes
<1> HIDE DEF r
<1>5. CASE r = NIL
  <2>1. TreeNodes(t) = <<>> /\ N = 0
    BY <1>1, <1>2, <1>3, <1>4, <1>5, InOrderIs
  <2>2. QED
    BY <2>1 DEF Consecutive
<1>6. CASE r # NIL
  <2>1. Consecutive(InOrder(t, r), Q, pos, lo[r], hi[r] - lo[r] + 1)
    BY <1>1, <1>2, <1>6, InOrderIs
  <2>2. lo[r] = 1 /\ hi[r] - lo[r] + 1 = N
    BY <1>2, <1>3, <1>6
  <2>3. QED
    BY <1>4, <2>1, <2>2
<1>7. QED
  BY <1>5, <1>6

-----------------------------------------------------------------------------
(* The walk of TreeInsertHelp.                                             *)

(* The nodes are in order of their vruntimes. *)
Sorted(Q, pos, vr) == \A m, n \in Q : pos[m] < pos[n] => vr[m] <= vr[n]

(* Those up to number a go before a newcomer with vruntime v, those from   *)
(* number b on after it.                                                   *)
Parted(Q, pos, vr, v, a, b) ==
  \A n \in Q : (pos[n] <= a => vr[n] <= v) /\ (pos[n] >= b => vr[n] > v)

(* The side the walk of TreeInsertHelp goes on at y. *)
Turned(t, vr, v, y) ==
  IF y = ROOT \/ Greater(vr[t.key[y]], v) THEN "left" ELSE "right"

(* Where it ends, the newcomer's number is the one its vruntime asks for.  *)
Landed(t, Q, pos, vr, v, y, d) ==
  /\ Place(t, Q, y, d) /\ Rank(pos, y, d) \in Nat
  /\ Parted(Q, pos, vr, v, Rank(pos, y, d) - 1, Rank(pos, y, d))

(* One step of the walk, from a node of the tree.                          *)
LEMMA PartedStep ==
  ASSUME NEW t, NEW Q, NEW N, NEW pos, NEW lo, NEW hi,
         Shaped(t, Q, N, pos, lo, hi), Clean(t, Q),
         NEW vr \in [Uthreads -> Nat], Sorted(Q, pos, vr), NEW v \in Nat,
         NEW m \in Q, Parted(Q, pos, vr, v, lo[m] - 1, hi[m] + 1),
         NEW s, s = Turned(t, vr, v, m)
  PROVE  /\ s \in Sides
         /\ t[s][m] = NIL => Landed(t, Q, pos, vr, v, m, s)
         /\ t[s][m] # NIL =>
              /\ t[s][m] \in Q
              /\ Parted(Q, pos, vr, v, lo[t[s][m]] - 1, hi[t[s][m]] + 1)
<1>1. Spans(t, Q, pos, lo, hi, m)
  BY DEF Shaped
<1>2. /\ pos[m] \in Nat /\ lo[m] \in Nat /\ hi[m] \in Nat /\ lo[m] <= pos[m] /\ pos[m] <= hi[m]
      /\ m \in Uthreads /\ m # ROOT /\ NIL \notin Q
  BY <1>1, TreeAssumption DEF Spans, Shaped, Numbered
<1>3. t.key[m] = m
  BY <1>2 DEF Clean
<1>4. \A n \in Q : pos[n] \in Nat /\ vr[n] \in Nat /\ (pos[n] = pos[m] => n = m)
  BY DEF Shaped, Numbered
<1>5. \A n \in Q : (pos[n] <= lo[m] - 1 => vr[n] <= v) /\ (pos[n] >= hi[m] + 1 => vr[n] > v)
  BY DEF Parted
<1>6. \A n \in Q : /\ pos[n] < pos[m] => vr[n] <= vr[m]
                   /\ pos[m] < pos[n] => vr[m] <= vr[n]
  BY DEF Sorted
<1>7. s = IF vr[m] > v THEN "left" ELSE "right"
  BY <1>2, <1>3 DEF Turned, Greater
<1>8. t["left"][m] = t.left[m] /\ t["right"][m] = t.right[m]
  OBVIOUS
<1>9. CASE vr[m] > v
  <2>1. s = "left" /\ t[s][m] = t.left[m]
    BY <1>7, <1>8, <1>9
  <2>2. \A n \in Q : pos[n] >= pos[m] => vr[n] > v
    BY <1>2, <1>4, <1>6, <1>9
  <2>3. CASE t.left[m] = NIL
    <3>1. lo[m] = pos[m]
      BY <1>1, <1>2, <2>3 DEF Spans
    <3>2. Rank(pos, m, s) = pos[m]
      BY <1>2, <2>1 DEF Rank
    <3>3. Parted(Q, pos, vr, v, pos[m] - 1, pos[m])
      BY <1>5, <2>2, <3>1 DEF Parted
    <3>4. Place(t, Q, m, s)
      BY <2>1, <2>3 DEF Place, Sides
    <3>5. QED
      BY <1>2, <2>1, <2>3, <3>2, <3>3, <3>4 DEF Landed, Sides
  <2>4. CASE t.left[m] # NIL
    <3> DEFINE c == t.left[m]
    <3>1. c \in Q /\ lo[c] = lo[m] /\ hi[c] = pos[m] - 1
      BY <1>1, <2>4 DEF Spans
    <3>2. Parted(Q, pos, vr, v, lo[m] - 1, pos[m])
      BY <1>5, <2>2 DEF Parted
    <3>3. (pos[m] - 1) + 1 = pos[m]
      BY <1>2
    <3>4. Parted(Q, pos, vr, v, lo[c] - 1, hi[c] + 1)
      BY <3>1, <3>2, <3>3
    <3>5. QED
      BY <2>1, <2>4, <3>1, <3>4 DEF Sides
  <2>5. QED
    BY <2>3, <2>4
<1>10. CASE ~(vr[m] > v)
  <2>1. s = "right" /\ t[s][m] = t.right[m]
    BY <1>7, <1>8, <1>10
  <2>2. \A n \in Q : pos[n] <= pos[m] => vr[n] <= v
    <3>1. vr[m] <= v /\ vr[m] \in Nat
      BY <1>4, <1>10
    <3>2. QED
      BY <1>2, <1>4, <1>6, <3>1
  <2>3. CASE t.right[m] = NIL
    <3>1. hi[m] = pos[m]
      BY <1>1, <1>2, <2>3 DEF Spans
    <3>2. Rank(pos, m, s) = pos[m] + 1
      BY <1>2, <2>1 DEF Rank
    <3>3. (pos[m] + 1) - 1 = pos[m] /\ pos[m] + 1 \in Nat
      BY <1>2
    <3>4. Parted(Q, pos, vr, v, pos[m], pos[m] + 1)
      BY <1>5, <2>2, <3>1 DEF Parted
    <3>5. Place(t, Q, m, s)
      BY <2>1, <2>3 DEF Place, Sides
    <3>6. QED
      BY <2>1, <2>3, <3>2, <3>3, <3>4, <3>5 DEF Landed, Sides
  <2>4. CASE t.right[m] # NIL
    <3> DEFINE c == t.right[m]
    <3>1. c \in Q /\ lo[c] = pos[m] + 1 /\ hi[c] = hi[m]
      BY <1>1, <2>4 DEF Spans
    <3>2. Parted(Q, pos, vr, v, pos[m], hi[m] + 1)
      BY <1>5, <2>2 DEF Parted
    <3>3. (pos[m] + 1) - 1 = pos[m]
      BY <1>2
    <3>4. Parted(Q, pos, vr, v, lo[c] - 1, hi[c] + 1)
      BY <3>1, <3>2, <3>3
    <3>5. QED
      BY <2>1, <2>4, <3>1, <3>4 DEF Sides
  <2>5. QED
    BY <2>3, <2>4
<1>11. QED
  BY <1>9, <1>10

(* TreeInsertHelp finds a place that is free and in order.                 *)
LEMMA DescendLands ==
  ASSUME NEW t, NEW Q, NEW N, NEW pos, NEW lo, NEW hi,
         Shaped(t, Q, N, pos, lo, hi), Clean(t, Q),
         NEW vr \in [Uthreads -> Nat], Sorted(Q, pos, vr), NEW v \in Nat,
         NEW y, y = Descend(t, vr, v), NEW d, d = Turned(t, vr, v, y)
  PROVE  Landed(t, Q, pos, vr, v, y, d)
<1> DEFINE A == Addresses
           D == Depth(Q, N, lo, hi)
           next(m) == IF m # ROOT /\ ~Greater(vr[t.key[m]], v) THEN t.right[m] ELSE t.left[m]
           body(f, m) == IF next(m) = NIL THEN m ELSE f[next(m)]
           H == [m \in A |-> [f \in [A -> A] |-> body(f, m)]]
           Walk(f) == f = [m \in A |->
                             LET x == IF m # ROOT /\ ~Greater(vr[t.key[m]], v)
                                      THEN t.right[m] ELSE t.left[m]
                             IN IF x = NIL THEN m ELSE f[x]]
           g == CHOOSE f : Walk(f)
<1>1. \A m \in A : /\ next(m) = t[Turned(t, vr, v, m)][m]
                   /\ next(m) \in A
                   /\ next(m) # NIL => D[next(m)] < D[m]
  <2>1. ASSUME NEW m \in A, NEW s \in Sides
        PROVE  t[s][m] \in A /\ (t[s][m] # NIL => D[t[s][m]] < D[m])
    BY Deeper
  <2>2. ASSUME NEW m \in A PROVE next(m) = t[Turned(t, vr, v, m)][m] /\ Turned(t, vr, v, m) \in Sides
    <3>1. t["left"][m] = t.left[m] /\ t["right"][m] = t.right[m]
      OBVIOUS
    <3>2. QED
      BY <3>1 DEF Turned, Sides
  <2> HIDE DEF next
  <2>3. QED
    BY <2>1, <2>2
<1>2. D \in [A -> Nat] /\ Q \subseteq A /\ A # {} /\ ROOT \in A /\ NIL \notin Q
  BY Deeper, TreeAssumption DEF Shaped, Numbered, Addresses, Sides
<1>8. y = g[ROOT]
  BY DEF Descend, A
<1>6. \A f : Walk(f) => \A m \in A : f[m] = body(f, m)
  OBVIOUS
<1>7. \A f : f \in [A -> A] /\ (\A m \in A : f[m] = body(f, m)) => Walk(f)
  OBVIOUS
<1> HIDE DEF D, A, next, Walk
<1>3. H \in [A -> [[A -> A] -> A]]
  BY <1>1
<1>4. Local(H, A, A, D)
  BY <1>1 DEF Local
<1>5. \A m \in A : \A f \in [A -> A] : H[m][f] = body(f, m)
  OBVIOUS
<1> HIDE DEF H
<1>9. PICK f : Defined(H, A, A, f)
  BY <1>2, <1>3, <1>4, Recursion
<1>10. Walk(g)
  <2>1. Walk(f)
    <3> HIDE DEF body
    <3>1. QED
      BY <1>5, <1>7, <1>9 DEF Defined
  <2>2. QED
    BY <2>1
<1> HIDE DEF g
<1>11. \A m \in A : g[m] = IF next(m) = NIL THEN m ELSE g[next(m)]
  BY <1>6, <1>10
<1> DEFINE Starts(m) == m \in Q /\ Parted(Q, pos, vr, v, lo[m] - 1, hi[m] + 1)
           Ends(m) == Landed(t, Q, pos, vr, v, m, Turned(t, vr, v, m))
           E == {m \in A : Starts(m) => Ends(g[m])}
<1>12. ASSUME NEW m \in A, \A k \in A : D[k] < D[m] => k \in E PROVE m \in E
  <2>1. SUFFICES ASSUME Starts(m) PROVE Ends(g[m])
    OBVIOUS
  <2> DEFINE s == Turned(t, vr, v, m)
             c == t[s][m]
  <2>2. /\ c = NIL => Ends(m)
        /\ c # NIL => Starts(c)
    <3>1. s = Turned(t, vr, v, m)
      OBVIOUS
    <3> HIDE DEF s
    <3>2. /\ c = NIL => Landed(t, Q, pos, vr, v, m, s)
          /\ c # NIL => c \in Q /\ Parted(Q, pos, vr, v, lo[c] - 1, hi[c] + 1)
      BY <2>1, <3>1, PartedStep
    <3>3. QED
      BY <3>1, <3>2
  <2>3. next(m) = c
    BY <1>1
  <2> HIDE DEF c, Starts, Ends
  <2>4. CASE c = NIL
    BY <1>11, <2>2, <2>3, <2>4
  <2>5. CASE c # NIL
    <3>1. c \in A /\ D[c] < D[m]
      BY <1>1, <2>3, <2>5
    <3>2. c \in E
      BY <1>12, <3>1
    <3>3. QED
      BY <1>11, <2>2, <2>3, <2>5, <3>2
  <2>6. QED
    BY <2>4, <2>5
<1>13. A \subseteq E
  <2> HIDE DEF E
  <2>1. QED
    BY <1>2, <1>12, Ranked
<1> DEFINE top == t.left[ROOT]
<1>14. next(ROOT) = top
  BY DEF next
<1>15. Ends(y)
  <2>1. CASE top = NIL
    <3>1. y = ROOT
      BY <1>2, <1>8, <1>11, <1>14, <2>1
    <3>2. Turned(t, vr, v, ROOT) = "left" /\ Place(t, Q, ROOT, "left") /\ Rank(pos, ROOT, "left") = 1
      BY <2>1 DEF Turned, Place, Rank
    <3>3. Q = {}
      BY <2>1 DEF Shaped, TopSpans, Numbered
    <3>4. Parted(Q, pos, vr, v, 1 - 1, 1)
      BY <3>3 DEF Parted
    <3>5. QED
      BY <3>1, <3>2, <3>4 DEF Landed
  <2>2. CASE top # NIL
    <3>1. top \in Q /\ lo[top] = 1 /\ hi[top] = N /\ N \in Nat
      BY <2>2 DEF Shaped, TopSpans, Numbered
    <3>2. \A n \in Q : pos[n] \in 1..N
      BY DEF Shaped, Numbered
    <3> HIDE DEF top
    <3>3. Starts(top)
      BY <3>1, <3>2 DEF Parted
    <3>4. top \in E
      BY <1>2, <1>13, <3>1
    <3>5. y = g[top]
      BY <1>2, <1>8, <1>11, <1>14, <2>2
    <3>6. QED
      BY <3>3, <3>4, <3>5
  <2>3. QED
    BY <2>1, <2>2
<1>16. QED
  BY <1>15

-----------------------------------------------------------------------------
(* The walks to a neighbour.                                               *)

(* The number that comes before those of n and the nodes below it, or the  *)
(* one that comes after.                                                   *)
Beyond(s, lo, hi, n) == IF s = "left" THEN lo[n] - 1 ELSE hi[n] + 1

(* The node with a number, or the sentinel r if there is none.             *)
NodeAt(Q, N, pos, i, r, y) ==
  IF y = r THEN i \notin 1..N ELSE y \in Q /\ pos[y] = i

(* How far up a climb may go. *)
Height(Q, N, lo, hi) ==
  [m \in Addresses |-> IF m \in Q THEN N - Width(lo, hi, m)
                       ELSE IF m = NIL THEN N + 1 ELSE 0]

(* The climb goes on from m.                                               *)
Climbs(t, s, m) == t.parent[m] # ROOT /\ t[s][t.parent[m]] = m

(* Every step of a climb leads to a node above more of them; Climb reads   *)
(* the parent of nil only if it is called there.                           *)
LEMMA Higher ==
  ASSUME NEW t, NEW Q, NEW N, NEW pos, NEW lo, NEW hi,
         Shaped(t, Q, N, pos, lo, hi), Clean(t, Q), NEW m \in Addresses, NEW s \in Sides
  PROVE  /\ Height(Q, N, lo, hi) \in [Addresses -> Nat]
         /\ t.parent[m] \in Addresses
         /\ Climbs(t, s, m) /\ ~(m = NIL /\ t.parent[m] = NIL) =>
              Height(Q, N, lo, hi)[t.parent[m]] < Height(Q, N, lo, hi)[m]
<1> DEFINE D == Height(Q, N, lo, hi)
           y == t.parent[m]
<1>1. /\ N \in Nat /\ Q \subseteq Addresses /\ NIL \notin Q /\ ROOT \notin Q /\ ROOT # NIL
      /\ NIL \in Addresses /\ ROOT \in Addresses
      /\ \A n \in Addresses : n \in Q \/ n = ROOT \/ n = NIL \/ (n \in Uthreads /\ n \notin Q)
  BY TreeAssumption DEF Shaped, Numbered, Addresses
<1>2. \A n \in Q : /\ pos[n] \in 1..N /\ lo[n] \in 1..N /\ hi[n] \in 1..N
                   /\ Spans(t, Q, pos, lo, hi, n)
  BY DEF Shaped, Numbered, Spanned
<1>3. \A n \in Q : Width(lo, hi, n) \in Nat /\ Width(lo, hi, n) < N
  <2>1. ASSUME NEW n \in Q PROVE Width(lo, hi, n) \in Nat /\ Width(lo, hi, n) < N
    BY <1>1, <1>2 DEF Spans, Width
  <2>2. QED
    BY <2>1
<1>4. /\ \A n \in Q : D[n] = N - Width(lo, hi, n)
      /\ D[ROOT] = 0 /\ D[NIL] = N + 1
      /\ \A n \in Uthreads \ Q : D[n] = 0
  BY <1>1, TreeAssumption DEF Height, Addresses
<1>5. D \in [Addresses -> Nat]
  BY <1>1, <1>3 DEF Height
<1>6. y \in Addresses /\ t[s][NIL] = NIL
  <2>1. t["left"][NIL] = NIL /\ t["right"][NIL] = NIL
    BY DEF Shaped, Sentinels
  <2>2. y \in Addresses
    BY DEF Shaped, Images
  <2>3. QED
    BY <2>1, <2>2 DEF Sides
<1>7. ASSUME Climbs(t, s, m), ~(m = NIL /\ y = NIL) PROVE D[y] < D[m]
  <2>1. y # ROOT /\ t[s][y] = m
    BY <1>7 DEF Climbs
  <2>2. CASE m \in Q
    <3>1. Hangs(t, Q, m)
      BY <2>2 DEF Shaped
    <3>2. y \in Q
      BY <2>1, <3>1 DEF Hangs
    <3>3. Width(lo, hi, y) >= Width(lo, hi, m) + 1
      BY <2>2, <3>2, Wider
    <3>4. Width(lo, hi, y) \in Nat /\ Width(lo, hi, m) \in Nat /\ D[y] = N - Width(lo, hi, y)
          /\ D[m] = N - Width(lo, hi, m)
      BY <1>3, <1>4, <2>2, <3>2
    <3>5. QED
      BY <1>1, <3>3, <3>4
  <2>3. CASE m = ROOT
    <3>1. y = NIL
      BY <2>3 DEF Shaped, Sentinels
    <3>2. t[s][y] = NIL
      BY <1>6, <3>1
    <3>3. QED
      BY <1>1, <2>1, <2>3, <3>2
  <2>4. CASE m = NIL
    <3>1. y # NIL /\ D[m] = N + 1
      BY <1>4, <1>7, <2>4
    <3> HIDE DEF y, D
    <3>2. D[y] \in 0..N
      <4>1. \A n \in Q : D[n] \in 0..N
        BY <1>1, <1>3, <1>4
      <4>2. QED
        BY <1>1, <1>4, <1>6, <2>1, <3>1, <4>1
    <3>3. QED
      BY <1>1, <3>1, <3>2
  <2>5. CASE m \in Uthreads /\ m \notin Q
    <3>1. y = NIL
      BY <2>5 DEF Clean
    <3>2. t[s][y] = NIL
      BY <1>6, <3>1
    <3>3. QED
      BY <2>1, <2>5, <3>2, TreeAssumption
  <2>6. QED
    BY <1>1, <2>2, <2>3, <2>4, <2>5
<1>8. QED
  BY <1>5, <1>6, <1>7

(* One step up, from a node of the tree. *)
LEMMA ClimbStep ==
  ASSUME NEW t, NEW Q, NEW N, NEW pos, NEW lo, NEW hi,
         Shaped(t, Q, N, pos, lo, hi), NEW m \in Q, NEW s \in Sides,
         NEW y, y = t.parent[m]
  PROVE  /\ Climbs(t, s, m) => /\ y \in Q
                               /\ Beyond(s, lo, hi, y) = Beyond(s, lo, hi, m)
         /\ ~Climbs(t, s, m) => NodeAt(Q, N, pos, Beyond(s, lo, hi, m), ROOT, y)
<1>1. Hangs(t, Q, m) /\ NIL \notin Q /\ ROOT \notin Q /\ m # NIL
  BY TreeAssumption DEF Shaped, Numbered
<1>2. CASE y = ROOT
  <2>1. m = t.left[ROOT] /\ lo[m] = 1 /\ hi[m] = N /\ N \in Nat
    BY <1>1, <1>2 DEF Hangs, Shaped, TopSpans, Numbered
  <2>2. Beyond(s, lo, hi, m) \notin 1..N
    BY <2>1 DEF Beyond
  <2>3. QED
    BY <1>2, <2>2 DEF Climbs, NodeAt
<1>3. CASE y # ROOT
  <2>1. y \in Q /\ m \in {t.left[y], t.right[y]}
    BY <1>1, <1>3 DEF Hangs
  <2>2. Spans(t, Q, pos, lo, hi, y) /\ t.left[y] # t.right[y]
    <3>1. Spans(t, Q, pos, lo, hi, y)
      BY <2>1 DEF Shaped
    <3>2. t.left[y] # t.right[y]
      BY <1>1, <2>1, <3>1 DEF Spans
    <3>3. QED
      BY <3>1, <3>2
  <2>3. /\ m = t.left[y] => lo[m] = lo[y] /\ hi[m] = pos[y] - 1
        /\ m = t.right[y] => lo[m] = pos[y] + 1 /\ hi[m] = hi[y]
    BY <1>1, <2>2 DEF Spans
  <2>4. pos[y] \in Nat /\ lo[y] \in Nat /\ hi[y] \in Nat
    BY <2>2 DEF Spans
  <2>5. Climbs(t, s, m) <=> t[s][y] = m
    BY <1>3 DEF Climbs
  <2>6. t[s][y] = IF s = "left" THEN t.left[y] ELSE t.right[y]
    <3>1. t["left"][y] = t.left[y] /\ t["right"][y] = t.right[y]
      OBVIOUS
    <3>2. QED
      BY <3>1 DEF Sides
  <2>7. CASE m = t.left[y]
    <3>1. lo[m] = lo[y] /\ hi[m] = pos[y] - 1 /\ m # t.right[y]
      BY <2>2, <2>3, <2>7
    <3>2. CASE s = "left"
      <4>1. Climbs(t, s, m) /\ Beyond(s, lo, hi, y) = Beyond(s, lo, hi, m)
        BY <2>5, <2>6, <2>7, <3>1, <3>2 DEF Beyond
      <4>2. QED
        BY <2>1, <4>1
    <3>3. CASE s = "right"
      <4>1. ~Climbs(t, s, m) /\ Beyond(s, lo, hi, m) = pos[y]
        BY <2>4, <2>5, <2>6, <3>1, <3>3 DEF Beyond
      <4>2. QED
        BY <1>3, <2>1, <4>1 DEF NodeAt
    <3>4. QED
      BY <3>2, <3>3 DEF Sides
  <2>8. CASE m = t.right[y]
    <3>1. lo[m] = pos[y] + 1 /\ hi[m] = hi[y] /\ m # t.left[y]
      BY <2>2, <2>3, <2>8
    <3>2. CASE s = "right"
      <4>1. Climbs(t, s, m) /\ Beyond(s, lo, hi, y) = Beyond(s, lo, hi, m)
        BY <2>5, <2>6, <2>8, <3>1, <3>2 DEF Beyond
      <4>2. QED
        BY <2>1, <4>1
    <3>3. CASE s = "left"
      <4>1. ~Climbs(t, s, m) /\ Beyond(s, lo, hi, m) = pos[y]
        BY <2>4, <2>5, <2>6, <3>1, <3>3 DEF Beyond
      <4>2. QED
        BY <1>3, <2>1, <4>1 DEF NodeAt
    <3>4. QED
      BY <3>2, <3>3 DEF Sides
  <2>9. QED
    BY <2>1, <2>7, <2>8
<1>4. QED
  BY <1>2, <1>3

(* What the loop of Climb computes, from every address at once.            *)
Goes(g, t, s) ==
  \A m \in Addresses :
    /\ Climb(t, m, s) = g[m]
    /\ g[m] = IF Climbs(t, s, m) THEN g[t.parent[m]] ELSE t.parent[m]

(* The loop ends wherever it begins.                                       *)
LEMMA ClimbGoes ==
  ASSUME NEW t, NEW Q, NEW N, NEW pos, NEW lo, NEW hi,
         Shaped(t, Q, N, pos, lo, hi), Clean(t, Q), NEW s \in Sides
  PROVE  \E g : Goes(g, t, s)
<1> DEFINE A == Addresses
           D == Height(Q, N, lo, hi)
           body(f, m) == LET y == t.parent[m] IN IF y # ROOT /\ m = t[s][y] THEN f[y] ELSE y
           free(f, m) == IF m = NIL /\ t.parent[m] = NIL THEN NIL
                         ELSE IF Climbs(t, s, m) THEN f[t.parent[m]] ELSE t.parent[m]
           H == [m \in A |-> [f \in [A -> A] |-> free(f, m)]]
           Walk(f) == f = [m \in A |-> body(f, m)]
           g == CHOOSE f : Walk(f)
<1>1. \A m \in A : /\ t.parent[m] \in A
                   /\ Climbs(t, s, m) /\ ~(m = NIL /\ t.parent[m] = NIL) => D[t.parent[m]] < D[m]
  BY Higher
<1>2. D \in [A -> Nat] /\ Q \subseteq A /\ A # {} /\ NIL \in A /\ NIL \notin Q
  BY Higher, TreeAssumption DEF Shaped, Numbered, Addresses, Sides
<1>6. \A f, m : body(f, m) = IF Climbs(t, s, m) THEN f[t.parent[m]] ELSE t.parent[m]
  BY DEF Climbs
<1>14. Climbs(t, s, NIL) \/ t.parent[NIL] # NIL
  <2>1. t["left"][NIL] = NIL /\ t["right"][NIL] = NIL /\ NIL # ROOT
    BY TreeAssumption DEF Shaped, Sentinels
  <2>2. QED
    BY <2>1 DEF Climbs, Sides
<1>8. \A n : Climb(t, n, s) = g[n]
  BY DEF Climb, A
<1>7. \A f : Walk(f) => \A m \in A : f[m] = body(f, m)
  OBVIOUS
<1>15. \A f : f \in [A -> A] /\ (\A m \in A : f[m] = body(f, m)) => Walk(f)
  OBVIOUS
<1> HIDE DEF D, A, Walk, body
<1>3. H \in [A -> [[A -> A] -> A]]
  BY <1>1, <1>2
<1>4. Local(H, A, A, D)
  BY <1>1 DEF Local
<1>5. \A m \in A : \A f \in [A -> A] : H[m][f] = free(f, m)
  OBVIOUS
<1> HIDE DEF H
<1>9. PICK f : Defined(H, A, A, f)
  BY <1>2, <1>3, <1>4, Recursion
<1>10. Walk(g)
  <2>1. ASSUME NEW m \in A PROVE f[m] = body(f, m)
    <3>1. f[m] = free(f, m)
      BY <1>5, <1>9 DEF Defined
    <3>2. CASE m = NIL /\ t.parent[m] = NIL
      BY <1>6, <1>14, <3>2
    <3>3. CASE ~(m = NIL /\ t.parent[m] = NIL)
      BY <1>6, <3>1, <3>3
    <3>4. QED
      BY <3>2, <3>3
  <2>2. Walk(f)
    <3> HIDE DEF body
    <3>1. QED
      BY <1>9, <1>15, <2>1 DEF Defined
  <2>3. QED
    BY <2>2
<1> HIDE DEF g
<1>11. \A m \in A : g[m] = IF Climbs(t, s, m) THEN g[t.parent[m]] ELSE t.parent[m]
  BY <1>6, <1>7, <1>10
<1>12. Goes(g, t, s)
  BY <1>8, <1>11 DEF Goes, A
<1>13. QED
  BY <1>12

(* The climb ends at the node next to all those below n, on the side s.    *)
LEMMA ClimbIs ==
  ASSUME NEW t, NEW Q, NEW N, NEW pos, NEW lo, NEW hi,
         Shaped(t, Q, N, pos, lo, hi), Clean(t, Q), NEW n \in Q, NEW s \in Sides
  PROVE  NodeAt(Q, N, pos, Beyond(s, lo, hi, n), ROOT, Climb(t, n, s))
<1> DEFINE A == Addresses
           D == Height(Q, N, lo, hi)
<1>1. \A m \in A : /\ t.parent[m] \in A
                   /\ Climbs(t, s, m) /\ ~(m = NIL /\ t.parent[m] = NIL) => D[t.parent[m]] < D[m]
  BY Higher
<1>2. D \in [A -> Nat] /\ Q \subseteq A /\ A # {} /\ NIL \in A /\ NIL \notin Q
  BY Higher, TreeAssumption DEF Shaped, Numbered, Addresses, Sides
<1>3. PICK g : Goes(g, t, s)
  BY ClimbGoes
<1>8. Climb(t, n, s) = g[n]
  BY <1>2, <1>3 DEF Goes
<1>11. \A m \in A : g[m] = IF Climbs(t, s, m) THEN g[t.parent[m]] ELSE t.parent[m]
  BY <1>3 DEF Goes
<1> HIDE DEF D, A
<1> DEFINE Goal(m) == NodeAt(Q, N, pos, Beyond(s, lo, hi, m), ROOT, g[m])
           E == {m \in A : m \in Q => Goal(m)}
<1>12. ASSUME NEW m \in A, \A k \in A : D[k] < D[m] => k \in E PROVE m \in E
  <2>1. SUFFICES ASSUME m \in Q PROVE Goal(m)
    OBVIOUS
  <2> DEFINE y == t.parent[m]
  <2>2. y = t.parent[m]
    OBVIOUS
  <2>3. g[m] = IF Climbs(t, s, m) THEN g[y] ELSE y
    BY <1>11
  <2>4. y \in A /\ (Climbs(t, s, m) => D[y] < D[m])
    BY <1>1, <1>2, <2>1
  <2> HIDE DEF y
  <2>5. CASE Climbs(t, s, m)
    <3>1. y \in Q /\ Beyond(s, lo, hi, y) = Beyond(s, lo, hi, m)
      BY <2>1, <2>2, <2>5, ClimbStep
    <3>2. y \in E
      BY <1>12, <2>4, <2>5
    <3>3. QED
      BY <2>3, <2>5, <3>1, <3>2
  <2>6. CASE ~Climbs(t, s, m)
    <3>1. NodeAt(Q, N, pos, Beyond(s, lo, hi, m), ROOT, y)
      BY <2>1, <2>2, <2>6, ClimbStep
    <3>2. QED
      BY <2>3, <2>6, <3>1
  <2>7. QED
    BY <2>5, <2>6
<1>13. A \subseteq E
  <2> HIDE DEF E
  <2>1. QED
    BY <1>2, <1>12, Ranked
<1>16. QED
  BY <1>2, <1>8, <1>13

(* Outside the tree it does not even begin.                                *)
LEMMA ClimbOutside ==
  ASSUME NEW t, NEW Q, NEW N, NEW pos, NEW lo, NEW hi,
         Shaped(t, Q, N, pos, lo, hi), Clean(t, Q), NEW s \in Sides,
         NEW m \in Addresses, m # NIL, m \notin Q
  PROVE  Climb(t, m, s) = NIL
<1>1. PICK g : Goes(g, t, s)
  BY ClimbGoes
<1>2. t.parent[m] = NIL
  BY TreeAssumption DEF Shaped, Sentinels, Clean, Addresses
<1>3. t["left"][NIL] = NIL /\ t["right"][NIL] = NIL
  BY DEF Shaped, Sentinels
<1>4. ~Climbs(t, s, m)
  BY <1>2, <1>3 DEF Climbs, Sides
<1>5. QED
  BY <1>1, <1>2, <1>4 DEF Goes

(* TreeSuccessor and TreePredecessor answer the neighbour.                 *)
THEOREM NeighbourIs ==
  ASSUME NEW t, NEW Q, NEW N, NEW pos, HasShape(t, Q, N, pos), Clean(t, Q),
         NEW n \in Q, NEW s \in Sides
  PROVE  NodeAt(Q, N, pos, IF s = "left" THEN pos[n] - 1 ELSE pos[n] + 1, NIL,
                Neighbour(t, n, s))
<1>1. PICK lo, hi : Shaped(t, Q, N, pos, lo, hi)
  BY DEF HasShape
<1> DEFINE c == t[s][n]
           i == IF s = "left" THEN pos[n] - 1 ELSE pos[n] + 1
<1>2. /\ Spans(t, Q, pos, lo, hi, n) /\ NIL \notin Q /\ ROOT \notin Q /\ NIL # ROOT
  BY <1>1, TreeAssumption DEF Shaped, Numbered
<1>3. c = IF s = "left" THEN t.left[n] ELSE t.right[n]
  <2>1. t["left"][n] = t.left[n] /\ t["right"][n] = t.right[n]
    OBVIOUS
  <2>2. QED
    BY <2>1 DEF Sides
<1>4. CASE c = NIL
  <2>1. Beyond(s, lo, hi, n) = i
    <3> HIDE DEF c
    <3>1. CASE s = "left"
      BY <1>2, <1>3, <1>4, <3>1 DEF Spans, Beyond
    <3>2. CASE s = "right"
      BY <1>2, <1>3, <1>4, <3>2 DEF Spans, Beyond
    <3>3. QED
      BY <3>1, <3>2 DEF Sides
  <2> DEFINE y == Climb(t, n, s)
  <2>2. NodeAt(Q, N, pos, Beyond(s, lo, hi, n), ROOT, y)
    BY <1>1, ClimbIs
  <2>3. Neighbour(t, n, s) = IF y = ROOT THEN NIL ELSE y
    BY <1>4 DEF Neighbour
  <2> HIDE DEF y, i
  <2>4. NodeAt(Q, N, pos, i, NIL, Neighbour(t, n, s))
    BY <1>2, <2>1, <2>2, <2>3 DEF NodeAt
  <2>5. QED
    BY <2>4 DEF i
<1>5. CASE c # NIL
  <2>1. c \in Q /\ Bound(Other(s), lo, hi, c) = i
    <3> HIDE DEF c
    <3>1. CASE s = "left"
      <4>1. c \in Q /\ hi[c] = pos[n] - 1
        BY <1>2, <1>3, <1>5, <3>1 DEF Spans
      <4>2. QED
        BY <3>1, <4>1 DEF Bound, Other
    <3>2. CASE s = "right"
      <4>1. c \in Q /\ lo[c] = pos[n] + 1
        BY <1>2, <1>3, <1>5, <3>2 DEF Spans
      <4>2. QED
        BY <3>2, <4>1 DEF Bound, Other
    <3>3. QED
      BY <3>1, <3>2 DEF Sides
  <2>2. Neighbour(t, n, s) = Farthest(t, c, Other(s))
    BY <1>5 DEF Neighbour
  <2>3. Other(s) \in Sides
    BY TwoSides
  <2> HIDE DEF c
  <2>4. Farthest(t, c, Other(s)) \in Q /\ pos[Farthest(t, c, Other(s))] = i
    BY <1>1, <2>1, <2>3, FarthestIs
  <2>5. QED
    BY <1>2, <2>2, <2>4 DEF NodeAt
<1>6. QED
  BY <1>4, <1>5

-----------------------------------------------------------------------------
(* The order after an insertion or removal.                                *)

(* Node z has come into the tree as number k, behind all whose vruntime is *)
(* not larger.                                                             *)
Joins(t, Q, N, pos, vr, z, k) ==
  /\ k \in 1..(N + 1)
  /\ Sound(t, Q \cup {z}, N + 1, Opened(Q, pos, z, k))
  /\ Parted(Q, pos, vr, vr[z], k - 1, k)

(* RBTreeInsert puts z into the order at the end of its equals, and whoever *)
(* walks the tree meanwhile meets nodes of the tree or z.                  *)
THEOREM InsertJoins ==
  ASSUME NEW h \in Histories, NEW Q, NEW N, NEW pos, Sound(Last(h), Q, N, pos),
         NEW vr \in [Uthreads -> Nat], Sorted(Q, pos, vr),
         NEW z \in Uthreads, z \notin Q, Walkable(h, Q \cup {z})
  PROVE  /\ RBTreeInsert(h, vr, z) \in Histories
         /\ Walkable(RBTreeInsert(h, vr, z), Q \cup {z})
         /\ \E k : Joins(Last(RBTreeInsert(h, vr, z)), Q, N, pos, vr, z, k)
<1> DEFINE t == Last(h)
           v == vr[z]
           y == Descend(t, vr, v)
           d == Turned(t, vr, v, y)
           g == RBTreeInsert(h, vr, z)
           k == Rank(pos, y, d)
<1>1. PICK lo, hi : Shaped(t, Q, N, pos, lo, hi) /\ Clean(t, Q)
  BY DEF Sound, HasShape
<1>2. v \in Nat /\ y = Descend(t, vr, v) /\ d = Turned(t, vr, v, y)
  OBVIOUS
<1>3. y = Descend(Last(h), vr, vr[z])
  OBVIOUS
<1>4. d = IF y = ROOT \/ Greater(vr[Last(h).key[y]], vr[z]) THEN "left" ELSE "right"
  BY DEF Turned
<1>5. Sound(t, Q, N, pos)
  OBVIOUS
<1> HIDE DEF y, d
<1>6. Landed(t, Q, pos, vr, v, y, d)
  <2> HIDE DEF t, v
  <2>1. QED
    BY <1>1, <1>2, DescendLands
<1>7. Place(t, Q, y, d) /\ Parted(Q, pos, vr, v, k - 1, k)
  BY <1>6 DEF Landed
<1>8. /\ g \in Histories /\ Walkable(g, Q \cup {z}) /\ k \in 1..(N + 1)
      /\ Sound(Last(g), Q \cup {z}, N + 1, Opened(Q, pos, z, k))
  BY <1>3, <1>4, <1>7, InsertSound
<1>9. Joins(Last(g), Q, N, pos, vr, z, k)
  BY <1>7, <1>8 DEF Joins
<1>10. QED
  BY <1>8, <1>9

(* The order of the vruntimes is kept, whoever comes or goes.              *)
LEMMA OpenedSorted ==
  ASSUME NEW Q, NEW N, NEW pos, Numbered(Q, N, pos),
         NEW vr \in [Uthreads -> Nat], Sorted(Q, pos, vr),
         NEW z \in Uthreads, z \notin Q, NEW k \in 1..(N + 1),
         Parted(Q, pos, vr, vr[z], k - 1, k)
  PROVE  Sorted(Q \cup {z}, Opened(Q, pos, z, k), vr)
<1> DEFINE p == Opened(Q, pos, z, k)
<1>1. /\ p[z] = k
      /\ \A n \in Q : p[n] = IF pos[n] >= k THEN pos[n] + 1 ELSE pos[n]
  BY DEF Opened
<1>2. N \in Nat /\ \A n \in Q : pos[n] \in Nat /\ vr[n] \in Nat /\ n # z
  BY DEF Numbered
<1>3. \A m, n \in Q : pos[m] < pos[n] => vr[m] <= vr[n]
  BY DEF Sorted
<1>4. \A n \in Q : (pos[n] <= k - 1 => vr[n] <= vr[z]) /\ (pos[n] >= k => vr[n] > vr[z])
  BY DEF Parted
<1> HIDE DEF p
<1>5. ASSUME NEW m \in Q \cup {z}, NEW n \in Q \cup {z}, p[m] < p[n]
      PROVE  vr[m] <= vr[n]
  <2>1. CASE m \in Q /\ n \in Q
    <3>1. pos[m] < pos[n]
      BY <1>1, <1>2, <1>5, <2>1
    <3>2. QED
      BY <1>3, <2>1, <3>1
  <2>2. CASE m \in Q /\ n = z
    <3>1. pos[m] <= k - 1
      BY <1>1, <1>2, <1>5, <2>2
    <3>2. QED
      BY <1>4, <2>2, <3>1
  <2>3. CASE m = z /\ n \in Q
    <3>1. pos[n] >= k
      BY <1>1, <1>2, <1>5, <2>3
    <3>2. QED
      BY <1>2, <1>4, <2>3, <3>1
  <2>4. CASE m = z /\ n = z
    BY <1>1, <1>5, <2>4
  <2>5. QED
    BY <2>1, <2>2, <2>3, <2>4
<1>6. QED
  BY <1>5 DEF Sorted, p

(* Taking a node out leaves the others sorted.                             *)
LEMMA ClosedSorted ==
  ASSUME NEW Q, NEW N, NEW pos, Numbered(Q, N, pos), NEW vr,
         Sorted(Q, pos, vr), NEW z \in Q
  PROVE  Sorted(Q \ {z}, Closed(Q, pos, z), vr)
<1> DEFINE p == Closed(Q, pos, z)
<1>1. \A n \in Q \ {z} : p[n] = IF pos[n] > pos[z] THEN pos[n] - 1 ELSE pos[n]
  BY DEF Closed
<1>2. \A n \in Q : pos[n] \in Int
  BY DEF Numbered
<1>3. \A n \in Q \ {z} : pos[n] # pos[z]
  BY DEF Numbered
<1> HIDE DEF p
<1>4. ASSUME NEW m \in Q \ {z}, NEW n \in Q \ {z}, p[m] < p[n]
      PROVE  vr[m] <= vr[n]
  <2>1. pos[m] < pos[n]
    BY <1>1, <1>2, <1>3, <1>4
  <2>2. QED
    BY <2>1 DEF Sorted
<1>5. QED
  BY <1>4 DEF Sorted, p

-----------------------------------------------------------------------------
(* RBExactQuery.                                                           *)

(* n is m or below it. *)
Under(pos, lo, hi, m, n) == lo[m] <= pos[n] /\ pos[n] <= hi[m]

(* f is what RBExactQuery should find below m: the highest node with v, or *)
(* NULL.                                                                   *)
Sought(Q, pos, lo, hi, vr, v, m, f) ==
  IF f = Nil THEN \A n \in Q : Under(pos, lo, hi, m, n) => vr[n] # v
  ELSE /\ f \in Q /\ vr[f] = v
       /\ \A n \in Q : Under(pos, lo, hi, m, n) /\ vr[n] = v => Under(pos, lo, hi, f, n)

(* It is on one side of m only. *)
LEMMA SoughtBelow ==
  ASSUME NEW t, NEW Q, NEW N, NEW pos, NEW lo, NEW hi,
         Shaped(t, Q, N, pos, lo, hi), NEW vr \in [Uthreads -> Nat], Sorted(Q, pos, vr),
         NEW v \in Nat, NEW m \in Q, vr[m] # v,
         NEW c, c = IF Greater(vr[m], v) THEN t.left[m] ELSE t.right[m]
  PROVE  /\ c = NIL => Sought(Q, pos, lo, hi, vr, v, m, Nil)
         /\ c # NIL => /\ c \in Q
                       /\ \A f : Sought(Q, pos, lo, hi, vr, v, c, f)
                                   => Sought(Q, pos, lo, hi, vr, v, m, f)
<1>1. Spans(t, Q, pos, lo, hi, m) /\ NIL \notin Q
  BY TreeAssumption DEF Shaped, Numbered
<1>2. pos[m] \in Nat /\ lo[m] \in Nat /\ hi[m] \in Nat /\ vr[m] \in Nat
  BY <1>1 DEF Spans, Shaped, Numbered
<1>3. \A n \in Q : pos[n] \in Nat /\ vr[n] \in Nat /\ (pos[n] = pos[m] => n = m)
  BY DEF Shaped, Numbered
<1>4. \A n \in Q : /\ pos[n] < pos[m] => vr[n] <= vr[m]
                   /\ pos[m] < pos[n] => vr[m] <= vr[n]
  BY DEF Sorted
<1>5. \A n \in Q : Under(pos, lo, hi, m, n) /\ vr[n] = v =>
                     c # NIL /\ Under(pos, lo, hi, c, n)
  <2> SUFFICES ASSUME NEW n \in Q, Under(pos, lo, hi, m, n), vr[n] = v
               PROVE  c # NIL /\ Under(pos, lo, hi, c, n)
    OBVIOUS
  <2>1. lo[m] <= pos[n] /\ pos[n] <= hi[m]
    BY DEF Under
  <2>2. CASE vr[m] > v
    <3>1. c = t.left[m]
      BY <2>2 DEF Greater
    <3>2. pos[n] <= pos[m] - 1
      BY <1>2, <1>3, <1>4, <2>2
    <3>3. c # NIL
      <4>1. lo[m] # pos[m]
        BY <1>2, <1>3, <2>1, <3>2
      <4>2. QED
        BY <1>1, <3>1, <4>1 DEF Spans
    <3>4. lo[c] = lo[m] /\ hi[c] = pos[m] - 1
      BY <1>1, <3>1, <3>3 DEF Spans
    <3>5. QED
      BY <2>1, <3>2, <3>3, <3>4 DEF Under
  <2>3. CASE ~(vr[m] > v)
    <3>1. c = t.right[m]
      BY <2>3 DEF Greater
    <3>2. pos[n] >= pos[m] + 1
      BY <1>2, <1>3, <1>4, <2>3
    <3>3. c # NIL
      <4>1. hi[m] # pos[m]
        BY <1>2, <1>3, <2>1, <3>2
      <4>2. QED
        BY <1>1, <3>1, <4>1 DEF Spans
    <3>4. lo[c] = pos[m] + 1 /\ hi[c] = hi[m]
      BY <1>1, <3>1, <3>3 DEF Spans
    <3>5. QED
      BY <2>1, <3>2, <3>3, <3>4 DEF Under
  <2>4. QED
    BY <2>2, <2>3
<1>6. c # NIL => c \in Q
  BY <1>1 DEF Spans
<1>7. Nil \notin Q
  BY TreeAssumption DEF Shaped, Numbered
<1>8. c = NIL => Sought(Q, pos, lo, hi, vr, v, m, Nil)
  BY <1>5 DEF Sought
<1>9. ASSUME c # NIL, NEW f, Sought(Q, pos, lo, hi, vr, v, c, f)
      PROVE  Sought(Q, pos, lo, hi, vr, v, m, f)
  BY <1>5, <1>9 DEF Sought
<1>10. QED
  BY <1>6, <1>8, <1>9

(* RBExactQuery finds the highest node with the vruntime asked for, or     *)
(* answers NULL if there is none.                                          *)
THEOREM ExactQueryIs ==
  ASSUME NEW t, NEW Q, NEW N, NEW pos, NEW lo, NEW hi,
         Shaped(t, Q, N, pos, lo, hi), Clean(t, Q),
         NEW vr \in [Uthreads -> Nat], Sorted(Q, pos, vr), NEW v \in Nat
  PROVE  LET f == RBExactQuery(t, vr, v) IN
         IF f = Nil THEN \A n \in Q : vr[n] # v
         ELSE /\ f \in Q /\ vr[f] = v
              /\ \A n \in Q : vr[n] = v => Under(pos, lo, hi, f, n)
<1> DEFINE A == Addresses
           B == Addresses \cup {Nil}
           D == Depth(Q, N, lo, hi)
           next(m) == IF Greater(vr[t.key[m]], v) THEN t.left[m] ELSE t.right[m]
           body(f, m) == IF m = NIL THEN Nil
                         ELSE IF vr[t.key[m]] = v THEN m ELSE f[next(m)]
           H == [m \in A |-> [f \in [A -> B] |-> body(f, m)]]
           Search(f) == f = [m \in A |->
                             IF m = NIL THEN Nil
                             ELSE IF vr[t.key[m]] = v THEN m
                             ELSE f[IF Greater(vr[t.key[m]], v) THEN t.left[m] ELSE t.right[m]]]
           g == CHOOSE f : Search(f)
           top == t.left[ROOT]
<1>1. \A m \in A : next(m) \in A /\ (m # NIL => D[next(m)] < D[m])
  <2>1. ASSUME NEW m \in A, NEW s \in Sides
        PROVE  t[s][m] \in A /\ (m # NIL => D[t[s][m]] < D[m])
    BY Deeper
  <2>2. ASSUME NEW m \in A PROVE \E s \in Sides : next(m) = t[s][m]
    <3>1. t["left"][m] = t.left[m] /\ t["right"][m] = t.right[m] /\ "left" \in Sides /\ "right" \in Sides
      BY DEF Sides
    <3>2. QED
      BY <3>1
  <2> HIDE DEF next, D, A
  <2>3. QED
    BY <2>1, <2>2
<1>2. D \in [A -> Nat] /\ Q \subseteq A /\ A # {} /\ ROOT \in A /\ NIL \in A /\ NIL \notin Q
  BY Deeper, TreeAssumption DEF Shaped, Numbered, Addresses, Sides
<1>8. RBExactQuery(t, vr, v) = g[top]
  BY DEF RBExactQuery, A
<1>6. \A f : Search(f) => \A m \in A : f[m] = body(f, m)
  OBVIOUS
<1>7. \A f : f \in [A -> B] /\ (\A m \in A : f[m] = body(f, m)) => Search(f)
  OBVIOUS
<1>18. A \subseteq B /\ Nil \in B /\ B # {} /\ Nil \notin A
  BY TreeAssumption DEF Addresses
<1>15. \A m \in Q : next(m) = IF Greater(vr[m], v) THEN t.left[m] ELSE t.right[m]
  BY DEF Clean, Shaped, Numbered
<1> HIDE DEF D, A, B, next, Search
<1>3. H \in [A -> [[A -> B] -> B]]
  BY <1>1, <1>2, <1>18
<1>4. Local(H, A, B, D)
  BY <1>1 DEF Local
<1>5. \A m \in A : \A f \in [A -> B] : H[m][f] = body(f, m)
  OBVIOUS
<1> HIDE DEF H
<1>9. PICK f : Defined(H, A, B, f)
  BY <1>2, <1>3, <1>4, <1>18, Recursion
<1>10. Search(g)
  <2>1. Search(f)
    <3> HIDE DEF body
    <3>1. QED
      BY <1>5, <1>7, <1>9 DEF Defined
  <2>2. QED
    BY <2>1
<1> HIDE DEF g
<1>11. \A m \in A : g[m] = IF m = NIL THEN Nil
                           ELSE IF vr[t.key[m]] = v THEN m ELSE g[next(m)]
  BY <1>6, <1>10
<1> DEFINE Goal(m) == Sought(Q, pos, lo, hi, vr, v, m, g[m])
           E == {m \in A : m \in Q => Goal(m)}
<1>12. ASSUME NEW m \in A, \A k \in A : D[k] < D[m] => k \in E PROVE m \in E
  <2>1. SUFFICES ASSUME m \in Q PROVE Goal(m)
    OBVIOUS
  <2>2. t.key[m] = m
    BY <2>1 DEF Clean, Shaped, Numbered
  <2>3. CASE vr[m] = v
    <3>1. g[m] = m /\ m # Nil
      BY <1>2, <1>11, <1>18, <2>1, <2>2, <2>3
    <3>2. QED
      BY <2>1, <2>3, <3>1 DEF Sought
  <2>4. CASE vr[m] # v
    <3> DEFINE c == next(m)
    <3>1. c = IF Greater(vr[m], v) THEN t.left[m] ELSE t.right[m]
      BY <1>15, <2>1
    <3>2. c \in A /\ D[c] < D[m] /\ g[m] = g[c]
      BY <1>1, <1>2, <1>11, <2>1, <2>2, <2>4
    <3> HIDE DEF c
    <3>3. /\ c = NIL => Sought(Q, pos, lo, hi, vr, v, m, Nil)
          /\ c # NIL => /\ c \in Q
                        /\ \A f2 : Sought(Q, pos, lo, hi, vr, v, c, f2)
                                    => Sought(Q, pos, lo, hi, vr, v, m, f2)
      <4> HIDE DEF Goal, E, top, body
      <4>1. m \in Q /\ vr[m] # v
        BY <2>1, <2>4
      <4>2. QED
        BY <3>1, <4>1, SoughtBelow
    <3>4. c \in E
      BY <1>12, <3>2
    <3>5. g[NIL] = Nil
      BY <1>2, <1>11
    <3>6. QED
      BY <3>2, <3>3, <3>4, <3>5
  <2>5. QED
    BY <2>3, <2>4
<1>13. A \subseteq E
  <2> HIDE DEF E
  <2>1. QED
    BY <1>2, <1>12, Ranked
<1>14. CASE top = NIL
  <2>1. g[top] = Nil /\ Q = {}
    BY <1>2, <1>11, <1>14 DEF Shaped, TopSpans, Numbered
  <2>2. QED
    BY <1>8, <2>1
<1>16. CASE top # NIL
  <2>1. top \in Q /\ lo[top] = 1 /\ hi[top] = N /\ N \in Nat
    BY <1>16 DEF Shaped, TopSpans, Numbered
  <2>2. \A n \in Q : pos[n] \in 1..N
    BY DEF Shaped, Numbered
  <2> HIDE DEF top
  <2>3. \A n \in Q : Under(pos, lo, hi, top, n)
    BY <2>1, <2>2 DEF Under
  <2>4. Goal(top)
    BY <1>2, <1>13, <2>1
  <2>5. QED
    BY <1>8, <2>3, <2>4 DEF Sought
<1>17. QED
  BY <1>14, <1>16

-----------------------------------------------------------------------------
(* RBEnumerate.                                                            *)

(* f is the last one below m that goes no further than high. *)
Latest(Q, pos, lo, hi, vr, high, m, f) ==
  IF f = NIL THEN \A n \in Q : Under(pos, lo, hi, m, n) => vr[n] > high
  ELSE /\ f \in Q /\ vr[f] <= high /\ Under(pos, lo, hi, m, f)
       /\ \A n \in Q : Under(pos, lo, hi, m, n) /\ vr[n] <= high => pos[n] <= pos[f]

(* The same for a child, or nil.                                           *)
LatestOn(Q, pos, lo, hi, vr, high, c, f) ==
  IF c = NIL THEN f = NIL ELSE c \in Q /\ Latest(Q, pos, lo, hi, vr, high, c, f)

(* What RBEnumerate's first loop makes of the answers for the children.    *)
LEMMA LatestBelow ==
  ASSUME NEW t, NEW Q, NEW N, NEW pos, NEW lo, NEW hi,
         Shaped(t, Q, N, pos, lo, hi), NEW vr \in [Uthreads -> Nat], Sorted(Q, pos, vr),
         NEW high \in Nat, NEW m \in Q,
         NEW f, LatestOn(Q, pos, lo, hi, vr, high, t.left[m], f),
         NEW g, LatestOn(Q, pos, lo, hi, vr, high, t.right[m], g)
  PROVE  Latest(Q, pos, lo, hi, vr, high, m,
                IF Greater(vr[m], high) THEN f ELSE IF g = NIL THEN m ELSE g)
<1> DEFINE a == t.left[m]
           b == t.right[m]
<1>1. Spans(t, Q, pos, lo, hi, m) /\ NIL \notin Q
  BY TreeAssumption DEF Shaped, Numbered
<1>2. pos[m] \in Nat /\ lo[m] \in Nat /\ hi[m] \in Nat /\ vr[m] \in Nat
      /\ lo[m] <= pos[m] /\ pos[m] <= hi[m]
  BY <1>1 DEF Spans, Shaped, Numbered
<1>3. \A n \in Q : pos[n] \in Nat /\ vr[n] \in Nat /\ (pos[n] = pos[m] => n = m)
  BY DEF Shaped, Numbered
<1>4. \A n \in Q : /\ pos[n] < pos[m] => vr[n] <= vr[m]
                   /\ pos[m] < pos[n] => vr[m] <= vr[n]
  BY DEF Sorted
<1>5. /\ a = NIL => lo[m] = pos[m]
      /\ a # NIL => a \in Q /\ lo[a] = lo[m] /\ hi[a] = pos[m] - 1
      /\ b = NIL => hi[m] = pos[m]
      /\ b # NIL => b \in Q /\ lo[b] = pos[m] + 1 /\ hi[b] = hi[m]
  BY <1>1 DEF Spans
<1> HIDE DEF a, b
<1>6. LatestOn(Q, pos, lo, hi, vr, high, a, f) /\ LatestOn(Q, pos, lo, hi, vr, high, b, g)
  BY DEF a, b
<1>7. CASE vr[m] > high
  <2>1. \A n \in Q : Under(pos, lo, hi, m, n) /\ vr[n] <= high =>
                       a # NIL /\ Under(pos, lo, hi, a, n)
    <3> SUFFICES ASSUME NEW n \in Q, Under(pos, lo, hi, m, n), vr[n] <= high
                 PROVE  a # NIL /\ Under(pos, lo, hi, a, n)
      OBVIOUS
    <3>1. lo[m] <= pos[n]
      BY DEF Under
    <3>2. pos[n] <= pos[m] - 1
      BY <1>2, <1>3, <1>4, <1>7
    <3>3. a # NIL
      BY <1>2, <1>3, <1>5, <3>1, <3>2
    <3>4. QED
      BY <1>5, <3>1, <3>2, <3>3 DEF Under
  <2>2. f # NIL => a # NIL
    BY <1>6 DEF LatestOn
  <2>3. ASSUME NEW n \in Q, a # NIL, Under(pos, lo, hi, a, n) PROVE Under(pos, lo, hi, m, n)
    BY <1>2, <1>3, <1>5, <2>3 DEF Under
  <2>4. CASE f = NIL
    <3>1. \A n \in Q : Under(pos, lo, hi, m, n) => ~(vr[n] <= high)
      BY <1>6, <2>1, <2>4, <1>3 DEF LatestOn, Latest
    <3>2. \A n \in Q : Under(pos, lo, hi, m, n) => vr[n] > high
      BY <1>3, <3>1
    <3>3. QED
      BY <1>7, <2>4, <3>2 DEF Latest, Greater
  <2>5. CASE f # NIL
    <3>1. Latest(Q, pos, lo, hi, vr, high, a, f) /\ a # NIL
      BY <1>6, <2>2, <2>5 DEF LatestOn
    <3>2. f \in Q /\ vr[f] <= high /\ Under(pos, lo, hi, m, f)
      BY <2>3, <2>5, <3>1 DEF Latest
    <3>3. \A n \in Q : Under(pos, lo, hi, m, n) /\ vr[n] <= high => pos[n] <= pos[f]
      BY <2>1, <2>5, <3>1 DEF Latest
    <3>4. QED
      BY <1>7, <2>5, <3>2, <3>3 DEF Latest, Greater
  <2>6. QED
    BY <2>4, <2>5
<1>8. CASE ~(vr[m] > high)
  <2>0. vr[m] <= high
    BY <1>2, <1>8
  <2>1. ASSUME NEW n \in Q, Under(pos, lo, hi, m, n), pos[n] > pos[m]
        PROVE  b # NIL /\ Under(pos, lo, hi, b, n)
    <3>1. pos[n] <= hi[m] /\ pos[m] + 1 <= pos[n]
      BY <1>2, <1>3, <2>1 DEF Under
    <3>2. b # NIL
      BY <1>2, <1>3, <1>5, <3>1
    <3>3. QED
      BY <1>5, <3>1, <3>2 DEF Under
  <2>2. Under(pos, lo, hi, m, m)
    BY <1>2 DEF Under
  <2>3. CASE g = NIL
    <3>1. \A n \in Q : Under(pos, lo, hi, m, n) /\ vr[n] <= high => pos[n] <= pos[m]
      <4> SUFFICES ASSUME NEW n \in Q, Under(pos, lo, hi, m, n), vr[n] <= high, pos[n] > pos[m]
                   PROVE  FALSE
        BY <1>2, <1>3
      <4>1. b # NIL /\ Under(pos, lo, hi, b, n)
        BY <2>1
      <4>2. vr[n] > high
        BY <1>6, <2>3, <4>1 DEF LatestOn, Latest
      <4>3. QED
        BY <1>3, <4>2
    <3>2. m # NIL
      BY <1>1
    <3>3. QED
      BY <1>8, <2>0, <2>2, <2>3, <3>1, <3>2 DEF Latest, Greater
  <2>4. CASE g # NIL
    <3>1. b # NIL /\ Latest(Q, pos, lo, hi, vr, high, b, g)
      BY <1>6, <2>4 DEF LatestOn
    <3>2. g \in Q /\ vr[g] <= high /\ lo[b] <= pos[g] /\ pos[g] <= hi[b]
      BY <2>4, <3>1 DEF Latest, Under
    <3>3. Under(pos, lo, hi, m, g) /\ pos[m] < pos[g]
      BY <1>2, <1>3, <1>5, <3>1, <3>2 DEF Under
    <3>4. \A n \in Q : Under(pos, lo, hi, m, n) /\ vr[n] <= high => pos[n] <= pos[g]
      <4> SUFFICES ASSUME NEW n \in Q, Under(pos, lo, hi, m, n), vr[n] <= high
                   PROVE  pos[n] <= pos[g]
        OBVIOUS
      <4>1. CASE pos[n] > pos[m]
        <5>1. Under(pos, lo, hi, b, n)
          BY <2>1, <4>1
        <5>2. QED
          BY <2>4, <3>1, <5>1 DEF Latest
      <4>2. CASE ~(pos[n] > pos[m])
        BY <1>2, <1>3, <3>2, <3>3, <4>2
      <4>3. QED
        BY <4>1, <4>2
    <3>5. QED
      BY <1>8, <2>4, <3>2, <3>3, <3>4 DEF Latest, Greater
  <2>5. QED
    BY <2>3, <2>4
<1>9. QED
  BY <1>7, <1>8

(* The first pass of RBEnumerate.                                          *)
LEMMA LastAtMostIs ==
  ASSUME NEW t, NEW Q, NEW N, NEW pos, NEW lo, NEW hi,
         Shaped(t, Q, N, pos, lo, hi), Clean(t, Q),
         NEW vr \in [Uthreads -> Nat], Sorted(Q, pos, vr), NEW high \in Nat
  PROVE  LET f == LastAtMost(t, vr, high) IN
         IF f = NIL THEN \A n \in Q : vr[n] > high
         ELSE f \in Q /\ vr[f] <= high /\ \A n \in Q : vr[n] <= high => pos[n] <= pos[f]
<1> DEFINE A == Addresses
           D == Depth(Q, N, lo, hi)
           a(m) == t.left[m]
           b(m) == t.right[m]
           body(f, m) == IF m = NIL THEN NIL
                         ELSE IF Greater(vr[t.key[m]], high) THEN f[t.left[m]]
                         ELSE IF f[t.right[m]] = NIL THEN m ELSE f[t.right[m]]
           H == [m \in A |-> [f \in [A -> A] |-> body(f, m)]]
           Best(f) == f = [m \in A |-> body(f, m)]
           g == CHOOSE f : Best(f)
           top == t.left[ROOT]
<1>1. \A m \in A : /\ a(m) \in A /\ b(m) \in A
                   /\ m # NIL => D[a(m)] < D[m] /\ D[b(m)] < D[m]
  <2>1. ASSUME NEW m \in A, NEW s \in Sides
        PROVE  t[s][m] \in A /\ (m # NIL => D[t[s][m]] < D[m])
    BY Deeper
  <2>2. ASSUME NEW m \in A
        PROVE  /\ t["left"][m] \in A /\ t["right"][m] \in A
               /\ m # NIL => D[t["left"][m]] < D[m] /\ D[t["right"][m]] < D[m]
    <3>1. "left" \in Sides /\ "right" \in Sides
      BY DEF Sides
    <3>2. QED
      BY <2>1, <3>1
  <2>3. QED
    BY <2>2
<1>2. D \in [A -> Nat] /\ Q \subseteq A /\ A # {} /\ ROOT \in A /\ NIL \in A /\ NIL \notin Q
  BY Deeper, TreeAssumption DEF Shaped, Numbered, Addresses, Sides
<1>8. LastAtMost(t, vr, high) = g[top]
  BY DEF LastAtMost, A
<1> HIDE DEF D, A
<1>3. ASSUME NEW m \in A, NEW f \in [A -> A] PROVE body(f, m) \in A
  <2>1. f[a(m)] \in A /\ f[b(m)] \in A
    BY <1>1
  <2>2. QED
    BY <1>2, <2>1
<1>4. ASSUME NEW m \in A, NEW f \in [A -> A], NEW f2 \in [A -> A],
             \A k \in A : D[k] < D[m] => f[k] = f2[k]
      PROVE  body(f, m) = body(f2, m)
  <2>1. m # NIL => f[a(m)] = f2[a(m)] /\ f[b(m)] = f2[b(m)]
    BY <1>1, <1>4
  <2>2. QED
    BY <2>1
<1>5. \A m \in A : \A f \in [A -> A] : H[m][f] = body(f, m)
  OBVIOUS
<1>6. \A f : Best(f) => \A m \in A : f[m] = body(f, m)
  OBVIOUS
<1>7. \A f : f \in [A -> A] /\ (\A m \in A : f[m] = body(f, m)) => Best(f)
  OBVIOUS
<1>9. H \in [A -> [[A -> A] -> A]]
  BY <1>3
<1> HIDE DEF H, Best
<1>10. Local(H, A, A, D)
  <2> HIDE DEF body
  <2>1. QED
    BY <1>4, <1>5 DEF Local
<1>11. PICK f : Defined(H, A, A, f)
  BY <1>2, <1>9, <1>10, Recursion
<1>12. Best(f)
  <2> HIDE DEF body
  <2>1. QED
    BY <1>5, <1>7, <1>11 DEF Defined
<1>13. Best(g)
  BY <1>12
<1> HIDE DEF g
<1>14. \A m \in A : g[m] = body(g, m)
  BY <1>6, <1>13
<1> DEFINE Goal(m) == Latest(Q, pos, lo, hi, vr, high, m, g[m])
           E == {m \in A : m \in Q => Goal(m)}
<1>19. g[NIL] = NIL
  BY <1>2, <1>14
<1>20. ASSUME NEW m \in A, NEW c \in Q \cup {NIL}, c # NIL => c \in E
       PROVE  LatestOn(Q, pos, lo, hi, vr, high, c, g[c])
  BY <1>19, <1>20 DEF LatestOn
<1>17. ASSUME NEW m \in A, \A k \in A : D[k] < D[m] => k \in E PROVE m \in E
  <2>1. SUFFICES ASSUME m \in Q PROVE Goal(m)
    OBVIOUS
  <2>2. m # NIL /\ t.key[m] = m
    BY <1>2, <2>1 DEF Clean, Shaped, Numbered
  <2>3. a(m) \in Q \cup {NIL} /\ b(m) \in Q \cup {NIL}
    <3>1. Spans(t, Q, pos, lo, hi, m)
      BY <2>1 DEF Shaped
    <3>2. QED
      BY <3>1 DEF Spans
  <2>4. a(m) \in E /\ b(m) \in E
    BY <1>1, <1>17, <2>2
  <2> HIDE DEF E
  <2>5. /\ LatestOn(Q, pos, lo, hi, vr, high, t.left[m], g[t.left[m]])
        /\ LatestOn(Q, pos, lo, hi, vr, high, t.right[m], g[t.right[m]])
    BY <1>20, <2>3, <2>4
  <2> DEFINE x == g[t.left[m]]
             y == g[t.right[m]]
  <2>6. g[m] = IF Greater(vr[m], high) THEN x ELSE IF y = NIL THEN m ELSE y
    BY <1>14, <2>2
  <2> HIDE DEF x, y
  <2>7. Latest(Q, pos, lo, hi, vr, high, m,
               IF Greater(vr[m], high) THEN x ELSE IF y = NIL THEN m ELSE y)
    <3>1. /\ LatestOn(Q, pos, lo, hi, vr, high, t.left[m], x)
          /\ LatestOn(Q, pos, lo, hi, vr, high, t.right[m], y)
      BY <2>5 DEF x, y
    <3>2. QED
      BY <2>1, <3>1, LatestBelow
  <2>8. QED
    BY <2>6, <2>7
<1>18. A \subseteq E
  <2> HIDE DEF E
  <2>1. QED
    BY <1>2, <1>17, Ranked
<1>21. CASE top = NIL
  <2>1. g[top] = NIL /\ Q = {}
    BY <1>19, <1>21 DEF Shaped, TopSpans, Numbered
  <2>2. QED
    BY <1>8, <2>1
<1>22. CASE top # NIL
  <2>1. top \in Q /\ lo[top] = 1 /\ hi[top] = N /\ N \in Nat
    BY <1>22 DEF Shaped, TopSpans, Numbered
  <2>2. \A n \in Q : pos[n] \in 1..N
    BY DEF Shaped, Numbered
  <2> HIDE DEF top
  <2>3. \A n \in Q : Under(pos, lo, hi, top, n)
    BY <2>1, <2>2 DEF Under
  <2>4. Goal(top)
    BY <1>2, <1>18, <2>1
  <2>5. QED
    BY <1>8, <2>3, <2>4 DEF Latest
<1>23. QED
  BY <1>21, <1>22

(* The numbers up to c are those of the nodes with vruntimes below v.      *)
CutAt(Q, N, pos, vr, v, c) == c \in 0..N /\ \A n \in Q : vr[n] < v <=> pos[n] <= c

(* There is such a number in a sorted tree.                                *)
LEMMA SortedCut ==
  ASSUME NEW Q, NEW N, NEW pos, Numbered(Q, N, pos),
         NEW vr \in [Uthreads -> Nat], Sorted(Q, pos, vr), NEW v \in Nat
  PROVE  \E c : CutAt(Q, N, pos, vr, v, c)
<1> DEFINE B == {pos[n] : n \in {m \in Q : vr[m] >= v}}
<1>1. /\ N \in Nat /\ \A n \in Q : pos[n] \in 1..N /\ vr[n] \in Nat
      /\ \A m, n \in Q : pos[m] = pos[n] => m = n
  BY DEF Numbered
<1>2. CASE B = {}
  <2>1. \A n \in Q : vr[n] < v
    BY <1>1, <1>2
  <2>2. CutAt(Q, N, pos, vr, v, N)
    BY <1>1, <2>1 DEF CutAt
  <2>3. QED
    BY <2>2
<1>3. CASE B # {}
  <2>1. B \subseteq Nat
    BY <1>1
  <2> HIDE DEF B
  <2>2. PICK i \in B : \A j \in B : i <= j
    BY <1>3, <2>1, Least
  <2>3. PICK m \in Q : vr[m] >= v /\ pos[m] = i
    BY <2>2 DEF B
  <2>4. ASSUME NEW n \in Q PROVE vr[n] < v <=> pos[n] <= i - 1
    <3>1. CASE pos[n] <= i - 1
      <4>1. pos[n] \notin B
        BY <1>1, <2>1, <2>2, <3>1
      <4>2. ~(vr[n] >= v)
        BY <4>1 DEF B
      <4>3. QED
        BY <1>1, <3>1, <4>2
    <3>2. CASE ~(pos[n] <= i - 1)
      <4>1. pos[n] = pos[m] \/ pos[m] < pos[n]
        BY <1>1, <2>3, <3>2
      <4>2. vr[m] <= vr[n]
        BY <1>1, <2>3, <4>1 DEF Sorted
      <4>3. ~(vr[n] < v)
        BY <1>1, <2>3, <4>2
      <4>4. QED
        BY <3>2, <4>3
    <3>3. QED
      BY <3>1, <3>2
  <2>5. i - 1 \in 0..N
    BY <1>1, <2>3
  <2>6. CutAt(Q, N, pos, vr, v, i - 1)
    BY <2>4, <2>5 DEF CutAt
  <2>7. QED
    BY <2>6
<1>4. QED
  BY <1>2, <1>3

(* A node pushed on such a sequence.                                       *)
LEMMA OneMore ==
  ASSUME NEW Q, NEW pos, NEW a \in Nat, NEW k \in Nat, NEW s, Consecutive(s, Q, pos, a, k),
         NEW m \in Q, pos[m] = a + k
  PROVE  Consecutive(Append(s, m), Q, pos, a, k + 1)
<1> DEFINE u == Append(s, m)
<1>1. s \in Seq(Q) /\ Len(s) = k /\ \A i \in 1..k : pos[s[i]] = a + i - 1
  BY DEF Consecutive
<1>2. u \in Seq(Q) /\ Len(u) = k + 1 /\ \A i \in 1..(k + 1) : u[i] = IF i <= k THEN s[i] ELSE m
  BY <1>1
<1> HIDE DEF u
<1>3. ASSUME NEW i \in 1..(k + 1) PROVE pos[u[i]] = a + i - 1
  <2>1. CASE i <= k
    <3>1. i \in 1..k /\ u[i] = s[i]
      BY <1>2, <2>1
    <3>2. QED
      BY <1>1, <3>1
  <2>2. CASE i = k + 1
    BY <1>2, <2>2
  <2>3. QED
    BY <2>1, <2>2
<1>4. QED
  BY <1>2, <1>3 DEF Consecutive, u

(* A step to the predecessor leads on, from every address but nil.         *)
Steps(Q, N, pos) ==
  [m \in Addresses |-> IF m \in Q THEN pos[m] ELSE IF m = ROOT THEN N + 1
                       ELSE IF m = NIL THEN 0 ELSE 1]

(* TreePredecessor goes one back.                                          *)
LEMMA Backwards ==
  ASSUME NEW t, NEW Q, NEW N, NEW pos, NEW lo, NEW hi,
         Shaped(t, Q, N, pos, lo, hi), Clean(t, Q), NEW m \in Addresses
  PROVE  /\ Steps(Q, N, pos) \in [Addresses -> Nat]
         /\ m # NIL => /\ TreePredecessor(t, m) \in Addresses
                       /\ Steps(Q, N, pos)[TreePredecessor(t, m)] < Steps(Q, N, pos)[m]
         /\ m \in Q => NodeAt(Q, N, pos, pos[m] - 1, NIL, TreePredecessor(t, m))
<1> DEFINE D == Steps(Q, N, pos)
           y == TreePredecessor(t, m)
<1>1. /\ N \in Nat /\ Q \subseteq Addresses /\ NIL \notin Q /\ ROOT \notin Q /\ ROOT # NIL
      /\ NIL \in Addresses /\ ROOT \in Addresses
      /\ \A n \in Addresses : n \in Q \/ n = ROOT \/ n = NIL \/ (n \in Uthreads /\ n \notin Q)
      /\ \A n \in Q : pos[n] \in 1..N
  BY TreeAssumption DEF Shaped, Numbered, Addresses
<1>2. /\ \A n \in Q : D[n] = pos[n]
      /\ D[ROOT] = N + 1 /\ D[NIL] = 0
      /\ \A n \in Uthreads \ Q : D[n] = 1
  BY <1>1, TreeAssumption DEF Steps, Addresses
<1>3. D \in [Addresses -> Nat]
  BY <1>1 DEF Steps
<1>4. "left" \in Sides /\ "right" \in Sides /\ Other("left") = "right"
  BY DEF Sides, Other
<1>5. y = Neighbour(t, m, "left")
  BY DEF TreePredecessor
<1>6. /\ t["left"][m] = NIL => y = IF Climb(t, m, "left") = ROOT THEN NIL ELSE Climb(t, m, "left")
      /\ t["left"][m] # NIL => y = Farthest(t, t["left"][m], "right")
  BY <1>4, <1>5 DEF Neighbour
<1> HIDE DEF D
<1>7. ASSUME m \in Q PROVE NodeAt(Q, N, pos, pos[m] - 1, NIL, y)
  <2>1. HasShape(t, Q, N, pos)
    BY DEF HasShape
  <2>2. NodeAt(Q, N, pos, IF "left" = "left" THEN pos[m] - 1 ELSE pos[m] + 1, NIL,
               Neighbour(t, m, "left"))
    BY <1>4, <1>7, <2>1, NeighbourIs
  <2>3. QED
    BY <1>5, <2>2
<1>8. ASSUME m # NIL PROVE y \in Addresses /\ D[y] < D[m]
  <2>1. CASE m \in Q
    <3>1. y = NIL \/ (y \in Q /\ pos[y] = pos[m] - 1)
      BY <1>7, <2>1 DEF NodeAt
    <3> HIDE DEF y
    <3>2. QED
      BY <1>1, <1>2, <2>1, <3>1
  <2>2. CASE m \notin Q /\ t["left"][m] = NIL
    <3>1. Climb(t, m, "left") = NIL
      BY <1>4, <1>8, <2>2, ClimbOutside
    <3>2. y = NIL
      BY <1>6, <2>2, <3>1
    <3>3. D[m] >= 1
      BY <1>1, <1>2, <1>8, <2>2
    <3>4. QED
      BY <1>1, <1>2, <3>2, <3>3
  <2>3. CASE m \notin Q /\ t["left"][m] # NIL
    <3> DEFINE c == t["left"][m]
    <3>1. m = ROOT
      <4>1. m \in Uthreads /\ m \notin Q => t.left[m] = NIL
        BY DEF Clean
      <4>2. QED
        BY <1>1, <1>8, <2>3, <4>1
    <3>2. c \in Q
      BY <2>3, <3>1 DEF Shaped, TopSpans
    <3>3. y = Farthest(t, c, "right")
      BY <1>6, <2>3
    <3> HIDE DEF c, y
    <3>4. y \in Q
      BY <1>4, <3>2, <3>3, FarthestIs
    <3>5. QED
      BY <1>1, <1>2, <3>1, <3>4
  <2>4. QED
    BY <2>1, <2>2, <2>3
<1>9. QED
  BY <1>3, <1>7, <1>8 DEF D

(* RBEnumerate lists the nodes of a range, in order.                       *)
THEOREM EnumerateIs ==
  ASSUME NEW t, NEW Q, NEW N, NEW pos, NEW lo, NEW hi,
         Shaped(t, Q, N, pos, lo, hi), Clean(t, Q),
         NEW vr \in [Uthreads -> Nat], Sorted(Q, pos, vr),
         NEW low \in Nat, NEW high \in Nat,
         NEW a, CutAt(Q, N, pos, vr, low, a),
         NEW b, CutAt(Q, N, pos, vr, high + 1, b)
  PROVE  IF b <= a THEN RBEnumerate(t, vr, low, high) = <<>>
         ELSE Consecutive(RBEnumerate(t, vr, low, high), Q, pos, a + 1, b - a)
<1> DEFINE A == Addresses
           V == Seq(A)
           D == Steps(Q, N, pos)
           y(m) == TreePredecessor(t, m)
           body(f, m) == IF m = NIL THEN <<>>
                         ELSE IF Greater(low, vr[t.key[m]]) THEN <<>>
                         ELSE Append(f[TreePredecessor(t, m)], m)
           H == [m \in A |-> [f \in [A -> V] |-> body(f, m)]]
           Stack(f) == f = [m \in A |-> body(f, m)]
           g == CHOOSE f : Stack(f)
           best == LastAtMost(t, vr, high)
<1>1. \A m \in A : m # NIL => y(m) \in A /\ D[y(m)] < D[m]
  BY Backwards
<1>2. D \in [A -> Nat] /\ Q \subseteq A /\ A # {} /\ NIL \in A /\ NIL \notin Q
  BY Backwards, TreeAssumption DEF Shaped, Numbered, Addresses
<1>8. RBEnumerate(t, vr, low, high) = g[best]
  BY DEF RBEnumerate, A
<1> HIDE DEF D, A
<1>3. ASSUME NEW m \in A, NEW f \in [A -> V] PROVE body(f, m) \in V
  <2>1. m # NIL => f[y(m)] \in V
    BY <1>1
  <2>2. QED
    BY <2>1
<1>4. ASSUME NEW m \in A, NEW f \in [A -> V], NEW f2 \in [A -> V],
             \A k \in A : D[k] < D[m] => f[k] = f2[k]
      PROVE  body(f, m) = body(f2, m)
  <2>1. m # NIL => f[y(m)] = f2[y(m)]
    BY <1>1, <1>4
  <2>2. QED
    BY <2>1
<1>5. \A m \in A : \A f \in [A -> V] : H[m][f] = body(f, m)
  OBVIOUS
<1>6. \A f : Stack(f) => \A m \in A : f[m] = body(f, m)
  OBVIOUS
<1>7. \A f : f \in [A -> V] /\ (\A m \in A : f[m] = body(f, m)) => Stack(f)
  OBVIOUS
<1>9. H \in [A -> [[A -> V] -> V]]
  BY <1>3
<1> HIDE DEF H, Stack
<1>10. Local(H, A, V, D)
  <2> HIDE DEF body, V
  <2>1. QED
    BY <1>4, <1>5 DEF Local
<1>20. V # {}
  <2>1. <<>> \in V
    OBVIOUS
  <2>2. QED
    BY <2>1
<1>11. PICK f : Defined(H, A, V, f)
  <2> HIDE DEF V
  <2>1. QED
    BY <1>2, <1>9, <1>10, <1>20, Recursion
<1>12. Stack(f)
  <2> HIDE DEF body, V
  <2>1. QED
    BY <1>5, <1>7, <1>11 DEF Defined
<1>13. Stack(g)
  BY <1>12
<1> HIDE DEF g
<1>14. \A m \in A : g[m] = body(g, m)
  BY <1>6, <1>13
<1>15. /\ N \in Nat /\ a \in 0..N /\ b \in 0..N
       /\ \A n \in Q : pos[n] \in 1..N /\ vr[n] \in Nat
       /\ \A i \in 1..N : \E n \in Q : pos[n] = i
       /\ \A n \in Q : vr[n] < low <=> pos[n] <= a
       /\ \A n \in Q : vr[n] < high + 1 <=> pos[n] <= b
  BY DEF CutAt, Shaped, Numbered
<1> DEFINE Goal(m) == IF pos[m] <= a THEN g[m] = <<>>
                      ELSE Consecutive(g[m], Q, pos, a + 1, pos[m] - a)
           E == {m \in A : m \in Q => Goal(m)}
<1>16. Consecutive(<<>>, Q, pos, a + 1, 0)
  BY DEF Consecutive
<1>17. ASSUME NEW m \in A, \A k \in A : D[k] < D[m] => k \in E PROVE m \in E
  <2>1. SUFFICES ASSUME m \in Q PROVE Goal(m)
    OBVIOUS
  <2>2. m # NIL /\ t.key[m] = m
    BY <1>2, <2>1 DEF Clean, Shaped, Numbered
  <2>3. CASE pos[m] <= a
    <3>1. low > vr[m]
      BY <1>15, <2>1, <2>3
    <3>2. g[m] = <<>>
      BY <1>14, <2>2, <3>1 DEF Greater
    <3>3. QED
      BY <2>3, <3>2
  <2>4. CASE ~(pos[m] <= a)
    <3>1. ~(low > vr[m]) /\ pos[m] \in Nat /\ a \in Nat
      BY <1>15, <2>1, <2>4
    <3> DEFINE c == TreePredecessor(t, m)
    <3>2. g[m] = Append(g[c], m)
      BY <1>14, <2>2, <3>1 DEF Greater
    <3>3. NodeAt(Q, N, pos, pos[m] - 1, NIL, c) /\ c \in E
      <4>1. NodeAt(Q, N, pos, pos[m] - 1, NIL, c)
        BY <2>1, Backwards, <1>2 DEF A
      <4>2. QED
        BY <1>1, <1>17, <2>2, <4>1
    <3> HIDE DEF c
    <3> DEFINE k == pos[m] - 1 - a
    <3>4. k \in Nat /\ k + 1 = pos[m] - a /\ pos[m] = (a + 1) + k /\ a + 1 \in Nat
      BY <2>4, <3>1
    <3>5. Consecutive(g[c], Q, pos, a + 1, k)
      <4>1. CASE c = NIL
        <5>1. pos[m] - 1 \notin 1..N
          BY <3>3, <4>1 DEF NodeAt
        <5>2. pos[m] = 1 /\ a = 0
          BY <1>15, <2>1, <2>4, <5>1
        <5>3. g[c] = <<>> /\ k = 0
          BY <1>2, <1>14, <4>1, <5>2
        <5>4. QED
          BY <1>16, <5>3
      <4>2. CASE c # NIL
        <5>1. c \in Q /\ pos[c] = pos[m] - 1
          BY <3>3, <4>2 DEF NodeAt
        <5>2. CASE pos[c] <= a
          <6>1. g[c] = <<>>
            BY <3>3, <5>1, <5>2
          <6>2. k = 0
            BY <2>4, <3>1, <5>1, <5>2
          <6>3. QED
            BY <1>16, <6>1, <6>2
        <5>3. CASE ~(pos[c] <= a)
          <6>1. Consecutive(g[c], Q, pos, a + 1, pos[c] - a)
            BY <3>3, <5>1, <5>3
          <6>2. pos[c] - a = k
            BY <3>1, <5>1
          <6>3. QED
            BY <6>1, <6>2
        <5>4. QED
          BY <5>2, <5>3
      <4>3. QED
        BY <4>1, <4>2
    <3> HIDE DEF k
    <3>6. Consecutive(Append(g[c], m), Q, pos, a + 1, k + 1)
      BY <2>1, <3>4, <3>5, OneMore
    <3>7. QED
      BY <2>4, <3>2, <3>4, <3>6
  <2>5. QED
    BY <2>3, <2>4
<1>18. A \subseteq E
  <2> HIDE DEF E
  <2>1. QED
    BY <1>2, <1>17, Ranked
<1>19. IF best = NIL THEN \A n \in Q : vr[n] > high
       ELSE best \in Q /\ vr[best] <= high /\ \A n \in Q : vr[n] <= high => pos[n] <= pos[best]
  <2>1. LET f2 == LastAtMost(t, vr, high) IN
        IF f2 = NIL THEN \A n \in Q : vr[n] > high
        ELSE f2 \in Q /\ vr[f2] <= high /\ \A n \in Q : vr[n] <= high => pos[n] <= pos[f2]
    BY LastAtMostIs
  <2>2. QED
    BY <2>1
<1> HIDE DEF best
<1>21. CASE best = NIL
  <2>1. g[best] = <<>>
    BY <1>2, <1>14, <1>21
  <2>2. b = 0
    <3>1. ASSUME b # 0 PROVE FALSE
      <4>1. PICK n \in Q : pos[n] = b
        BY <1>15, <3>1
      <4>2. vr[n] < high + 1 /\ vr[n] > high /\ vr[n] \in Nat
        BY <1>15, <1>19, <1>21, <4>1
      <4>3. QED
        BY <4>2
    <3>2. QED
      BY <3>1
  <2>3. b <= a
    BY <1>15, <2>2
  <2>4. QED
    BY <1>8, <2>1, <2>3
<1>22. CASE best # NIL
  <2>1. best \in Q /\ vr[best] <= high /\ \A n \in Q : vr[n] <= high => pos[n] <= pos[best]
    BY <1>19, <1>22
  <2>2. pos[best] = b
    <3>1. pos[best] <= b /\ pos[best] >= 1
      BY <1>15, <2>1
    <3>2. PICK n \in Q : pos[n] = b
      BY <1>15, <2>1, <3>1
    <3>3. vr[n] <= high
      BY <1>15, <3>2
    <3>4. b <= pos[best]
      BY <2>1, <3>2, <3>3
    <3>5. QED
      BY <1>15, <2>1, <3>1, <3>4
  <2>3. Goal(best)
    BY <1>2, <1>18, <2>1
  <2>4. QED
    BY <1>8, <2>2, <2>3
<1>23. QED
  BY <1>21, <1>22

-----------------------------------------------------------------------------
(* RBTreeDestroy.                                                          *)

(* s names the nodes of S once each, every one before its parent, which    *)
(* for the last is p.                                                      *)
Postorder(s, t, S, p) ==
  /\ s \in Seq(Addresses)
  /\ \A i, j \in 1..Len(s) : s[i] = s[j] => i = j
  /\ \A n \in S : \E i \in 1..Len(s) : s[i] = n
  /\ \A i \in 1..Len(s) : s[i] \in S
  /\ \A i \in 1..Len(s) :
       t.parent[s[i]] = p \/ \E j \in (i + 1)..Len(s) : t.parent[s[i]] = s[j]

(* Two separate trees below one node, one after the other.                 *)
LEMMA PostorderBoth ==
  ASSUME NEW t, NEW S, NEW R, NEW p, NEW l, NEW r,
         Postorder(l, t, S, p), Postorder(r, t, R, p), S \cap R = {}
  PROVE  Postorder(l \o r, t, S \cup R, p)
<1> DEFINE A == Addresses
           k == Len(l)
           j == Len(r)
           w == l \o r
<1>1. l \in Seq(A) /\ r \in Seq(A) /\ k \in Nat /\ j \in Nat
  BY DEF Postorder
<1>2. /\ w \in Seq(A) /\ Len(w) = k + j
      /\ \A i \in 1..k : w[i] = l[i]
      /\ \A i \in 1..j : w[k + i] = r[i]
  BY <1>1
<1>3. /\ \A i \in 1..k : l[i] \in S
      /\ \A i \in 1..j : r[i] \in R
      /\ \A i, h \in 1..k : l[i] = l[h] => i = h
      /\ \A i, h \in 1..j : r[i] = r[h] => i = h
      /\ \A n \in S : \E i \in 1..k : l[i] = n
      /\ \A n \in R : \E i \in 1..j : r[i] = n
  BY DEF Postorder
<1>4. /\ \A i \in 1..k : t.parent[l[i]] = p \/ \E h \in (i + 1)..k : t.parent[l[i]] = l[h]
      /\ \A i \in 1..j : t.parent[r[i]] = p \/ \E h \in (i + 1)..j : t.parent[r[i]] = r[h]
  BY DEF Postorder
<1> HIDE DEF w, k, j, A
<1>5. \A i \in 1..(k + j) : i \in 1..k \/ \E h \in 1..j : i = k + h
  <2>1. ASSUME NEW i \in 1..(k + j), ~(i \in 1..k) PROVE \E h \in 1..j : i = k + h
    <3>1. i - k \in 1..j /\ i = k + (i - k)
      BY <1>1, <2>1
    <3>2. QED
      BY <3>1
  <2>2. QED
    BY <2>1
<1>6. \A i \in 1..k : i \in 1..(k + j)
  BY <1>1
<1>7. \A i \in 1..j : k + i \in 1..(k + j)
  BY <1>1
<1>8. \A i, h \in 1..(k + j) : w[i] = w[h] => i = h
  <2> SUFFICES ASSUME NEW i \in 1..(k + j), NEW h \in 1..(k + j), w[i] = w[h] PROVE i = h
    OBVIOUS
  <2>1. CASE i \in 1..k /\ h \in 1..k
    BY <1>2, <1>3, <2>1
  <2>2. CASE i \in 1..k /\ h \notin 1..k
    <3>1. PICK g \in 1..j : h = k + g
      BY <1>5, <2>2
    <3>2. w[i] \in S /\ w[h] \in R
      BY <1>2, <1>3, <2>2, <3>1
    <3>3. QED
      BY <3>2
  <2>3. CASE i \notin 1..k /\ h \in 1..k
    <3>1. PICK g \in 1..j : i = k + g
      BY <1>5, <2>3
    <3>2. w[h] \in S /\ w[i] \in R
      BY <1>2, <1>3, <2>3, <3>1
    <3>3. QED
      BY <3>2
  <2>4. CASE i \notin 1..k /\ h \notin 1..k
    <3>1. PICK g \in 1..j : i = k + g
      BY <1>5, <2>4
    <3>2. PICK f \in 1..j : h = k + f
      BY <1>5, <2>4
    <3>3. r[g] = r[f]
      BY <1>2, <3>1, <3>2
    <3>4. QED
      BY <1>3, <3>1, <3>2, <3>3
  <2>5. QED
    BY <2>1, <2>2, <2>3, <2>4
<1>9. \A n \in S \cup R : \E i \in 1..(k + j) : w[i] = n
  <2>1. ASSUME NEW n \in S PROVE \E i \in 1..(k + j) : w[i] = n
    BY <1>2, <1>3, <1>6
  <2>2. ASSUME NEW n \in R PROVE \E i \in 1..(k + j) : w[i] = n
    <3>1. PICK i \in 1..j : r[i] = n
      BY <1>3
    <3>2. w[k + i] = n
      BY <1>2, <3>1
    <3>3. QED
      BY <1>7, <3>2
  <2>3. QED
    BY <2>1, <2>2
<1>10. \A i \in 1..(k + j) : w[i] \in S \cup R
  <2>1. ASSUME NEW i \in 1..k PROVE w[i] \in S
    BY <1>2, <1>3
  <2>2. ASSUME NEW i \in 1..j PROVE w[k + i] \in R
    BY <1>2, <1>3
  <2>3. QED
    BY <1>5, <2>1, <2>2
<1>11. \A i \in 1..(k + j) :
         t.parent[w[i]] = p \/ \E h \in (i + 1)..(k + j) : t.parent[w[i]] = w[h]
  <2>1. ASSUME NEW i \in 1..k, t.parent[w[i]] # p
        PROVE  \E h \in (i + 1)..(k + j) : t.parent[w[i]] = w[h]
    <3>1. PICK h \in (i + 1)..k : t.parent[l[i]] = l[h]
      BY <1>2, <1>4, <2>1
    <3>2. h \in 1..k /\ h \in (i + 1)..(k + j)
      BY <1>1, <3>1
    <3>3. t.parent[w[i]] = w[h]
      BY <1>2, <3>1, <3>2
    <3>4. QED
      BY <3>2, <3>3
  <2>2. ASSUME NEW i \in 1..j, t.parent[w[k + i]] # p
        PROVE  \E h \in (k + i + 1)..(k + j) : t.parent[w[k + i]] = w[h]
    <3>1. PICK h \in (i + 1)..j : t.parent[r[i]] = r[h]
      BY <1>2, <1>4, <2>2
    <3>2. h \in 1..j /\ k + h \in (k + i + 1)..(k + j)
      BY <1>1, <3>1
    <3>3. t.parent[w[k + i]] = w[k + h]
      BY <1>2, <3>1, <3>2
    <3>4. QED
      BY <3>2, <3>3
  <2>3. QED
    BY <1>5, <2>1, <2>2
<1>12. w \in Seq(Addresses) /\ Len(w) = k + j
  BY <1>2 DEF A
<1>13. Postorder(w, t, S \cup R, p)
  BY <1>8, <1>9, <1>10, <1>11, <1>12 DEF Postorder
<1>14. QED
  BY <1>13 DEF w

(* And then the node they hang from.                                       *)
LEMMA PostorderTop ==
  ASSUME NEW t, NEW S, NEW s, NEW m \in Addresses, Postorder(s, t, S, m), m \notin S
  PROVE  Postorder(Append(s, m), t, S \cup {m}, t.parent[m])
<1> DEFINE A == Addresses
           k == Len(s)
           w == Append(s, m)
<1>1. s \in Seq(A) /\ k \in Nat
  BY DEF Postorder
<1>2. /\ w \in Seq(A) /\ Len(w) = k + 1 /\ w[k + 1] = m
      /\ \A i \in 1..k : w[i] = s[i]
  BY <1>1
<1>3. /\ \A i \in 1..k : s[i] \in S
      /\ \A i, h \in 1..k : s[i] = s[h] => i = h
      /\ \A n \in S : \E i \in 1..k : s[i] = n
      /\ \A i \in 1..k : t.parent[s[i]] = m \/ \E h \in (i + 1)..k : t.parent[s[i]] = s[h]
  BY DEF Postorder
<1> HIDE DEF w, k, A
<1>4. \A i \in 1..(k + 1) : i \in 1..k \/ i = k + 1
  BY <1>1
<1>5. (\A i \in 1..k : i \in 1..(k + 1)) /\ k + 1 \in 1..(k + 1)
  BY <1>1
<1>6. \A i \in 1..(k + 1) : w[i] \in S \cup {m}
  BY <1>2, <1>3, <1>4
<1>7. \A i, h \in 1..(k + 1) : w[i] = w[h] => i = h
  <2>1. \A i \in 1..k : w[i] # w[k + 1]
    BY <1>2, <1>3
  <2>2. \A i, h \in 1..k : w[i] = w[h] => i = h
    BY <1>2, <1>3
  <2>3. QED
    BY <1>4, <2>1, <2>2
<1>8. \A n \in S \cup {m} : \E i \in 1..(k + 1) : w[i] = n
  BY <1>2, <1>3, <1>5
<1>9. \A i \in 1..(k + 1) :
        t.parent[w[i]] = t.parent[m] \/ \E h \in (i + 1)..(k + 1) : t.parent[w[i]] = w[h]
  <2>1. ASSUME NEW i \in 1..k
        PROVE  \E h \in (i + 1)..(k + 1) : t.parent[w[i]] = w[h]
    <3>1. CASE t.parent[s[i]] = m
      <4>1. k + 1 \in (i + 1)..(k + 1) /\ t.parent[w[i]] = w[k + 1]
        BY <1>1, <1>2, <3>1
      <4>2. QED
        BY <4>1
    <3>2. CASE t.parent[s[i]] # m
      <4>1. PICK h \in (i + 1)..k : t.parent[s[i]] = s[h]
        BY <1>3, <3>2
      <4>2. h \in 1..k /\ h \in (i + 1)..(k + 1)
        BY <1>1, <4>1
      <4>3. t.parent[w[i]] = w[h]
        BY <1>2, <4>1, <4>2
      <4>4. QED
        BY <4>2, <4>3
    <3>3. QED
      BY <3>1, <3>2
  <2>2. QED
    BY <1>2, <1>4, <2>1
<1>10. QED
  BY <1>2, <1>6, <1>7, <1>8, <1>9 DEF Postorder, w, A

(* The nodes of Q from m down. *)
Branch(Q, pos, lo, hi, m) ==
  IF m = NIL THEN {} ELSE {n \in Q : Under(pos, lo, hi, m, n)}

(* They are m, those on its left and those on its right.                   *)
LEMMA BranchSplits ==
  ASSUME NEW t, NEW Q, NEW N, NEW pos, NEW lo, NEW hi,
         Shaped(t, Q, N, pos, lo, hi), NEW m \in Q, NEW S, NEW R,
         S = Branch(Q, pos, lo, hi, t.left[m]), R = Branch(Q, pos, lo, hi, t.right[m])
  PROVE  /\ S \cap R = {} /\ m \notin S \cup R
         /\ Branch(Q, pos, lo, hi, m) = S \cup R \cup {m}
<1> DEFINE a == t.left[m]
           b == t.right[m]
<1>1. Spans(t, Q, pos, lo, hi, m) /\ NIL \notin Q
  BY TreeAssumption DEF Shaped, Numbered
<1>2. pos[m] \in Nat /\ lo[m] \in Nat /\ hi[m] \in Nat /\ lo[m] <= pos[m] /\ pos[m] <= hi[m]
  BY <1>1 DEF Spans
<1>3. \A n \in Q : pos[n] \in Nat /\ (pos[n] = pos[m] => n = m)
  BY DEF Shaped, Numbered
<1>4. /\ a = NIL => lo[m] = pos[m]
      /\ a # NIL => lo[a] = lo[m] /\ hi[a] = pos[m] - 1
      /\ b = NIL => hi[m] = pos[m]
      /\ b # NIL => lo[b] = pos[m] + 1 /\ hi[b] = hi[m]
  BY <1>1 DEF Spans
<1> HIDE DEF a, b
<1>5. \A n : n \in S <=> n \in Q /\ lo[m] <= pos[n] /\ pos[n] < pos[m]
  <2>1. S = Branch(Q, pos, lo, hi, a)
    BY DEF a
  <2>2. CASE a = NIL
    BY <1>2, <1>3, <1>4, <2>1, <2>2 DEF Branch
  <2>3. CASE a # NIL
    BY <1>2, <1>3, <1>4, <2>1, <2>3 DEF Branch, Under
  <2>4. QED
    BY <2>2, <2>3
<1>6. \A n : n \in R <=> n \in Q /\ pos[m] < pos[n] /\ pos[n] <= hi[m]
  <2>1. R = Branch(Q, pos, lo, hi, b)
    BY DEF b
  <2>2. CASE b = NIL
    BY <1>2, <1>3, <1>4, <2>1, <2>2 DEF Branch
  <2>3. CASE b # NIL
    BY <1>2, <1>3, <1>4, <2>1, <2>3 DEF Branch, Under
  <2>4. QED
    BY <2>2, <2>3
<1>7. \A n : n \in Branch(Q, pos, lo, hi, m) <=> n \in Q /\ lo[m] <= pos[n] /\ pos[n] <= hi[m]
  BY <1>1 DEF Branch, Under
<1>8. S \cap R = {} /\ m \notin S \cup R
  <2>1. \A n : ~(n \in S /\ n \in R)
    BY <1>2, <1>3, <1>5, <1>6
  <2>2. m \notin S /\ m \notin R
    BY <1>2, <1>5, <1>6
  <2>3. QED
    BY <2>1, <2>2
<1>9. \A n : n \in Branch(Q, pos, lo, hi, m) <=> n \in S \/ n \in R \/ n = m
  BY <1>2, <1>3, <1>5, <1>6, <1>7
<1>10. QED
  BY <1>8, <1>9

(* f names the nodes of Q and the sentinels once each, and every node of Q *)
(* before its parent.                                                      *)
FreedOnce(t, Q, f) ==
  /\ f \in Seq(Addresses)
  /\ \A i, j \in 1..Len(f) : f[i] = f[j] => i = j
  /\ \A n : (\E i \in 1..Len(f) : f[i] = n) <=> n \in Q \cup {ROOT, NIL}
  /\ \A i, j \in 1..Len(f) : f[i] \in Q /\ t.parent[f[i]] = f[j] => i < j

(* RBTreeDestroy is done with the pointers of a node when it frees it.     *)
THEOREM DestroyIs ==
  ASSUME NEW t, NEW Q, NEW N, NEW pos, NEW lo, NEW hi,
         Shaped(t, Q, N, pos, lo, hi), Clean(t, Q)
  PROVE  FreedOnce(t, Q, RBTreeDestroy(t))
<1> DEFINE A == Addresses
           V == Seq(A)
           D == Depth(Q, N, lo, hi)
           a(m) == t.left[m]
           b(m) == t.right[m]
           body(f, m) == IF m = NIL THEN <<>> ELSE f[t.left[m]] \o f[t.right[m]] \o <<m>>
           H == [m \in A |-> [f \in [A -> V] |-> body(f, m)]]
           Lists(f) == f = [m \in A |-> body(f, m)]
           g == CHOOSE f : Lists(f)
           top == t.left[ROOT]
<1>1. \A m \in A : /\ a(m) \in A /\ b(m) \in A
                   /\ m # NIL => D[a(m)] < D[m] /\ D[b(m)] < D[m]
  <2>1. ASSUME NEW m \in A, NEW s \in Sides
        PROVE  t[s][m] \in A /\ (m # NIL => D[t[s][m]] < D[m])
    BY Deeper
  <2>2. ASSUME NEW m \in A
        PROVE  /\ t["left"][m] \in A /\ t["right"][m] \in A
               /\ m # NIL => D[t["left"][m]] < D[m] /\ D[t["right"][m]] < D[m]
    <3>1. "left" \in Sides /\ "right" \in Sides
      BY DEF Sides
    <3>2. QED
      BY <2>1, <3>1
  <2>3. QED
    BY <2>2
<1>2. /\ D \in [A -> Nat] /\ Q \subseteq A /\ A # {} /\ NIL \in A /\ NIL \notin Q
      /\ ROOT \in A /\ ROOT \notin Q /\ ROOT # NIL
  BY Deeper, TreeAssumption DEF Shaped, Numbered, Addresses, Sides, Images
<1> HIDE DEF D, A
<1>3. ASSUME NEW m \in A, NEW f \in [A -> V] PROVE body(f, m) \in V
  <2>1. f[a(m)] \in V /\ f[b(m)] \in V
    BY <1>1, <1>2
  <2>2. QED
    BY <2>1
<1>4. ASSUME NEW m \in A, NEW f \in [A -> V], NEW f2 \in [A -> V],
             \A k \in A : D[k] < D[m] => f[k] = f2[k]
      PROVE  body(f, m) = body(f2, m)
  <2>1. m # NIL => f[a(m)] = f2[a(m)] /\ f[b(m)] = f2[b(m)]
    BY <1>1, <1>4
  <2>2. QED
    BY <2>1
<1>5. \A m \in A : \A f \in [A -> V] : H[m][f] = body(f, m)
  OBVIOUS
<1>6. \A f : Lists(f) => \A m \in A : f[m] = body(f, m)
  OBVIOUS
<1>7. \A f : f \in [A -> V] /\ (\A m \in A : f[m] = body(f, m)) => Lists(f)
  OBVIOUS
<1>8. RBTreeDestroy(t) = g[top] \o <<ROOT, NIL>>
  BY DEF RBTreeDestroy, A
<1>9. H \in [A -> [[A -> V] -> V]]
  BY <1>3
<1> HIDE DEF H, Lists
<1>10. Local(H, A, V, D)
  <2> HIDE DEF body, V
  <2>1. QED
    BY <1>4, <1>5 DEF Local
<1>20. V # {}
  <2>1. <<>> \in V
    OBVIOUS
  <2>2. QED
    BY <2>1
<1>11. PICK f : Defined(H, A, V, f)
  <2> HIDE DEF V
  <2>1. QED
    BY <1>2, <1>9, <1>10, <1>20, Recursion
<1>12. Lists(f)
  <2> HIDE DEF body, V
  <2>1. QED
    BY <1>5, <1>7, <1>11 DEF Defined
<1>13. Lists(g)
  BY <1>12
<1> HIDE DEF g
<1>14. \A m \in A : g[m] = body(g, m)
  BY <1>6, <1>13
<1>21. Postorder(<<>>, t, {}, ROOT) /\ \A p : Postorder(<<>>, t, {}, p)
  BY DEF Postorder
<1> DEFINE Goal(m) == IF m = NIL THEN g[m] = <<>>
                      ELSE Postorder(g[m], t, Branch(Q, pos, lo, hi, m), t.parent[m])
           E == {m \in A : m \in Q \cup {NIL} => Goal(m)}
<1>17. ASSUME NEW m \in A, \A k \in A : D[k] < D[m] => k \in E PROVE m \in E
  <2>1. CASE m = NIL
    BY <1>14, <2>1
  <2>2. CASE m \in Q
    <3>1. m # NIL /\ a(m) \in E /\ b(m) \in E
      BY <1>1, <1>2, <1>17, <2>2
    <3>2. Spans(t, Q, pos, lo, hi, m)
      BY <2>2 DEF Shaped
    <3>3. g[m] = g[a(m)] \o g[b(m)] \o <<m>>
      BY <1>14, <3>1
    <3> DEFINE S == Branch(Q, pos, lo, hi, t.left[m])
               R == Branch(Q, pos, lo, hi, t.right[m])
    <3>4. Postorder(g[a(m)], t, S, m)
      <4>1. CASE a(m) = NIL
        <5>1. g[a(m)] = <<>> /\ S = {}
          BY <3>1, <4>1 DEF Branch
        <5>2. QED
          BY <1>21, <5>1
      <4>2. CASE a(m) # NIL
        <5>1. a(m) \in Q /\ t.parent[a(m)] = m
          BY <3>2, <4>2 DEF Spans
        <5>2. Postorder(g[a(m)], t, Branch(Q, pos, lo, hi, a(m)), t.parent[a(m)])
          BY <3>1, <4>2, <5>1
        <5>3. QED
          BY <5>1, <5>2
      <4>3. QED
        BY <4>1, <4>2
    <3>5. Postorder(g[b(m)], t, R, m)
      <4>1. CASE b(m) = NIL
        <5>1. g[b(m)] = <<>> /\ R = {}
          BY <3>1, <4>1 DEF Branch
        <5>2. QED
          BY <1>21, <5>1
      <4>2. CASE b(m) # NIL
        <5>1. b(m) \in Q /\ t.parent[b(m)] = m
          BY <3>2, <4>2 DEF Spans
        <5>2. Postorder(g[b(m)], t, Branch(Q, pos, lo, hi, b(m)), t.parent[b(m)])
          BY <3>1, <4>2, <5>1
        <5>3. QED
          BY <5>1, <5>2
      <4>3. QED
        BY <4>1, <4>2
    <3>6. /\ S \cap R = {} /\ m \notin S \cup R
          /\ Branch(Q, pos, lo, hi, m) = S \cup R \cup {m}
      BY <2>2, BranchSplits
    <3> DEFINE l == g[a(m)]
               r == g[b(m)]
    <3> HIDE DEF l, r, S, R
    <3>7. Postorder(l, t, S, m) /\ Postorder(r, t, R, m)
      BY <3>4, <3>5 DEF l, r
    <3>8. Postorder(l \o r, t, S \cup R, m)
      BY <3>6, <3>7, PostorderBoth
    <3> DEFINE w == l \o r
    <3>9. w \in Seq(Addresses)
      BY <3>8 DEF Postorder
    <3>10. Postorder(w, t, S \cup R, m)
      BY <3>8
    <3> HIDE DEF w
    <3>11. Postorder(Append(w, m), t, S \cup R \cup {m}, t.parent[m])
      BY <3>6, <3>10, PostorderTop DEF A
    <3>12. w \o <<m>> = Append(w, m)
      BY <3>9
    <3>13. g[m] = w \o <<m>>
      BY <3>3 DEF w, l, r
    <3>14. Goal(m)
      BY <3>1, <3>6, <3>11, <3>12, <3>13
    <3>15. QED
      BY <3>14
  <2>3. CASE m \notin Q \cup {NIL}
    BY <2>3
  <2>4. QED
    BY <2>1, <2>2, <2>3
<1>18. A \subseteq E
  <2> HIDE DEF E
  <2>1. QED
    BY <1>2, <1>17, Ranked
<1>22. Postorder(g[top], t, Q, ROOT)
  <2>1. CASE top = NIL
    <3>1. Q = {} /\ g[top] = <<>>
      BY <1>2, <1>18, <2>1 DEF Shaped, TopSpans, Numbered
    <3>2. QED
      BY <1>21, <3>1
  <2>2. CASE top # NIL
    <3>1. top \in Q /\ t.parent[top] = ROOT /\ lo[top] = 1 /\ hi[top] = N
      BY <2>2 DEF Shaped, TopSpans
    <3>2. \A n \in Q : pos[n] \in 1..N /\ N \in Nat
      BY DEF Shaped, Numbered
    <3>3. Goal(top)
      BY <1>2, <1>18, <3>1
    <3> HIDE DEF top
    <3>4. Branch(Q, pos, lo, hi, top) = Q
      BY <2>2, <3>1, <3>2 DEF Branch, Under
    <3>5. QED
      BY <2>2, <3>1, <3>3, <3>4
  <2>3. QED
    BY <2>1, <2>2
<1> DEFINE s == g[top]
<1>23. Postorder(s, t, Q, ROOT) /\ RBTreeDestroy(t) = s \o <<ROOT, NIL>>
  BY <1>8, <1>22
<1> HIDE DEF s, V, top
<1>24. Postorder(Append(s, ROOT), t, Q \cup {ROOT}, t.parent[ROOT])
  BY <1>2, <1>23, PostorderTop DEF A
<1>25. t.parent[ROOT] = NIL
  BY DEF Shaped, Sentinels
<1> DEFINE s2 == Append(s, ROOT)
<1>26. Postorder(s2, t, Q \cup {ROOT}, NIL)
  BY <1>24, <1>25
<1>27. s \in Seq(Addresses)
  BY <1>23 DEF Postorder
<1>28. Append(s2, NIL) = s \o <<ROOT, NIL>>
  <2>1. NIL \in Addresses /\ ROOT \in Addresses
    BY <1>2 DEF A
  <2>2. QED
    BY <1>27, <2>1
<1> DEFINE k == Len(s2)
           w == Append(s2, NIL)
<1>29. s2 \in Seq(Addresses) /\ k \in Nat
  BY <1>26 DEF Postorder
<1>30. /\ w \in Seq(Addresses) /\ Len(w) = k + 1 /\ w[k + 1] = NIL
       /\ \A i \in 1..k : w[i] = s2[i]
  BY <1>2, <1>29 DEF s2, A
<1>31. /\ \A i, j \in 1..k : s2[i] = s2[j] => i = j
       /\ \A n \in Q \cup {ROOT} : \E i \in 1..k : s2[i] = n
       /\ \A i \in 1..k : s2[i] \in Q \cup {ROOT}
       /\ \A i \in 1..k : t.parent[s2[i]] = NIL \/ \E j \in (i + 1)..k : t.parent[s2[i]] = s2[j]
  BY <1>26 DEF Postorder
<1> HIDE DEF w, k, s2
<1>32. \A i \in 1..(k + 1) : i \in 1..k \/ i = k + 1
  BY <1>29
<1>33. (\A i \in 1..k : i \in 1..(k + 1)) /\ k + 1 \in 1..(k + 1)
  BY <1>29
<1>34. \A i \in 1..k : w[i] # NIL
  BY <1>2, <1>30, <1>31
<1>35. \A i, j \in 1..(k + 1) : w[i] = w[j] => i = j
  BY <1>30, <1>31, <1>32, <1>34
<1>36. \A n : (\E i \in 1..(k + 1) : w[i] = n) <=> n \in Q \cup {ROOT, NIL}
  <2>1. ASSUME NEW n, n \in Q \cup {ROOT, NIL} PROVE \E i \in 1..(k + 1) : w[i] = n
    BY <1>30, <1>31, <1>33, <2>1
  <2>2. \A i \in 1..(k + 1) : w[i] \in Q \cup {ROOT, NIL}
    BY <1>30, <1>31, <1>32
  <2>3. QED
    BY <2>1, <2>2
<1>37. ASSUME NEW i \in 1..(k + 1), NEW j \in 1..(k + 1), w[i] \in Q, t.parent[w[i]] = w[j]
       PROVE  i < j
  <2>1. i \in 1..k
    BY <1>2, <1>30, <1>32, <1>37
  <2>2. t.parent[w[i]] # NIL
    <3>1. Hangs(t, Q, w[i])
      BY <1>37 DEF Shaped
    <3>2. QED
      BY <1>2, <3>1 DEF Hangs
  <2>3. PICK h \in (i + 1)..k : t.parent[w[i]] = w[h]
    <3>1. PICK h \in (i + 1)..k : t.parent[s2[i]] = s2[h]
      BY <1>30, <1>31, <2>1, <2>2
    <3>2. h \in 1..k
      BY <1>29, <2>1, <3>1
    <3>3. QED
      BY <1>30, <2>1, <3>1, <3>2
  <2>4. h = j
    <3>1. h \in 1..(k + 1)
      BY <1>29, <2>1, <2>3
    <3>2. QED
      BY <1>35, <1>37, <2>3, <3>1
  <2>5. QED
    BY <2>1, <2>3, <2>4
<1>38. FreedOnce(t, Q, w)
  BY <1>30, <1>35, <1>36, <1>37 DEF FreedOnce
<1>39. QED
  BY <1>23, <1>28, <1>38 DEF w
=============================================================================
