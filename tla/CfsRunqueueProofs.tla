------------------------- MODULE CfsRunqueueProofs --------------------------
(***************************************************************************)
(* Proofs about CfsRunqueue and YieldRace, for any uthreads and vruntimes. *)
(*                                                                         *)
(* RunqueueInv says that there is one order, pos, that everything agrees   *)
(* with: the tree has it, vruntimes ascend along it, the cached minimum is *)
(* its first uthread, and num_threads is its length.  From this follow the *)
(* caches, the queries and the rules; and that the run queue is the fair   *)
(* queue, since insertion opens this order where the newcomer belongs      *)
(* (Opened) and removal closes it (Closed).                                *)
(*                                                                         *)
(* At the end, of YieldRace: in the middle of an insertion gt_yield's walk *)
(* without the lock meets no tree, but nobody else than the uthreads of    *)
(* one (RaceInv), and that is enough for it to yield to somebody.          *)
(***************************************************************************)
EXTENDS YieldRace, RedBlackWalkProofs, SequenceTheorems

(* m is what min should be for a tree of N nodes. *)
Cached(Q, N, pos, m) == IF N = 0 THEN m = Nil ELSE m \in Q /\ pos[m] = 1

(* The run queue holds the N uthreads of Q in the order pos. *)
Filed(Q, N, pos) ==
  /\ Q = Members /\ numThreads = N
  /\ Sound(tree, Q, N, pos) /\ Sorted(Q, pos, vruntime)
  /\ Cached(Q, N, pos, min)

(* What the scheduler may charge.                                          *)
Vruntimes == [Uthreads -> UNION {VruntimeOf[u] : u \in Uthreads}]

(* The inductive invariant: uthreads point to their own nodes or to none,  *)
(* and the tree, the cached minimum and the count are those of one sorted  *)
(* order.                                                                  *)
RunqueueInv ==
  /\ node \in [Uthreads -> Addresses] /\ \A u \in Uthreads : node[u] \in {u, NIL}
  /\ vruntime \in Vruntimes
  /\ \E Q, N, pos : Filed(Q, N, pos)

(* Vruntimes are natural numbers.                                          *)
LEMMA VruntimesNat == Vruntimes \subseteq [Uthreads -> Nat]
<1>1. \A u \in Uthreads : VruntimeOf[u] \subseteq Nat
  BY RunqueueAssumption
<1>2. UNION {VruntimeOf[u] : u \in Uthreads} \subseteq Nat
  BY <1>1
<1>3. QED
  BY <1>2 DEF Vruntimes

(* What being a red-black tree says of its shape.                          *)
LEMMA SoundNumbered ==
  ASSUME NEW t, NEW Q, NEW N, NEW pos, Sound(t, Q, N, pos)
  PROVE  /\ Numbered(Q, N, pos) /\ t \in Images /\ NIL \notin Q /\ ROOT \notin Q
         /\ HasShape(t, Q, N, pos) /\ Clean(t, Q)
BY TreeAssumption DEF Sound, HasShape, Shaped, Numbered

(* RBTreeCreate makes a red-black tree without nodes.                      *)
LEMMA EmptySound ==
  /\ Sound(EmptyTree, {}, 0, [n \in {} |-> 0])
  /\ EmptyTree \in Images
<1> DEFINE t == EmptyTree
           pos == [n \in {} |-> 0]
           bh == [n \in {NIL} |-> 1]
<1>1. NIL \in Addresses /\ ROOT \in Addresses /\ Uthreads \subseteq Addresses
      /\ NIL \notin Uthreads /\ ROOT \notin Uthreads /\ NIL # ROOT
  BY TreeAssumption DEF Addresses
<1>2. /\ t.left = [n \in Addresses |-> NIL] /\ t.right = [n \in Addresses |-> NIL]
      /\ t.parent = [n \in Addresses |-> NIL] /\ t.red = [n \in Addresses |-> 0]
      /\ t.key = [n \in Uthreads |-> n]
  BY DEF EmptyTree
<1>3. t \in Images
  BY <1>1 DEF EmptyTree, Images
<1>4. Numbered({}, 0, pos)
  BY DEF Numbered
<1>5. Shaped(t, {}, 0, pos, pos, pos)
  <2> HIDE DEF t
  <2>1. Spanned({}, 0, pos, pos)
    BY DEF Spanned
  <2>2. TopSpans(t, {}, 0, pos, pos)
    BY <1>1, <1>2 DEF TopSpans
  <2>3. Sentinels(t)
    BY <1>1, <1>2 DEF Sentinels
  <2>4. QED
    BY <1>3, <1>4, <2>1, <2>2, <2>3 DEF Shaped
<1>6. Clean(t, {})
  <2> HIDE DEF t
  <2>1. QED
    BY <1>1, <1>2 DEF Clean
<1>7. Coloured(t, t.red, {}, bh)
  <2> HIDE DEF t
  <2>1. bh \in [{} \cup {NIL} -> Nat \ {0}] /\ bh[NIL] = 1
    OBVIOUS
  <2>2. QED
    BY <1>1, <1>2, <2>1 DEF Coloured, Heights
<1>8. QED
  BY <1>3, <1>5, <1>6, <1>7 DEF Sound, HasShape

(* An operation that begins with the image t begins with a history.        *)
LEMMA OneImage ==
  ASSUME NEW t \in Images
  PROVE  <<t>> \in Histories /\ Last(<<t>>) = t
BY DEF Histories, Last

(* A new run queue is in order.                                            *)
LEMMA RunqueueInit == Init => RunqueueInv
<1> SUFFICES ASSUME Init PROVE RunqueueInv
  OBVIOUS
<1> DEFINE pos == [n \in {} |-> 0]
<1>1. Members = {} /\ node \in [Uthreads -> Addresses] /\ \A u \in Uthreads : node[u] \in {u, NIL}
  BY DEF Init, Members, Queued, Addresses
<1>2. Sound(tree, {}, 0, pos)
  BY EmptySound DEF Init
<1>3. Sorted({}, pos, vruntime)
  BY DEF Sorted
<1> HIDE DEF pos
<1>4. Filed({}, 0, pos)
  BY <1>1, <1>2, <1>3 DEF Filed, Init, Cached
<1>5. QED
  BY <1>1, <1>4 DEF RunqueueInv, Init, Vruntimes

-----------------------------------------------------------------------------
(* add_to_cfs_runqueue files the newcomer behind all that go before it.    *)
Added(Q, N, pos, u, k) ==
  /\ k \in 1..(N + 1) /\ Parted(Q, pos, vruntime, vruntime[u], k - 1, k)
  /\ Filed(Q \cup {u}, N + 1, Opened(Q, pos, u, k))'

(* It does, and u was not queued.                                          *)
LEMMA AddFiles ==
  ASSUME RunqueueInv, NEW Q, NEW N, NEW pos, Filed(Q, N, pos),
         NEW u \in Uthreads, Add(u)
  PROVE  u \notin Q /\ \E k : Added(Q, N, pos, u, k)
<1>1. /\ Q = Members /\ numThreads = N
      /\ Sound(tree, Q, N, pos) /\ Sorted(Q, pos, vruntime) /\ Cached(Q, N, pos, min)
  BY DEF Filed
<1>2. Numbered(Q, N, pos) /\ tree \in Images
  BY <1>1, SoundNumbered
<1>3. vruntime \in [Uthreads -> Nat] /\ vruntime' = vruntime
  BY VruntimesNat DEF RunqueueInv, Add
<1>4. u \notin Q
  BY <1>1 DEF Add, Members
<1> DEFINE t2 == Last(RBTreeInsert(<<tree>>, vruntime, u))
<1>5. \E k : Joins(t2, Q, N, pos, vruntime, u, k)
  <2>1. /\ <<tree>> \in Histories /\ Last(<<tree>>) = tree
        /\ Walkable(<<tree>>, Q \cup {u})
    BY <1>1, <1>2, OneImage, OneWalks
  <2>2. Sound(Last(<<tree>>), Q, N, pos)
    BY <1>1, <2>1
  <2>3. QED
    BY <1>1, <1>3, <1>4, <2>1, <2>2, InsertJoins
<1>6. tree' = t2
  BY DEF Add
<1> HIDE DEF t2
<1>7. PICK k : Joins(t2, Q, N, pos, vruntime, u, k)
  BY <1>5
<1>8. /\ k \in 1..(N + 1) /\ Sound(tree', Q \cup {u}, N + 1, Opened(Q, pos, u, k))
      /\ Parted(Q, pos, vruntime, vruntime[u], k - 1, k)
  BY <1>6, <1>7 DEF Joins
<1>9. Sorted(Q \cup {u}, Opened(Q, pos, u, k), vruntime')
  BY <1>1, <1>2, <1>3, <1>4, <1>8, OpenedSorted
<1>10. Members' = Q \cup {u}
  BY <1>1, TreeAssumption DEF Add, Members, Queued, RunqueueInv, Addresses
<1>11. numThreads' = N + 1
  BY <1>1 DEF Add
<1>12. Cached(Q \cup {u}, N + 1, Opened(Q, pos, u, k), min')
  <2>1. N \in Nat /\ N + 1 # 0 /\ \A n \in Q : pos[n] \in 1..N
    BY <1>2 DEF Numbered
  <2> DEFINE p == Opened(Q, pos, u, k)
  <2>2. p[u] = k /\ \A n \in Q : p[n] = IF pos[n] >= k THEN pos[n] + 1 ELSE pos[n]
    BY <1>4 DEF Opened
  <2> HIDE DEF p
  <2>3. min' \in Q \cup {u} /\ p[min'] = 1
    <3>1. CASE N = 0
      <4>1. min = Nil
        BY <1>1, <3>1 DEF Cached
      <4>2. min' = u /\ k = 1
        BY <1>8, <3>1, <4>1 DEF Add
      <4>3. QED
        BY <2>2, <4>2
    <3>2. CASE N # 0
      <4>1. min \in Q /\ pos[min] = 1
        BY <1>1, <3>2 DEF Cached
      <4>2. min # Nil /\ min \in Uthreads
        BY <1>2, <4>1, TreeAssumption DEF Numbered
      <4>3. min' = IF vruntime[min] > vruntime[u] THEN u ELSE min
        BY <4>2 DEF Add, Earlier
      <4>4. CASE k = 1
        <5>1. vruntime[min] > vruntime[u]
          BY <1>8, <4>1, <4>4 DEF Parted
        <5>2. QED
          BY <2>2, <4>3, <4>4, <5>1
      <4>5. CASE k # 1
        <5>1. k \in Nat /\ 1 <= k - 1
          BY <1>8, <2>1, <4>5
        <5>2. vruntime[min] <= vruntime[u]
          BY <1>8, <4>1, <5>1 DEF Parted
        <5>3. min' = min
          BY <1>3, <4>2, <4>3, <5>2
        <5>4. p[min] = 1
          BY <2>2, <4>1, <5>1
        <5>5. QED
          BY <4>1, <5>3, <5>4
      <4>6. QED
        BY <4>4, <4>5
    <3>3. QED
      BY <3>1, <3>2
  <2>4. QED
    BY <2>1, <2>3 DEF Cached, p
<1>13. Filed(Q \cup {u}, N + 1, Opened(Q, pos, u, k))'
  BY <1>8, <1>9, <1>10, <1>11, <1>12 DEF Filed
<1>14. Added(Q, N, pos, u, k)
  BY <1>8, <1>13 DEF Added
<1>15. QED
  BY <1>4, <1>14

(* The successor that remove_from_cfs_runqueue makes the minimum.          *)
LEMMA SuccessorIs ==
  ASSUME NEW t, NEW Q, NEW N, NEW pos, Sound(t, Q, N, pos), NEW u \in Q
  PROVE  NodeAt(Q, N, pos, pos[u] + 1, NIL, TreeSuccessor(t, u))
<1>1. HasShape(t, Q, N, pos) /\ Clean(t, Q) /\ "right" \in Sides
  BY SoundNumbered DEF Sides
<1>2. NodeAt(Q, N, pos, IF "right" = "left" THEN pos[u] - 1 ELSE pos[u] + 1, NIL,
             Neighbour(t, u, "right"))
  BY <1>1, NeighbourIs
<1>3. QED
  BY <1>2 DEF TreeSuccessor

(* remove_from_cfs_runqueue takes u out of the order, and the new minimum  *)
(* is the next one's.                                                      *)
LEMMA RemoveFiles ==
  ASSUME RunqueueInv, NEW Q, NEW N, NEW pos, Filed(Q, N, pos),
         NEW u \in Q, RemoveUthread(u, min)
  PROVE  Filed(Q \ {u}, N - 1, Closed(Q, pos, u))'
<1>1. /\ Q = Members /\ numThreads = N
      /\ Sound(tree, Q, N, pos) /\ Sorted(Q, pos, vruntime) /\ Cached(Q, N, pos, min)
  BY DEF Filed
<1>2. Numbered(Q, N, pos) /\ tree \in Images /\ NIL \notin Q /\ Clean(tree, Q)
  BY <1>1, SoundNumbered
<1>3. u \in Uthreads /\ node[u] = u
  BY <1>1 DEF Members, Queued, RunqueueInv
<1>4. tree' = Last(RBDelete(<<tree>>, u)) /\ vruntime' = vruntime /\ numThreads' = N - 1
      /\ node' = [node EXCEPT ![u] = NIL]
  BY <1>1, <1>3 DEF RemoveUthread, Fewer
<1>5. Sound(tree', Q \ {u}, N - 1, Closed(Q, pos, u))
  <2>1. <<tree>> \in Histories /\ Last(<<tree>>) = tree
    BY <1>2, OneImage
  <2>2. Sound(Last(<<tree>>), Q, N, pos)
    BY <1>1, <2>1
  <2>3. QED
    BY <1>4, <2>1, <2>2, DeleteSound
<1>6. Sorted(Q \ {u}, Closed(Q, pos, u), vruntime')
  BY <1>1, <1>2, <1>4, ClosedSorted
<1>7. Members' = Q \ {u}
  BY <1>1, <1>4 DEF Members, Queued, RunqueueInv
<1>8. Cached(Q \ {u}, N - 1, Closed(Q, pos, u), min')
  <2> DEFINE next == TreeSuccessor(tree, u)
             p == Closed(Q, pos, u)
  <2>1. min' = IF min # u THEN min ELSE IF next = NIL THEN Nil ELSE tree.key[next]
    BY <1>3 DEF RemoveUthread, NextAfter
  <2>2. NodeAt(Q, N, pos, pos[u] + 1, NIL, next)
    BY <1>1, SuccessorIs
  <2>3. \A n \in Q \ {u} : p[n] = IF pos[n] > pos[u] THEN pos[n] - 1 ELSE pos[n]
    BY DEF Closed
  <2> HIDE DEF next, p
  <2>4. /\ N \in Nat /\ N # 0 /\ \A n \in Q : pos[n] \in 1..N
        /\ \A m, n \in Q : pos[m] = pos[n] => m = n
    BY <1>2 DEF Numbered
  <2>5. min \in Q /\ pos[min] = 1
    BY <1>1, <2>4 DEF Cached
  <2>6. CASE min # u
    <3>1. pos[u] > 1 /\ N - 1 # 0
      BY <2>4, <2>5, <2>6
    <3>2. min' \in Q \ {u} /\ p[min'] = 1
      BY <2>1, <2>3, <2>4, <2>5, <2>6, <3>1
    <3>3. QED
      BY <3>1, <3>2 DEF Cached, p
  <2>7. CASE min = u /\ next = NIL
    <3>1. N - 1 = 0
      BY <2>2, <2>4, <2>5, <2>7 DEF NodeAt
    <3>2. QED
      BY <2>1, <2>7, <3>1 DEF Cached
  <2>8. CASE min = u /\ next # NIL
    <3>1. next \in Q /\ pos[next] = 2
      BY <2>2, <2>5, <2>8 DEF NodeAt
    <3>2. next # u /\ N - 1 # 0 /\ p[next] = 1
      BY <2>3, <2>4, <2>5, <2>8, <3>1
    <3>3. min' = next
      BY <1>2, <2>1, <2>8, <3>1 DEF Clean, Numbered
    <3>4. QED
      BY <3>1, <3>2, <3>3 DEF Cached, p
  <2>9. QED
    BY <2>6, <2>7, <2>8
<1>9. QED
  BY <1>4, <1>5, <1>6, <1>7, <1>8 DEF Filed

(* get_best_thread finds min, which is there when anybody is.              *)
LEMMA BestIsMin ==
  ASSUME RunqueueInv, NEW Q, NEW N, NEW pos, Filed(Q, N, pos), GetBestThread # Nil
  PROVE  min \in Q /\ pos[min] = 1 /\ N # 0 /\ GetBestThread = min
<1>1. Sound(tree, Q, N, pos) /\ Cached(Q, N, pos, min)
  BY DEF Filed
<1>2. N # 0
  <2>1. SUFFICES ASSUME N = 0 PROVE FALSE
    OBVIOUS
  <2>2. PICK lo, hi : Shaped(tree, Q, N, pos, lo, hi)
    BY <1>1 DEF Sound, HasShape
  <2>3. tree.left[ROOT] = NIL
    BY <2>1, <2>2 DEF Shaped, TopSpans, Numbered
  <2>4. min = Nil
    BY <1>1, <2>1 DEF Cached
  <2>5. QED
    BY <2>3, <2>4 DEF GetBestThread, Endmost
<1>3. min \in Q /\ pos[min] = 1
  BY <1>1, <1>2 DEF Cached
<1>4. min # Nil
  BY <1>1, <1>3, SoundNumbered, TreeAssumption DEF Numbered
<1>5. QED
  BY <1>2, <1>3, <1>4 DEF GetBestThread

(* Nothing but the vruntime of a uthread that is not queued.               *)
LEMMA ChargeFiles ==
  ASSUME RunqueueInv, NEW Q, NEW N, NEW pos, Filed(Q, N, pos),
         NEW u \in Uthreads, Charge(u)
  PROVE  Filed(Q, N, pos)'
<1>1. /\ Q = Members /\ numThreads = N
      /\ Sound(tree, Q, N, pos) /\ Sorted(Q, pos, vruntime) /\ Cached(Q, N, pos, min)
  BY DEF Filed
<1>2. /\ tree' = tree /\ node' = node /\ min' = min /\ numThreads' = numThreads
      /\ u \notin Q /\ \E v : vruntime' = [vruntime EXCEPT ![u] = v]
  BY <1>1 DEF Charge, Members
<1>3. Q \subseteq Uthreads
  BY <1>1 DEF Members
<1>4. Sorted(Q, pos, vruntime')
  BY <1>1, <1>2, <1>3 DEF Sorted, RunqueueInv, Vruntimes
<1>5. Members' = Members
  BY <1>2 DEF Members, Queued
<1>6. QED
  BY <1>1, <1>2, <1>4, <1>5 DEF Filed

(* Every operation keeps the run queue in order.                           *)
LEMMA RunqueueStep == RunqueueInv /\ [Next]_vars => RunqueueInv'
<1> SUFFICES ASSUME RunqueueInv, [Next]_vars PROVE RunqueueInv'
  OBVIOUS
<1>1. PICK Q, N, pos : Filed(Q, N, pos)
  BY DEF RunqueueInv
<1>2. /\ node \in [Uthreads -> Addresses] /\ \A u \in Uthreads : node[u] \in {u, NIL}
      /\ vruntime \in Vruntimes
  BY DEF RunqueueInv
<1>3. Uthreads \subseteq Addresses /\ NIL \in Addresses
  BY DEF Addresses
<1>4. ASSUME NEW u \in Uthreads, Add(u) PROVE RunqueueInv'
  <2>1. \E k : Added(Q, N, pos, u, k)
    BY <1>1, <1>4, AddFiles
  <2>2. (\E R, M, p : Filed(R, M, p))'
    BY <2>1 DEF Added
  <2>3. node' = [node EXCEPT ![u] = u] /\ vruntime' = vruntime
    BY <1>4 DEF Add
  <2>4. QED
    BY <1>2, <1>3, <2>2, <2>3 DEF RunqueueInv, Vruntimes
<1>5. ASSUME NEW u \in Q, RemoveUthread(u, min) PROVE RunqueueInv'
  <2>1. (\E R, M, p : Filed(R, M, p))'
    BY <1>1, <1>5, RemoveFiles
  <2>2. node' = [node EXCEPT ![u] = NIL] /\ vruntime' = vruntime
    BY <1>5 DEF RemoveUthread
  <2>3. QED
    BY <1>2, <1>3, <2>1, <2>2 DEF RunqueueInv, Vruntimes
<1>6. CASE RemoveBest
  <2>1. GetBestThread # Nil
    BY <1>6 DEF RemoveBest
  <2>2. min \in Q /\ GetBestThread = min
    BY <1>1, <2>1, BestIsMin
  <2>3. RemoveUthread(min, min)
    BY <1>6, <2>2 DEF RemoveBest
  <2>4. QED
    BY <1>5, <2>2, <2>3
<1>7. ASSUME NEW u \in Uthreads, RemoveByName(u) PROVE RunqueueInv'
  <2>1. u \in Q /\ RemoveUthread(u, min)
    BY <1>1, <1>7 DEF RemoveByName, Filed, Members
  <2>2. QED
    BY <1>5, <2>1
<1>8. ASSUME NEW u \in Uthreads, Charge(u) PROVE RunqueueInv'
  <2>1. (\E R, M, p : Filed(R, M, p))'
    BY <1>1, <1>8, ChargeFiles
  <2>2. PICK v \in VruntimeOf[u] : vruntime' = [vruntime EXCEPT ![u] = v]
    BY <1>8 DEF Charge
  <2>3. v \in UNION {VruntimeOf[w] : w \in Uthreads}
    BY <2>2
  <2>4. node' = node
    BY <1>8 DEF Charge
  <2>5. QED
    BY <1>2, <2>1, <2>2, <2>3, <2>4 DEF RunqueueInv, Vruntimes
<1>9. CASE UNCHANGED vars
  <2>1. Filed(Q, N, pos)'
    BY <1>1, <1>9 DEF Filed, vars, Members, Queued
  <2>2. QED
    BY <1>2, <1>9, <2>1 DEF RunqueueInv, vars, Vruntimes
<1>10. QED
  BY <1>4, <1>6, <1>7, <1>8, <1>9 DEF Next

(* The run queue is in order at all times: the tree is a sorted red-black  *)
(* tree of the queued uthreads, min its first one and num_threads their    *)
(* number.                                                                 *)
THEOREM RunqueueInvariant == Spec => []RunqueueInv
BY RunqueueInit, RunqueueStep, PTL DEF Spec

-----------------------------------------------------------------------------
(* An ordered run queue has the right types.                               *)
LEMMA InvTypes == RunqueueInv => TypeOK
<1> SUFFICES ASSUME RunqueueInv PROVE TypeOK
  OBVIOUS
<1>1. PICK Q, N, pos : Filed(Q, N, pos)
  BY DEF RunqueueInv
<1>2. Sound(tree, Q, N, pos) /\ Cached(Q, N, pos, min) /\ numThreads = N
  BY <1>1 DEF Filed
<1>3. Numbered(Q, N, pos) /\ tree \in Images
  BY <1>2, SoundNumbered
<1>4. numThreads \in 0..Cardinality(Uthreads)
  BY <1>2, <1>3, NumberedCount
<1>5. min \in Uthreads \cup {Nil}
  BY <1>2, <1>3 DEF Cached, Numbered
<1>6. node \in [Uthreads -> Uthreads \cup {NIL}]
  BY DEF RunqueueInv
<1>7. vruntime \in [Uthreads -> UNION {VruntimeOf[u] : u \in Uthreads}]
  BY DEF RunqueueInv, Vruntimes
<1>8. QED
  BY <1>3, <1>4, <1>5, <1>6, <1>7 DEF TypeOK

(* Every variable of the run queue keeps its type, and num_threads stays   *)
(* between 0 and the number of uthreads.                                   *)
THEOREM RunqueueTypes == Spec => []TypeOK
BY RunqueueInvariant, InvTypes, PTL

(* The keys of a tree in order are its nodes in order. *)
Listed(t) == [i \in DOMAIN TreeNodes(t) |-> t.key[TreeNodes(t)[i]]]

(* A node's key is the uthread it was made for, so they are the nodes.     *)
LEMMA ListedNodes ==
  ASSUME NEW t, NEW Q, NEW N, NEW pos, Sound(t, Q, N, pos)
  PROVE  /\ Listed(t) = TreeNodes(t)
         /\ Consecutive(Listed(t), Q, pos, 1, N)
<1>1. HasShape(t, Q, N, pos) /\ Clean(t, Q) /\ Q \subseteq Uthreads
  BY SoundNumbered DEF Numbered
<1> DEFINE s == TreeNodes(t)
<1>2. Consecutive(s, Q, pos, 1, N)
  BY <1>1, TreeNodesAre
<1>3. s \in Seq(Q)
  BY <1>2 DEF Consecutive
<1> HIDE DEF s
<1>4. \A i \in DOMAIN s : t.key[s[i]] = s[i]
  BY <1>1, <1>3 DEF Clean
<1>5. [i \in DOMAIN s |-> t.key[s[i]]] = s
  BY <1>3, <1>4
<1>6. QED
  BY <1>2, <1>5 DEF Listed, s

(* An ordered run queue has the right caches.                              *)
LEMMA InvCaches == RunqueueInv => CachesAgree
<1> SUFFICES ASSUME RunqueueInv PROVE CachesAgree
  OBVIOUS
<1>1. PICK Q, N, pos : Filed(Q, N, pos)
  BY DEF RunqueueInv
<1>2. Sound(tree, Q, N, pos) /\ Cached(Q, N, pos, min) /\ numThreads = N
  BY <1>1 DEF Filed
<1>3. PICK lo, hi : Shaped(tree, Q, N, pos, lo, hi)
  BY <1>2 DEF Sound, HasShape
<1>4. Numbered(Q, N, pos) /\ Clean(tree, Q) /\ NIL \notin Q
  BY <1>2, SoundNumbered
<1>5. numThreads = Len(Keys)
  <2>1. Consecutive(Listed(tree), Q, pos, 1, N)
    BY <1>2, ListedNodes
  <2>2. Listed(tree) = Keys
    BY DEF Listed, Keys
  <2>3. QED
    BY <1>2, <2>1, <2>2 DEF Consecutive
<1>6. min = Endmost("left")
  <2> DEFINE top == tree.left[ROOT]
             far == Farthest(tree, top, "left")
  <2>1. CASE top = NIL
    <3>1. N = 0
      BY <1>3, <2>1 DEF Shaped, TopSpans
    <3>2. QED
      BY <1>2, <2>1, <3>1 DEF Cached, Endmost
  <2>2. CASE top # NIL
    <3>1. top \in Q /\ lo[top] = 1
      BY <1>3, <2>2 DEF Shaped, TopSpans
    <3>2. Endmost("left") = tree.key[far]
      BY <2>2 DEF Endmost
    <3> HIDE DEF top
    <3>3. far \in Q /\ pos[far] = Bound("left", lo, hi, top)
      <4>1. "left" \in Sides
        BY DEF Sides
      <4>2. QED
        BY <1>3, <1>4, <3>1, <4>1, FarthestIs
    <3>4. pos[far] = 1
      BY <3>1, <3>3 DEF Bound
    <3> HIDE DEF far
    <3>5. N # 0
      BY <1>4, <3>3 DEF Numbered
    <3>6. min \in Q /\ pos[min] = 1
      BY <1>2, <3>5 DEF Cached
    <3>7. min = far
      BY <1>4, <3>3, <3>4, <3>6 DEF Numbered
    <3>8. tree.key[far] = far
      BY <1>4, <3>3 DEF Clean, Numbered
    <3>9. QED
      BY <3>2, <3>7, <3>8
  <2>3. QED
    BY <2>1, <2>2
<1>7. QED
  BY <1>5, <1>6 DEF CachesAgree

(* min is the leftmost uthread, and num_threads is how many there are.     *)
THEOREM CachesStayRight == Spec => []CachesAgree
BY RunqueueInvariant, InvCaches, PTL

(* A list of all N nodes in order has each at its number.                  *)
LEMMA ConsecutiveHas ==
  ASSUME NEW Q, NEW N, NEW pos, Numbered(Q, N, pos), NEW s, Consecutive(s, Q, pos, 1, N)
  PROVE  /\ \A n : Contains(s, n) <=> n \in Q
         /\ s \in Seq(Q) /\ Len(s) = N /\ DOMAIN s = 1..N /\ N \in Nat
         /\ \A i \in 1..N : s[i] \in Q /\ pos[s[i]] = i
         /\ \A n \in Q : pos[n] \in 1..N /\ s[pos[n]] = n
<1>1. s \in Seq(Q) /\ Len(s) = N /\ N \in Nat /\ DOMAIN s = 1..N
  BY DEF Consecutive, Numbered
<1>2. \A i \in 1..N : s[i] \in Q /\ pos[s[i]] = i
  <2>1. ASSUME NEW i \in 1..N PROVE s[i] \in Q /\ pos[s[i]] = i
    <3>1. pos[s[i]] = 1 + i - 1 /\ s[i] \in Q
      BY <1>1 DEF Consecutive
    <3>2. QED
      BY <3>1
  <2>2. QED
    BY <2>1
<1>3. \A n \in Q : pos[n] \in 1..N /\ s[pos[n]] = n
  BY <1>2 DEF Numbered
<1>4. \A n : Contains(s, n) <=> n \in Q
  BY <1>1, <1>2, <1>3 DEF Contains
<1>5. QED
  BY <1>1, <1>2, <1>3, <1>4

(* In an ordered run queue nodes are their uthreads' own.                  *)
LEMMA InvNodes == RunqueueInv => NodeStaysValid
<1> SUFFICES ASSUME RunqueueInv PROVE NodeStaysValid
  OBVIOUS
<1>1. PICK Q, N, pos : Filed(Q, N, pos)
  BY DEF RunqueueInv
<1>2. Sound(tree, Q, N, pos) /\ Q = Members
  BY <1>1 DEF Filed
<1>3. Numbered(Q, N, pos) /\ Clean(tree, Q) /\ NIL \notin Q
  BY <1>2, SoundNumbered
<1>4. \A n : Contains(TreeNodes(tree), n) <=> n \in Q
  BY <1>2, <1>3, ListedNodes, ConsecutiveHas
<1>5. ASSUME NEW u \in Uthreads
      PROVE  /\ Queued(u) <=> Contains(TreeNodes(tree), node[u])
             /\ Queued(u) => tree.key[node[u]] = u
  <2>1. CASE node[u] = NIL
    BY <1>3, <1>4, <2>1 DEF Queued
  <2>2. CASE node[u] = u
    <3>1. Queued(u)
      BY <2>2, TreeAssumption DEF Queued
    <3>2. u \in Q /\ tree.key[u] = u
      BY <1>2, <1>3, <3>1 DEF Members, Clean
    <3>3. QED
      BY <1>4, <2>2, <3>1, <3>2
  <2>3. QED
    BY <2>1, <2>2 DEF RunqueueInv
<1>6. QED
  BY <1>5 DEF NodeStaysValid

(* A uthread's node pointer stays its own, whoever else comes and goes.    *)
THEOREM NodesStayValid == Spec => []NodeStaysValid
BY RunqueueInvariant, InvNodes, PTL

(* In an ordered run queue parent pointers are right.                      *)
LEMMA InvParents == RunqueueInv => ParentsAgree
<1> SUFFICES ASSUME RunqueueInv PROVE ParentsAgree
  OBVIOUS
<1>1. PICK Q, N, pos : Filed(Q, N, pos)
  BY DEF RunqueueInv
<1>2. PICK lo, hi : Shaped(tree, Q, N, pos, lo, hi)
  BY <1>1 DEF Filed, Sound, HasShape
<1>3. {node[u] : u \in {w \in Uthreads : Queued(w)}} = Q
  BY <1>1 DEF Filed, Members, Queued, RunqueueInv
<1>4. ASSUME NEW n \in Q
      PROVE  /\ n \in {tree.left[tree.parent[n]], tree.right[tree.parent[n]]}
             /\ \A c \in {tree.left[n], tree.right[n]} \ {NIL} : tree.parent[c] = n
  <2>1. Hangs(tree, Q, n) /\ Spans(tree, Q, pos, lo, hi, n)
    BY <1>2 DEF Shaped
  <2>2. n \in {tree.left[tree.parent[n]], tree.right[tree.parent[n]]}
    BY <2>1 DEF Hangs
  <2>3. \A c \in {tree.left[n], tree.right[n]} \ {NIL} : tree.parent[c] = n
    BY <2>1 DEF Spans
  <2>4. QED
    BY <2>2, <2>3
<1>5. QED
  BY <1>3, <1>4 DEF ParentsAgree

(* Every node hangs from the node its parent pointer leads to.             *)
THEOREM ParentsStayRight == Spec => []ParentsAgree
BY RunqueueInvariant, InvParents, PTL

(* In an ordered run queue the red-black rules hold.                       *)
LEMMA InvColours == RunqueueInv => RedBlackRules
<1> SUFFICES ASSUME RunqueueInv PROVE RedBlackRules
  OBVIOUS
<1>1. PICK Q, N, pos : Filed(Q, N, pos)
  BY DEF RunqueueInv
<1>2. Sound(tree, Q, N, pos) /\ Q = Members
  BY <1>1 DEF Filed
<1>3. PICK lo, hi : Shaped(tree, Q, N, pos, lo, hi)
  BY <1>2 DEF Sound, HasShape
<1>4. PICK bh : Coloured(tree, tree.red, Q, bh)
  BY <1>2 DEF Sound
<1>5. Clean(tree, Q) /\ NIL \notin Q /\ ROOT \notin Q
  BY <1>2, SoundNumbered
<1>6. \A n \in {NIL, ROOT, tree.left[ROOT]} : tree.red[n] = 0
  BY <1>4 DEF Coloured
<1>7. BlackHeight(tree, tree.left[ROOT]) > 0
  <2>1. tree.left[ROOT] \in Q \cup {NIL}
    BY <1>3 DEF Shaped, TopSpans
  <2>2. BlackHeight(tree, tree.left[ROOT]) \in Nat \ {0}
    BY <1>3, <1>4, <1>5, <2>1, BlackHeightIs
  <2>3. QED
    BY <2>2
<1>8. ASSUME NEW u \in Uthreads, Queued(u), tree.red[node[u]] = 1
      PROVE  tree.red[tree.left[node[u]]] = 0 /\ tree.red[tree.right[node[u]]] = 0
  <2>1. node[u] \in Q
    BY <1>2, <1>8 DEF Members, Queued, RunqueueInv
  <2> DEFINE n == node[u]
  <2>2. Pale(tree, tree.red, n, ROOT)
    BY <1>4, <2>1 DEF Coloured
  <2>3. tree["left"][n] # ROOT /\ tree["right"][n] # ROOT
    <3>1. Spans(tree, Q, pos, lo, hi, n)
      BY <1>3, <2>1 DEF Shaped
    <3>2. tree.left[n] \in Q \cup {NIL} /\ tree.right[n] \in Q \cup {NIL}
      BY <3>1 DEF Spans
    <3>3. QED
      BY <1>5, <3>2, TreeAssumption
  <2>4. tree.red[tree["left"][n]] = 0 /\ tree.red[tree["right"][n]] = 0
    BY <1>8, <2>2, <2>3 DEF Pale, Sides
  <2>5. QED
    BY <2>4
<1>9. QED
  BY <1>6, <1>7, <1>8 DEF RedBlackRules

(* The red-black rules hold after every operation. *)
THEOREM RulesHold == Spec => []RedBlackRules
BY RunqueueInvariant, InvColours, PTL

-----------------------------------------------------------------------------
(* The run queue is a fair queue.                                          *)

(* There is one list of all nodes in order.                                *)
LEMMA ConsecutiveOnce ==
  ASSUME NEW Q, NEW N, NEW pos, Numbered(Q, N, pos),
         NEW s, Consecutive(s, Q, pos, 1, N), NEW r, Consecutive(r, Q, pos, 1, N)
  PROVE  r = s
<1>1. /\ s \in Seq(Q) /\ r \in Seq(Q) /\ Len(s) = N /\ Len(r) = N
      /\ \A i \in 1..N : s[i] \in Q /\ pos[s[i]] = i /\ r[i] \in Q /\ pos[r[i]] = i
  BY ConsecutiveHas
<1>2. \A i \in 1..N : r[i] = s[i]
  BY <1>1 DEF Numbered
<1>3. QED
  BY <1>1, <1>2, SeqEqual

(* The places of a sequence from a to b. *)
LEMMA Stretch ==
  ASSUME NEW Q, NEW s \in Seq(Q), NEW a \in 1..(Len(s) + 1), NEW b \in (a - 1)..Len(s)
  PROVE  /\ SubSeq(s, a, b) \in Seq(Q) /\ Len(SubSeq(s, a, b)) = b - a + 1
         /\ \A i \in 1..(b - a + 1) : SubSeq(s, a, b)[i] = s[a + i - 1]
<1>1. a \in Int /\ b \in Int /\ \A i \in a..b : s[i] \in Q
  OBVIOUS
<1>2. /\ SubSeq(s, a, b) \in Seq(Q)
      /\ Len(SubSeq(s, a, b)) = IF a <= b THEN b - a + 1 ELSE 0
      /\ \A i \in 1..(b - a + 1) : SubSeq(s, a, b)[i] = s[a + i - 1]
  BY <1>1, SubSeqProperties
<1>3. (IF a <= b THEN b - a + 1 ELSE 0) = b - a + 1
  OBVIOUS
<1>4. QED
  BY <1>2, <1>3

(* With z as number k it is the old one with z inserted there.             *)
LEMMA OpenedOrder ==
  ASSUME NEW Q, NEW N, NEW pos, Numbered(Q, N, pos),
         NEW s, Consecutive(s, Q, pos, 1, N),
         NEW z \in Uthreads, z \notin Q, NEW k \in 1..(N + 1),
         NEW r, Consecutive(r, Q \cup {z}, Opened(Q, pos, z, k), 1, N + 1)
  PROVE  r = InsertAt(s, k, z)
<1> DEFINE P == Q \cup {z}
           p == Opened(Q, pos, z, k)
           a == SubSeq(s, 1, k - 1)
           b == SubSeq(s, k, N)
<1>1. /\ s \in Seq(Q) /\ Len(s) = N /\ N \in Nat /\ k \in Nat
      /\ \A i \in 1..N : s[i] \in Q /\ pos[s[i]] = i
  BY ConsecutiveHas
<1>2. p[z] = k /\ \A n \in Q : p[n] = IF pos[n] >= k THEN pos[n] + 1 ELSE pos[n]
  BY DEF Opened
<1>3. Numbered(P, N + 1, p)
  BY OpenedNumbered
<1> HIDE DEF p
<1>4. s \in Seq(P)
  BY <1>1
<1>5. Consecutive(a, P, p, 1, k - 1)
  <2>1. 1 \in 1..(Len(s) + 1) /\ k - 1 \in (1 - 1)..Len(s) /\ (k - 1) - 1 + 1 = k - 1
    BY <1>1
  <2>2. a \in Seq(P) /\ Len(a) = k - 1 /\ \A i \in 1..(k - 1) : a[i] = s[1 + i - 1]
    BY <1>4, <2>1, Stretch
  <2> HIDE DEF a
  <2>3. \A i \in 1..(k - 1) : p[a[i]] = 1 + i - 1
    BY <1>1, <1>2, <2>2
  <2>4. QED
    BY <2>2, <2>3 DEF Consecutive
<1>6. Consecutive(b, P, p, p[z] + 1, (N - k) + 1)
  <2>1. k \in 1..(Len(s) + 1) /\ N \in (k - 1)..Len(s)
    BY <1>1
  <2>2. b \in Seq(P) /\ Len(b) = N - k + 1 /\ \A i \in 1..(N - k + 1) : b[i] = s[k + i - 1]
    BY <1>4, <2>1, Stretch
  <2> HIDE DEF b
  <2>3. ASSUME NEW i \in 1..(N - k + 1) PROVE p[b[i]] = (p[z] + 1) + i - 1
    <3>1. k + i - 1 \in 1..N /\ k + i - 1 >= k
      BY <1>1
    <3>2. b[i] \in Q /\ pos[b[i]] = k + i - 1
      BY <1>1, <2>2, <3>1
    <3>3. QED
      BY <1>1, <1>2, <3>1, <3>2
  <2>4. QED
    BY <2>2, <2>3 DEF Consecutive
<1> HIDE DEF a, b
<1>7. Consecutive(a \o <<z>> \o b, P, p, 1, (k - 1) + 1 + ((N - k) + 1))
  <2>1. k - 1 \in Nat /\ (N - k) + 1 \in Nat /\ z \in P /\ p[z] = 1 + (k - 1)
    BY <1>1, <1>2
  <2>2. QED
    BY <1>5, <1>6, <2>1, Joined
<1>8. (k - 1) + 1 + ((N - k) + 1) = N + 1
  BY <1>1
<1>9. Consecutive(a \o <<z>> \o b, P, p, 1, N + 1)
  BY <1>7, <1>8
<1>10. InsertAt(s, k, z) = a \o <<z>> \o b
  BY <1>1 DEF InsertAt, a, b
<1>11. Consecutive(r, P, p, 1, N + 1)
  BY DEF p
<1>12. QED
  BY <1>3, <1>9, <1>10, <1>11, ConsecutiveOnce

Unlisted(s, r, k) == r = RemoveAt(s, k) /\ (k = 1 => r = Tail(s))

(* Without z it is the old one with z left out.                            *)
LEMMA ClosedOrder ==
  ASSUME NEW Q, NEW N, NEW pos, Numbered(Q, N, pos),
         NEW s, Consecutive(s, Q, pos, 1, N), NEW z \in Q,
         NEW r, Consecutive(r, Q \ {z}, Closed(Q, pos, z), 1, N - 1)
  PROVE  Unlisted(s, r, pos[z])
<1> DEFINE P == Q \ {z}
           p == Closed(Q, pos, z)
           k == pos[z]
           a == SubSeq(s, 1, k - 1)
           b == SubSeq(s, k + 1, N)
<1>1. /\ s \in Seq(Q) /\ Len(s) = N /\ N \in Nat /\ k \in 1..N
      /\ \A i \in 1..N : s[i] \in Q /\ pos[s[i]] = i
  BY ConsecutiveHas
<1>2. \A n \in P : p[n] = IF pos[n] > k THEN pos[n] - 1 ELSE pos[n]
  BY DEF Closed
<1>3. Numbered(P, N - 1, p) /\ N - 1 \in Nat
  BY ClosedNumbered
<1>4. RemoveAt(s, k) = a \o b
  BY <1>1 DEF RemoveAt
<1>5. Consecutive(r, P, p, 1, N - 1)
  OBVIOUS
<1>6. /\ r \in Seq(P) /\ Len(r) = N - 1
      /\ \A i \in 1..(N - 1) : r[i] \in P /\ p[r[i]] = i
  <2> HIDE DEF P, p
  <2>1. QED
    BY <1>3, <1>5, ConsecutiveHas
<1>7. \A n \in P : pos[n] \in 1..N /\ pos[n] # k /\ n \in Q
  BY DEF Numbered
<1>13. \A n \in Q : s[pos[n]] = n
  BY ConsecutiveHas
<1> HIDE DEF P, p, k
<1>8. ASSUME NEW i \in 1..(N - 1) PROVE r[i] = IF i < k THEN s[i] ELSE s[i + 1]
  <2>1. r[i] \in P /\ p[r[i]] = i
    BY <1>6
  <2>2. pos[r[i]] = IF i < k THEN i ELSE i + 1
    BY <1>1, <1>2, <1>7, <2>1
  <2>3. r[i] \in Q /\ s[pos[r[i]]] = r[i]
    BY <1>7, <1>13, <2>1
  <2>4. QED
    BY <2>2, <2>3
<1>9. r \in Seq(Q)
  BY <1>6, <1>7
<1>10. r = a \o b
  <2>1. 1 \in 1..(Len(s) + 1) /\ k - 1 \in (1 - 1)..Len(s) /\ (k - 1) - 1 + 1 = k - 1
    BY <1>1
  <2>2. a \in Seq(Q) /\ Len(a) = k - 1 /\ \A i \in 1..(k - 1) : a[i] = s[1 + i - 1]
    BY <1>1, <2>1, Stretch
  <2>3. k + 1 \in 1..(Len(s) + 1) /\ N \in ((k + 1) - 1)..Len(s) /\ N - (k + 1) + 1 = N - k
    BY <1>1
  <2>4. b \in Seq(Q) /\ Len(b) = N - k /\ \A i \in 1..(N - k) : b[i] = s[(k + 1) + i - 1]
    BY <1>1, <2>3, Stretch
  <2> HIDE DEF a, b
  <2>5. /\ a \o b \in Seq(Q) /\ Len(a \o b) = N - 1
        /\ \A i \in 1..(N - 1) : (a \o b)[i] = IF i <= k - 1 THEN a[i] ELSE b[i - (k - 1)]
    <3>1. Len(a) + Len(b) = N - 1 /\ Len(a) = k - 1
      BY <1>1, <2>2, <2>4
    <3>2. /\ a \o b \in Seq(Q) /\ Len(a \o b) = Len(a) + Len(b)
          /\ \A i \in 1..(Len(a) + Len(b)) :
               (a \o b)[i] = IF i <= Len(a) THEN a[i] ELSE b[i - Len(a)]
      BY <2>2, <2>4, ConcatProperties
    <3>3. QED
      BY <3>1, <3>2
  <2>6. ASSUME NEW i \in 1..(N - 1) PROVE r[i] = (a \o b)[i]
    <3>1. CASE i < k
      <4>1. i <= k - 1 /\ i \in 1..(k - 1) /\ 1 + i - 1 = i
        BY <1>1, <3>1
      <4>2. (a \o b)[i] = s[i]
        BY <2>2, <2>5, <4>1
      <4>3. QED
        BY <1>8, <3>1, <4>2
    <3>2. CASE ~(i < k)
      <4>1. ~(i <= k - 1) /\ i - (k - 1) \in 1..(N - k) /\ (k + 1) + (i - (k - 1)) - 1 = i + 1
        BY <1>1, <3>2
      <4>2. (a \o b)[i] = s[i + 1]
        BY <2>4, <2>5, <4>1
      <4>3. QED
        BY <1>8, <3>2, <4>2
    <3>3. QED
      BY <3>1, <3>2
  <2>7. QED
    BY <1>6, <1>9, <2>5, <2>6, SeqEqual
<1>11. ASSUME k = 1 PROVE r = Tail(s)
  <2>1. s # <<>> /\ Tail(s) \in Seq(Q) /\ Len(Tail(s)) = N - 1
    BY <1>1
  <2>2. \A i \in 1..(N - 1) : Tail(s)[i] = s[i + 1]
    BY <1>1, <2>1
  <2>3. \A i \in 1..(N - 1) : r[i] = s[i + 1]
    BY <1>8, <1>11
  <2> HIDE DEF P
  <2>4. QED
    BY <1>6, <1>9, <2>1, <2>2, <2>3, SeqEqual
<1>12. QED
  BY <1>4, <1>10, <1>11 DEF k, Unlisted

(* The keys in order, given the numbers. *)
LEMMA KeysAre ==
  ASSUME NEW Q, NEW N, NEW pos, Filed(Q, N, pos)
  PROVE  Numbered(Q, N, pos) /\ Consecutive(Keys, Q, pos, 1, N)
<1>1. Sound(tree, Q, N, pos)
  BY DEF Filed
<1>2. Keys = Listed(tree)
  BY DEF Keys, Listed
<1>3. QED
  BY <1>1, <1>2, ListedNodes, SoundNumbered

(* What Keys is after a step.                                              *)
LEMMA KeysNext ==
  ASSUME NEW Q, NEW N, NEW pos, Filed(Q, N, pos)'
  PROVE  Consecutive(Keys', Q, pos, 1, N)
<1>1. Sound(tree', Q, N, pos)
  BY DEF Filed
<1>2. Keys' = Listed(tree')
  BY DEF Keys, Listed
<1>3. QED
  BY <1>1, <1>2, ListedNodes

(* The operators of SequencesExt that FairQueue is made of are those used  *)
(* here.                                                                   *)
LEMMA FairSequences ==
  ASSUME NEW s, NEW i, NEW e
  PROVE  /\ Fair!Contains(s, e) <=> Contains(s, e)
         /\ Fair!InsertAt(s, i, e) = InsertAt(s, i, e)
         /\ Fair!RemoveAt(s, i) = RemoveAt(s, i)
BY DEF Fair!Contains, Contains, Fair!InsertAt, InsertAt, Fair!RemoveAt, RemoveAt

(* A new run queue is an empty fair queue.                                 *)
LEMMA InitFair == Init => Fair!FairInit
<1> SUFFICES ASSUME Init PROVE Fair!FairInit
  OBVIOUS
<1> DEFINE pos == [n \in {} |-> 0]
<1>1. Sound(tree, {}, 0, pos)
  BY EmptySound DEF Init
<1>2. Keys = Listed(tree)
  BY DEF Keys, Listed
<1> HIDE DEF pos
<1>3. Consecutive(Keys, {}, pos, 1, 0)
  BY <1>1, <1>2, ListedNodes
<1>4. Keys = <<>>
  BY <1>3 DEF Consecutive
<1>5. QED
  BY <1>4 DEF Init, Fair!FairInit

(* add_to_cfs_runqueue is the fair queue's Enqueue: behind all that do not *)
(* come after u.                                                           *)
LEMMA AddEnqueues ==
  ASSUME RunqueueInv, NEW Q, NEW N, NEW pos, Filed(Q, N, pos),
         NEW u \in Uthreads, Add(u)
  PROVE  Fair!Enqueue(u)
<1>1. u \notin Q /\ \E k : Added(Q, N, pos, u, k)
  BY AddFiles
<1>2. PICK k : Added(Q, N, pos, u, k)
  BY <1>1
<1>3. /\ k \in 1..(N + 1) /\ Parted(Q, pos, vruntime, vruntime[u], k - 1, k)
      /\ Filed(Q \cup {u}, N + 1, Opened(Q, pos, u, k))'
  BY <1>2 DEF Added
<1>4. Numbered(Q, N, pos) /\ Consecutive(Keys, Q, pos, 1, N)
  BY KeysAre
<1>5. Consecutive(Keys', Q \cup {u}, Opened(Q, pos, u, k), 1, N + 1)
  <2> DEFINE P == Q \cup {u}
             p == Opened(Q, pos, u, k)
             M == N + 1
  <2>1. Filed(P, M, p)'
    BY <1>3
  <2> HIDE DEF P, p, M
  <2>2. Consecutive(Keys', P, p, 1, M)
    BY <2>1, KeysNext
  <2>3. QED
    BY <2>2 DEF P, p, M
<1> DEFINE s == Keys
           r == Keys'
<1>6. s = Keys /\ r = Keys'
  OBVIOUS
<1> HIDE DEF s, r
<1>7. /\ \A n : Contains(s, n) <=> n \in Q
      /\ Len(s) = N /\ N \in Nat
      /\ \A i \in 1..N : s[i] \in Q /\ pos[s[i]] = i
  BY <1>4, <1>6, ConsecutiveHas
<1>8. r = InsertAt(s, k, u)
  BY <1>1, <1>3, <1>4, <1>5, <1>6, OpenedOrder
<1>9. /\ k - 1 \in 0..Len(s) /\ (k - 1) + 1 = k
      /\ \A i \in 1..(k - 1) : vruntime[s[i]] <= vruntime[u]
      /\ \A i \in ((k - 1) + 1)..Len(s) : vruntime[s[i]] > vruntime[u]
  <2>1. k \in Nat /\ k >= 1 /\ k <= N + 1
    BY <1>3, <1>7
  <2>2. ASSUME NEW i \in 1..(k - 1) PROVE vruntime[s[i]] <= vruntime[u]
    <3>1. i \in 1..N /\ i <= k - 1
      BY <1>7, <2>1
    <3>2. s[i] \in Q /\ pos[s[i]] <= k - 1
      BY <1>7, <3>1
    <3>3. QED
      BY <1>3, <3>2 DEF Parted
  <2>3. ASSUME NEW i \in ((k - 1) + 1)..Len(s) PROVE vruntime[s[i]] > vruntime[u]
    <3>1. i \in 1..N /\ i >= k
      BY <1>7, <2>1
    <3>2. s[i] \in Q /\ pos[s[i]] >= k
      BY <1>7, <3>1
    <3>3. QED
      BY <1>3, <3>2 DEF Parted
  <2>4. QED
    BY <1>7, <2>1, <2>2, <2>3
<1>10. vruntime' = vruntime
  BY DEF Add
<1>11. ~Contains(s, u)
  BY <1>1, <1>7
<1>12. \E j \in 0..Len(Keys) :
         /\ \A i \in 1..j : vruntime[Keys[i]] <= vruntime[u]
         /\ \A i \in (j + 1)..Len(Keys) : vruntime[Keys[i]] > vruntime[u]
         /\ Keys' = InsertAt(Keys, j + 1, u)
  <2>1. k - 1 \in 0..Len(Keys)
    BY <1>6, <1>9
  <2>2. WITNESS k - 1 \in 0..Len(Keys)
  <2>3. QED
    BY <1>6, <1>8, <1>9
<1>13. QED
  BY <1>6, <1>10, <1>11, <1>12, FairSequences DEF Fair!Enqueue

(* What a removal does to the keys. *)
LEMMA RemoveUnlists ==
  ASSUME RunqueueInv, NEW Q, NEW N, NEW pos, Filed(Q, N, pos),
         NEW u \in Q, RemoveUthread(u, min)
  PROVE  /\ Keys' = RemoveAt(Keys, pos[u])
         /\ pos[u] = 1 => Keys' = Tail(Keys)
         /\ pos[u] \in DOMAIN Keys /\ Keys[pos[u]] = u /\ Keys # <<>>
         /\ vruntime' = vruntime
<1>1. Filed(Q \ {u}, N - 1, Closed(Q, pos, u))'
  BY RemoveFiles
<1>2. Numbered(Q, N, pos) /\ Consecutive(Keys, Q, pos, 1, N)
  BY KeysAre
<1>3. Consecutive(Keys', Q \ {u}, Closed(Q, pos, u), 1, N - 1)
  <2> DEFINE P == Q \ {u}
             p == Closed(Q, pos, u)
             M == N - 1
  <2>1. Filed(P, M, p)'
    BY <1>1
  <2> HIDE DEF P, p, M
  <2>2. Consecutive(Keys', P, p, 1, M)
    BY <2>1, KeysNext
  <2>3. QED
    BY <2>2 DEF P, p, M
<1> DEFINE s == Keys
           r == Keys'
<1>4. s = Keys /\ r = Keys'
  OBVIOUS
<1> HIDE DEF s, r
<1>5. r = RemoveAt(s, pos[u]) /\ (pos[u] = 1 => r = Tail(s))
  <2>1. Consecutive(s, Q, pos, 1, N) /\ Consecutive(r, Q \ {u}, Closed(Q, pos, u), 1, N - 1)
    BY <1>2, <1>3, <1>4
  <2>2. Numbered(Q, N, pos) /\ u \in Q
    BY <1>2
  <2>3. Unlisted(s, r, pos[u])
    BY <2>1, <2>2, ClosedOrder
  <2>4. QED
    BY <2>3 DEF Unlisted
<1>6. pos[u] \in 1..N /\ s[pos[u]] = u /\ DOMAIN s = 1..N /\ s \in Seq(Q) /\ Len(s) = N
  BY <1>2, <1>4, ConsecutiveHas
<1>7. s # <<>>
  BY <1>6
<1>8. vruntime' = vruntime
  BY DEF RemoveUthread
<1>9. QED
  BY <1>4, <1>5, <1>6, <1>7, <1>8

(* Every step of the run queue is one of the fair queue, or none.          *)
LEMMA StepFair == RunqueueInv /\ [Next]_vars => [Fair!FairNext]_(Fair!queueVars)
<1> SUFFICES ASSUME RunqueueInv, [Next]_vars
             PROVE  Fair!FairNext \/ (Keys' = Keys /\ vruntime' = vruntime)
  BY DEF Fair!queueVars
<1>1. PICK Q, N, pos : Filed(Q, N, pos)
  BY DEF RunqueueInv
<1>2. ASSUME NEW u \in Uthreads, Add(u) PROVE Fair!FairNext
  <2>1. Fair!Enqueue(u)
    BY <1>1, <1>2, AddEnqueues
  <2>2. QED
    BY <2>1 DEF Fair!FairNext
<1>3. CASE RemoveBest
  <2>1. GetBestThread # Nil
    BY <1>3 DEF RemoveBest
  <2>2. min \in Q /\ pos[min] = 1 /\ GetBestThread = min
    BY <1>1, <2>1, BestIsMin
  <2>3. RemoveUthread(min, min)
    BY <1>3, <2>2 DEF RemoveBest
  <2> DEFINE m == min
  <2>4. m \in Q /\ pos[m] = 1 /\ RemoveUthread(m, min)
    BY <2>2, <2>3
  <2> HIDE DEF m
  <2>5. Keys' = Tail(Keys) /\ Keys # <<>> /\ vruntime' = vruntime
    BY <1>1, <2>4, RemoveUnlists
  <2>6. QED
    BY <2>5 DEF Fair!FairNext, Fair!Dequeue
<1>4. ASSUME NEW u \in Uthreads, RemoveByName(u) PROVE Fair!FairNext
  <2>1. u \in Q /\ u \in Leavers /\ RemoveUthread(u, min)
    BY <1>1, <1>4 DEF RemoveByName, Filed, Members
  <2>2. /\ Keys' = RemoveAt(Keys, pos[u])
        /\ pos[u] \in DOMAIN Keys /\ Keys[pos[u]] = u /\ vruntime' = vruntime
    BY <1>1, <2>1, RemoveUnlists
  <2>3. Fair!Leave(u)
    BY <2>1, <2>2, FairSequences DEF Fair!Leave
  <2>4. QED
    BY <2>3 DEF Fair!FairNext
<1>5. ASSUME NEW u \in Uthreads, Charge(u) PROVE Fair!FairNext
  <2>1. u \notin Q /\ tree' = tree /\ \E v \in VruntimeOf[u] : vruntime' = [vruntime EXCEPT ![u] = v]
    BY <1>1, <1>5 DEF Charge, Filed, Members
  <2>2. Keys' = Keys
    BY <2>1 DEF Keys
  <2>3. Numbered(Q, N, pos) /\ Consecutive(Keys, Q, pos, 1, N)
    BY <1>1, KeysAre
  <2>4. ~Contains(Keys, u)
    BY <2>1, <2>3, ConsecutiveHas
  <2>5. Fair!Recharge(u)
    BY <2>1, <2>2, <2>4, FairSequences DEF Fair!Recharge
  <2>6. QED
    BY <2>5 DEF Fair!FairNext
<1>6. CASE UNCHANGED vars
  BY <1>6 DEF vars, Keys
<1>7. QED
  BY <1>2, <1>3, <1>4, <1>5, <1>6 DEF Next

(* The run queue of the code implements the fair queue. *)
THEOREM QueueIsFair == Spec => QueueImplemented
BY RunqueueInvariant, InitFair, StepFair, PTL DEF Spec, QueueImplemented, Fair!FairQueueSpec

-----------------------------------------------------------------------------
(* The queries of the tree.                                                *)

(* As many queued uthreads come before v as CutAt says.                    *)
LEMMA CutCounts ==
  ASSUME NEW Q, NEW N, NEW pos, Numbered(Q, N, pos), NEW vr, NEW v, NEW c,
         CutAt(Q, N, pos, vr, v, c)
  PROVE  Cardinality({n \in Q : vr[n] < v}) = c
<1> DEFINE S == {n \in Q : vr[n] < v}
           at == [i \in 1..c |-> CHOOSE n \in Q : pos[n] = i]
<1>1. c \in Nat /\ N \in Nat /\ c <= N /\ \A n \in Q : vr[n] < v <=> pos[n] <= c
  BY DEF CutAt, Numbered
<1>2. /\ \A n \in Q : pos[n] \in 1..N
      /\ \A m, n \in Q : pos[m] = pos[n] => m = n
      /\ \A i \in 1..N : \E n \in Q : pos[n] = i
  BY DEF Numbered
<1>3. \A i \in 1..c : at[i] \in Q /\ pos[at[i]] = i
  <2>1. ASSUME NEW i \in 1..c PROVE at[i] \in Q /\ pos[at[i]] = i
    <3>1. \E n \in Q : pos[n] = i
      BY <1>1, <1>2
    <3>2. QED
      BY <3>1
  <2>2. QED
    BY <2>1
<1>4. at \in [1..c -> S]
  <2>1. \A i \in 1..c : at[i] \in S
    BY <1>1, <1>3
  <2>2. QED
    BY <2>1
<1>5. \A i, j \in 1..c : at[i] = at[j] => i = j
  BY <1>3
<1>6. \A n \in S : \E i \in 1..c : at[i] = n
  <2>1. ASSUME NEW n \in S PROVE \E i \in 1..c : at[i] = n
    <3>1. n \in Q /\ pos[n] \in 1..c
      BY <1>1, <1>2
    <3>2. at[pos[n]] = n
      BY <1>2, <1>3, <3>1
    <3>3. QED
      BY <3>1, <3>2
  <2>2. QED
    BY <2>1
<1> HIDE DEF at, S
<1>7. at \in Bijection(1..c, S)
  <2>1. at \in Injection(1..c, S)
    BY <1>4, <1>5 DEF Injection, IsInjective
  <2>2. at \in Surjection(1..c, S)
    BY <1>4, <1>6 DEF Surjection
  <2>3. QED
    BY <2>1, <2>2 DEF Bijection
<1>8. ExistsBijection(1..c, S)
  BY <1>7 DEF ExistsBijection
<1>9. Cardinality(S) = c
  BY <1>1, <1>8, FS_CountingElements
<1>10. QED
  BY <1>9 DEF S

(* Numbers name nodes: two lists of the same ones are the same.            *)
LEMMA ConsecutiveIs ==
  ASSUME NEW Q, NEW N, NEW pos, Numbered(Q, N, pos),
         NEW s, Consecutive(s, Q, pos, 1, N), NEW a \in 0..N, NEW b \in 0..N, NEW r,
         IF b <= a THEN r = <<>> ELSE Consecutive(r, Q, pos, a + 1, b - a)
  PROVE  r = SubSeq(s, a + 1, b)
<1>1. /\ s \in Seq(Q) /\ Len(s) = N /\ N \in Nat
      /\ \A i \in 1..N : s[i] \in Q /\ pos[s[i]] = i
  BY ConsecutiveHas
<1>2. CASE b <= a
  <2>1. SubSeq(s, a + 1, b) = <<>>
    BY <1>1, <1>2, SubSeqEmpty
  <2>2. QED
    BY <1>2, <2>1
<1>3. CASE ~(b <= a)
  <2> DEFINE w == SubSeq(s, a + 1, b)
             k == b - a
  <2>1. Consecutive(r, Q, pos, a + 1, k)
    BY <1>3
  <2>2. k \in Nat /\ a \in Nat /\ b \in Nat
    BY <1>1, <1>3
  <2>3. \A i \in (a + 1)..b : s[i] \in Q
    BY <1>1
  <2>4. /\ w \in Seq(Q) /\ Len(w) = IF a + 1 <= b THEN b - (a + 1) + 1 ELSE 0
        /\ \A i \in 1..(b - (a + 1) + 1) : w[i] = s[(a + 1) + i - 1]
    BY <2>2, <2>3, SubSeqProperties
  <2>5. Len(w) = k /\ b - (a + 1) + 1 = k
    BY <1>1, <1>3, <2>4
  <2> HIDE DEF w
  <2>6. /\ r \in Seq(Q) /\ Len(r) = k
        /\ \A i \in 1..k : pos[r[i]] = (a + 1) + i - 1
    BY <2>1 DEF Consecutive
  <2>7. \A i \in 1..k : r[i] = w[i]
    <3>1. ASSUME NEW i \in 1..k PROVE r[i] = w[i]
      <4>1. pos[r[i]] = (a + 1) + i - 1 /\ r[i] \in Q
        <5>1. r[i] \in Q
          BY <2>6, ElementOfSeq
        <5>2. QED
          BY <2>6, <5>1
      <4>2. a + i \in 1..N /\ (a + 1) + i - 1 = a + i
        BY <1>1, <1>3, <2>2
      <4>3. w[i] = s[a + i]
        BY <2>4, <2>5, <4>2
      <4>4. pos[w[i]] = a + i /\ w[i] \in Q
        BY <1>1, <4>2, <4>3
      <4>5. QED
        BY <4>1, <4>2, <4>4 DEF Numbered
    <3>2. QED
      BY <3>1
  <2>8. r = w
    <3> HIDE DEF k
    <3>1. r \in Seq(Q) /\ w \in Seq(Q) /\ Len(r) = Len(w) /\ \A i \in 1..Len(r) : r[i] = w[i]
      BY <2>4, <2>5, <2>6, <2>7
    <3>2. QED
      BY <3>1, SeqEqual
  <2>9. QED
    BY <2>8 DEF w
<1>4. QED
  BY <1>2, <1>3

(* TreeSuccessor and TreePredecessor of a node in order are the next one   *)
(* and the one before.                                                     *)
LEMMA InvNeighbours ==
  ASSUME NEW t, NEW Q, NEW N, NEW pos, Sound(t, Q, N, pos),
         NEW s, s = TreeNodes(t), NEW i \in 1..Len(s)
  PROVE  /\ TreeSuccessor(t, s[i]) = IF i < Len(s) THEN s[i + 1] ELSE NIL
         /\ TreePredecessor(t, s[i]) = IF i > 1 THEN s[i - 1] ELSE NIL
<1>1. /\ Numbered(Q, N, pos) /\ NIL \notin Q /\ HasShape(t, Q, N, pos) /\ Clean(t, Q)
  BY SoundNumbered
<1>2. Consecutive(s, Q, pos, 1, N)
  BY <1>1, TreeNodesAre
<1>3. /\ s \in Seq(Q) /\ Len(s) = N /\ N \in Nat
      /\ \A j \in 1..N : s[j] \in Q /\ pos[s[j]] = j
      /\ \A n \in Q : pos[n] \in 1..N /\ s[pos[n]] = n
  BY <1>1, <1>2, ConsecutiveHas
<1>4. i \in 1..N /\ s[i] \in Q /\ pos[s[i]] = i
  BY <1>3
<1> DEFINE n == s[i]
           right == Neighbour(t, n, "right")
           left == Neighbour(t, n, "left")
<1>5. n \in Q /\ pos[n] = i
  BY <1>4
<1>6. TreeSuccessor(t, s[i]) = right /\ TreePredecessor(t, s[i]) = left
  BY DEF TreeSuccessor, TreePredecessor
<1> HIDE DEF n
<1>7. "left" \in Sides /\ "right" \in Sides /\ "left" # "right"
  BY DEF Sides
<1>8. \A d \in Sides : NodeAt(Q, N, pos, IF d = "left" THEN pos[n] - 1 ELSE pos[n] + 1, NIL,
                              Neighbour(t, n, d))
  BY <1>1, <1>5, NeighbourIs
<1>9. NodeAt(Q, N, pos, i + 1, NIL, right) /\ NodeAt(Q, N, pos, i - 1, NIL, left)
  BY <1>5, <1>7, <1>8
<1> HIDE DEF right, left
<1>10. right = IF i < Len(s) THEN s[i + 1] ELSE NIL
  <2>1. CASE i < N
    <3>1. i + 1 \in 1..N
      BY <1>3, <1>4, <2>1
    <3>2. right \in Q /\ pos[right] = i + 1
      BY <1>9, <3>1 DEF NodeAt
    <3>3. QED
      BY <1>3, <2>1, <3>2
  <2>2. CASE ~(i < N)
    <3>1. i + 1 \notin 1..N
      BY <1>3, <1>4, <2>2
    <3>2. right = NIL
      BY <1>3, <1>9, <3>1 DEF NodeAt
    <3>3. QED
      BY <1>3, <2>2, <3>2
  <2>3. QED
    BY <2>1, <2>2
<1>11. left = IF i > 1 THEN s[i - 1] ELSE NIL
  <2>1. CASE i > 1
    <3>1. i - 1 \in 1..N
      BY <1>3, <1>4, <2>1
    <3>2. left \in Q /\ pos[left] = i - 1
      BY <1>9, <3>1 DEF NodeAt
    <3>3. QED
      BY <1>3, <2>1, <3>2
  <2>2. CASE ~(i > 1)
    <3>1. i - 1 \notin 1..N
      BY <1>3, <1>4, <2>2
    <3>2. left = NIL
      BY <1>3, <1>9, <3>1 DEF NodeAt
    <3>3. QED
      BY <2>2, <3>2
  <2>3. QED
    BY <2>1, <2>2
<1>12. QED
  BY <1>6, <1>10, <1>11

(* What InOrder lists from a node down are the nodes under it.             *)
LEMMA InOrderHas ==
  ASSUME NEW t, NEW Q, NEW N, NEW pos, NEW lo, NEW hi,
         Shaped(t, Q, N, pos, lo, hi), Clean(t, Q), NEW m \in Q
  PROVE  \A n \in Q : Under(pos, lo, hi, m, n) => n \in ToSet(InOrder(t, m))
<1> DEFINE s == InOrder(t, m)
           k == hi[m] - lo[m] + 1
<1>1. m # NIL
  BY TreeAssumption DEF Shaped, Numbered
<1>2. Consecutive(s, Q, pos, lo[m], k)
  BY <1>1, InOrderIs
<1>3. Spans(t, Q, pos, lo, hi, m)
  BY DEF Shaped
<1>4. /\ lo[m] \in Nat /\ hi[m] \in Nat /\ k \in Nat
      /\ \A n \in Q : pos[n] \in Nat
      /\ \A n, n2 \in Q : pos[n] = pos[n2] => n = n2
  BY <1>3 DEF Shaped, Spans, Numbered
<1> HIDE DEF s
<1>5. /\ s \in Seq(Q) /\ Len(s) = k /\ \A i \in 1..k : pos[s[i]] = lo[m] + i - 1
  BY <1>2 DEF Consecutive
<1>6. ASSUME NEW n \in Q, Under(pos, lo, hi, m, n) PROVE n \in ToSet(s)
  <2> DEFINE i == pos[n] - lo[m] + 1
  <2>1. lo[m] <= pos[n] /\ pos[n] <= hi[m]
    BY <1>6 DEF Under
  <2>2. i \in 1..k /\ lo[m] + i - 1 = pos[n]
    BY <1>4, <2>1
  <2> HIDE DEF i, k
  <2>3. s[i] \in Q /\ i \in DOMAIN s
    BY <1>4, <1>5, <2>2
  <2>4. pos[s[i]] = pos[n]
    BY <1>5, <2>2
  <2>5. s[i] = n
    BY <1>4, <2>3, <2>4
  <2>6. QED
    BY <2>3, <2>5 DEF ToSet
<1>7. QED
  BY <1>6 DEF s

(* In an ordered run queue the queries answer right.                       *)
LEMMA InvQueries == RunqueueInv => QueriesAgree
<1> SUFFICES ASSUME RunqueueInv PROVE QueriesAgree
  OBVIOUS
<1>1. PICK Q, N, pos : Filed(Q, N, pos)
  BY DEF RunqueueInv
<1>2. /\ Q = Members /\ Sound(tree, Q, N, pos) /\ Sorted(Q, pos, vruntime)
  BY <1>1 DEF Filed
<1>3. /\ Numbered(Q, N, pos) /\ Clean(tree, Q) /\ NIL \notin Q /\ ROOT \notin Q
      /\ HasShape(tree, Q, N, pos) /\ Q \subseteq Uthreads
  BY <1>2, SoundNumbered DEF Numbered
<1>4. PICK lo, hi : Shaped(tree, Q, N, pos, lo, hi)
  BY <1>3 DEF HasShape
<1>5. vruntime \in [Uthreads -> Nat] /\ Asked \subseteq Nat
  BY VruntimesNat, RunqueueAssumption DEF RunqueueInv
<1> DEFINE ns == TreeNodes(tree)
<1>6. Consecutive(ns, Q, pos, 1, N)
  BY <1>3, TreeNodesAre
<1> HIDE DEF ns
<1>7. /\ ns \in Seq(Q) /\ Len(ns) = N /\ DOMAIN ns = 1..N /\ N \in Nat
      /\ \A i \in 1..N : ns[i] \in Q /\ pos[ns[i]] = i
      /\ \A n \in Q : pos[n] \in 1..N /\ ns[pos[n]] = n
  BY <1>3, <1>6, ConsecutiveHas
<1>8. DOMAIN Keys = DOMAIN ns
  BY DEF Keys, ns
<1>9. ToSet(ns) = Q
  BY <1>7 DEF ToSet
<1>10. \A n \in Q : tree.key[n] = n
  BY <1>3 DEF Clean
<1>11. {node[u] : u \in {w \in Uthreads : Queued(w)}} = Q
  BY <1>2 DEF Members, Queued, RunqueueInv
<1>12. ASSUME NEW i \in DOMAIN Keys
       PROVE  /\ TreeSuccessor(tree, ns[i]) = IF i < Len(ns) THEN ns[i + 1] ELSE NIL
              /\ TreePredecessor(tree, ns[i]) = IF i > 1 THEN ns[i - 1] ELSE NIL
  <2>1. ns = TreeNodes(tree) /\ i \in 1..Len(ns)
    BY <1>7, <1>8 DEF ns
  <2>2. QED
    BY <1>2, <2>1, InvNeighbours
<1>13. ASSUME NEW v \in Asked
       PROVE  LET found == RBExactQuery(tree, vruntime, v)
                  those == {n \in ToSet(ns) : vruntime[tree.key[n]] = v}
              IN IF those = {} THEN found = Nil
                 ELSE found \in those /\ those \subseteq ToSet(InOrder(tree, found))
  <2> DEFINE found == RBExactQuery(tree, vruntime, v)
             those == {n \in ToSet(ns) : vruntime[tree.key[n]] = v}
  <2>1. v \in Nat
    BY <1>5
  <2>2. IF found = Nil THEN \A n \in Q : vruntime[n] # v
        ELSE /\ found \in Q /\ vruntime[found] = v
             /\ \A n \in Q : vruntime[n] = v => Under(pos, lo, hi, found, n)
    BY <1>2, <1>3, <1>4, <1>5, <2>1, ExactQueryIs
  <2>3. \A n : n \in those <=> n \in Q /\ vruntime[n] = v
    BY <1>9, <1>10
  <2> HIDE DEF found, those
  <2>4. CASE found = Nil
    BY <1>3, <2>2, <2>3, <2>4 DEF found, those
  <2>5. CASE found # Nil
    <3>1. found \in those
      BY <2>2, <2>3, <2>5
    <3>2. \A n \in Q : Under(pos, lo, hi, found, n) => n \in ToSet(InOrder(tree, found))
      BY <1>3, <1>4, <2>2, <2>5, InOrderHas
    <3>3. those \subseteq ToSet(InOrder(tree, found))
      BY <2>2, <2>3, <2>5, <3>2
    <3>4. QED
      BY <3>1, <3>3 DEF found, those
  <2>6. QED
    BY <2>4, <2>5
<1>14. ASSUME NEW low \in Asked, NEW high \in Asked
       PROVE  RBEnumerate(tree, vruntime, low, high) =
                SubSeq(ns, Preceding(low) + 1, Preceding(high + 1))
  <2>1. low \in Nat /\ high \in Nat /\ high + 1 \in Nat
    BY <1>5
  <2>2. PICK a : CutAt(Q, N, pos, vruntime, low, a)
    BY <1>2, <1>3, <1>5, <2>1, SortedCut
  <2>3. PICK b : CutAt(Q, N, pos, vruntime, high + 1, b)
    BY <1>2, <1>3, <1>5, <2>1, SortedCut
  <2> DEFINE r == RBEnumerate(tree, vruntime, low, high)
  <2>4. IF b <= a THEN r = <<>> ELSE Consecutive(r, Q, pos, a + 1, b - a)
    BY <1>2, <1>3, <1>4, <1>5, <2>1, <2>2, <2>3, EnumerateIs
  <2>5. a \in 0..N /\ b \in 0..N
    BY <2>2, <2>3 DEF CutAt
  <2> HIDE DEF r
  <2>6. r = SubSeq(ns, a + 1, b)
    BY <1>3, <1>6, <2>4, <2>5, ConsecutiveIs
  <2>7. \A v : {u \in Uthreads : Queued(u) /\ vruntime[u] < v} = {n \in Q : vruntime[n] < v}
    BY <1>2 DEF Members
  <2>8. \A v : Preceding(v) = Cardinality({n \in Q : vruntime[n] < v})
    BY <2>7 DEF Preceding
  <2>9. Cardinality({n \in Q : vruntime[n] < low}) = a
    BY <1>3, <2>2, CutCounts
  <2>10. Cardinality({n \in Q : vruntime[n] < high + 1}) = b
    BY <1>3, <2>3, CutCounts
  <2>11. Preceding(low) = a /\ Preceding(high + 1) = b
    BY <2>8, <2>9, <2>10
  <2>12. QED
    BY <2>6, <2>11 DEF r
<1> DEFINE freed == RBTreeDestroy(tree)
<1>15. FreedOnce(tree, Q, freed)
  BY <1>3, <1>4, DestroyIs
<1> HIDE DEF freed
<1>16. /\ IsInjective(freed)
       /\ ToSet(freed) = {NIL, ROOT} \cup Q
       /\ \A i, j \in DOMAIN freed :
            tree.parent[freed[i]] = freed[j] /\ freed[i] \in Uthreads => i < j
  <2>1. freed \in Seq(Addresses) /\ DOMAIN freed = 1..Len(freed)
    BY <1>15 DEF FreedOnce
  <2>2. IsInjective(freed)
    BY <1>15, <2>1 DEF FreedOnce, IsInjective
  <2>3. \A n : (\E i \in 1..Len(freed) : freed[i] = n) <=> n \in Q \cup {ROOT, NIL}
    BY <1>15 DEF FreedOnce
  <2>4. ToSet(freed) = {NIL, ROOT} \cup Q
    BY <2>1, <2>3 DEF ToSet
  <2>5. \A i \in DOMAIN freed : freed[i] \in Uthreads => freed[i] \in Q
    BY <2>1, <2>3, TreeAssumption
  <2>6. QED
    BY <1>15, <2>1, <2>2, <2>4, <2>5 DEF FreedOnce
<1>17. QED
  <2>1. /\ \A i \in DOMAIN Keys :
             /\ TreeSuccessor(tree, ns[i]) = IF i < Len(ns) THEN ns[i + 1] ELSE NIL
             /\ TreePredecessor(tree, ns[i]) = IF i > 1 THEN ns[i - 1] ELSE NIL
        /\ \A low, high \in Asked :
             RBEnumerate(tree, vruntime, low, high) =
               SubSeq(ns, Preceding(low) + 1, Preceding(high + 1))
    BY <1>12, <1>14
  <2>2. QED
    BY <1>11, <1>13, <1>16, <2>1 DEF QueriesAgree, ns, freed

(* The neighbours, queries and destruction of the tree are right at all    *)
(* times.                                                                  *)
THEOREM QueriesStayRight == Spec => []QueriesAgree
BY RunqueueInvariant, InvQueries, PTL

-----------------------------------------------------------------------------
(* The run queue while others read it without the lock (YieldRace).        *)

(* The uthreads a walk without the lock can come to.                       *)
Reached == (Members \cup {adding}) \ {Nil}

(* While an insertion is under way every image of it can be walked: all of *)
(* its stores lead to queued uthreads or the newcomer.                     *)
Posting ==
  IF LockFree THEN adding = Nil
  ELSE /\ adding \in Uthreads \ Members /\ adding # current
       /\ stores \in Histories /\ Walkable(stores, Members \cup {adding})

(* The uthread that runs, or is in gt_yield, or about to be added, is on   *)
(* no queue and is not being added by somebody else.                       *)
Running ==
  /\ pc \in {"run", "look", "top", "down", "add", "pick"}
  /\ pc # "pick" => current \in Uthreads \ Reached
  /\ pc \in {"look", "top", "down"} => current \in Yielders
  /\ pc \notin {"add", "pick"} => rightmost = Nil
  /\ pc = "run" => waiting = {}

(* Those who wait stay on the queue, so that the walk has a top to begin   *)
(* at and an end.                                                          *)
Walking ==
  /\ waiting \subseteq Members
  /\ pc = "top" => Memory.left[ROOT] # NIL
  /\ pc = "down" => place \in Reached
  /\ pc \in {"add", "pick"} /\ waiting # {} => rightmost # Nil

(* The uthread where it ended stays queued, or about to be, and ahead of   *)
(* the yielder.                                                            *)
Found == rightmost # Nil =>
  /\ rightmost \in Reached \ {current} /\ current \in Uthreads
  /\ vruntime[rightmost] < vruntime[current]

(* Everybody has a vruntime of his own.                                    *)
Charged == \A u \in Uthreads : vruntime[u] \in VruntimeOf[u]

(* The inductive invariant of the race.                                    *)
RaceInv == RunqueueInv /\ Charged /\ Posting /\ Running /\ Walking /\ Found

(* The memory can be walked; its top is missing only if nobody is queued,  *)
(* and outside an insertion just then.                                     *)
LEMMA MemoryWalks ==
  RunqueueInv /\ Posting =>
    /\ Reached \subseteq Uthreads /\ Members \subseteq Reached
    /\ Passable(Memory, Reached)
    /\ Members # {} => Memory.left[ROOT] # NIL
    /\ LockFree /\ Memory.left[ROOT] # NIL => Members # {}
<1> SUFFICES ASSUME RunqueueInv, Posting
             PROVE  /\ Reached \subseteq Uthreads /\ Members \subseteq Reached
                    /\ Passable(Memory, Reached)
                    /\ Members # {} => Memory.left[ROOT] # NIL
                    /\ LockFree /\ Memory.left[ROOT] # NIL => Members # {}
  OBVIOUS
<1>1. Members \subseteq Uthreads /\ Nil \notin Uthreads
  BY TreeAssumption DEF Members
<1>2. CASE LockFree
  <2>1. adding = Nil /\ Reached = Members /\ Memory = tree
    BY <1>1, <1>2 DEF Posting, Reached, Memory
  <2>2. PICK Q, N, pos : Filed(Q, N, pos)
    BY DEF RunqueueInv
  <2>3. Q = Members /\ Sound(tree, Q, N, pos)
    BY <2>2 DEF Filed
  <2>4. Passable(tree, Members)
    BY <1>1, <2>3, SoundPassable
  <2>5. tree.left[ROOT] = NIL <=> Members = {}
    <3>1. /\ Numbered(Q, N, pos) /\ NIL \notin Q
          /\ IF tree.left[ROOT] = NIL THEN N = 0 ELSE tree.left[ROOT] \in Q
      BY <2>3, SoundNumbered DEF HasShape, Shaped, TopSpans
    <3>2. QED
      BY <2>3, <3>1 DEF Numbered
  <2>6. QED
    BY <1>1, <2>1, <2>4, <2>5
<1>3. CASE ~LockFree
  <2>1. /\ adding \in Uthreads \ Members /\ stores \in Histories
        /\ Walkable(stores, Members \cup {adding})
    BY <1>3 DEF Posting
  <2>2. Reached = Members \cup {adding} /\ Memory = stores[1]
    BY <1>1, <1>3, <2>1 DEF Reached, Memory
  <2>3. Passable(stores[1], Members \cup {adding})
    <3>1. 1 \in 1..Len(stores)
      BY <2>1 DEF Histories
    <3>2. QED
      BY <2>1, <3>1 DEF Walkable
  <2>4. Members # {} => stores[1].left[ROOT] # NIL
    BY <2>1, <2>3 DEF Passable
  <2>5. QED
    BY <1>1, <1>3, <2>1, <2>2, <2>3, <2>4
<1>4. QED
  BY <1>2, <1>3

(* Who is queued after add_to_cfs_runqueue,                                *)
LEMMA AddMembers ==
  ASSUME RunqueueInv, NEW u \in Uthreads, Add(u)
  PROVE  Members' = Members \cup {u} /\ vruntime' = vruntime /\ u \notin Members
BY TreeAssumption DEF Add, Members, Queued, RunqueueInv

(* and after sched_find_best_uthread.                                      *)
LEMMA RemoveMembers ==
  ASSUME RunqueueInv, RemoveBest
  PROVE  /\ GetBestThread \in Members /\ Members' = Members \ {GetBestThread}
         /\ vruntime' = vruntime
<1>1. PICK Q, N, pos : Filed(Q, N, pos)
  BY DEF RunqueueInv
<1> DEFINE m == GetBestThread
<1>2. m # Nil /\ RemoveUthread(m, m)
  BY DEF RemoveBest
<1>3. m \in Members
  <2>1. min \in Q /\ m = min /\ Q = Members
    BY <1>1, <1>2, BestIsMin DEF Filed
  <2>2. QED
    BY <2>1
<1> HIDE DEF m
<1>4. node' = [node EXCEPT ![m] = NIL] /\ vruntime' = vruntime
  BY <1>2 DEF RemoveUthread
<1>5. Members' = Members \ {m}
  BY <1>3, <1>4 DEF Members, Queued, RunqueueInv
<1>6. QED
  BY <1>3, <1>4, <1>5 DEF m

(* Nobody else is queued after a charge, and only u's vruntime is another. *)
LEMMA ChargeMembers ==
  ASSUME RunqueueInv, Charged, NEW u \in Uthreads, Charge(u)
  PROVE  /\ Members' = Members /\ u \notin Members /\ tree' = tree /\ Charged'
         /\ \A w \in Uthreads \ {u} : vruntime'[w] = vruntime[w]
<1>1. /\ vruntime \in [Uthreads -> Nat] /\ node' = node /\ tree' = tree /\ ~Queued(u)
      /\ \E v \in VruntimeOf[u] : vruntime' = [vruntime EXCEPT ![u] = v]
  BY VruntimesNat DEF Charge, RunqueueInv
<1>2. Members' = Members /\ u \notin Members
  BY <1>1 DEF Members, Queued
<1>3. PICK v \in VruntimeOf[u] : vruntime' = [vruntime EXCEPT ![u] = v]
  BY <1>1
<1>4. \A w \in Uthreads : vruntime'[w] = IF w = u THEN v ELSE vruntime[w]
  BY <1>1, <1>3
<1>5. QED
  BY <1>1, <1>2, <1>4 DEF Charged

(* The walk never ends at tree->nil, so it answers where it ended and      *)
(* gives the yielder a vruntime it may be charged.                         *)
LEMMA AnswerCharges ==
  ASSUME RaceInv, Answer
  PROVE  /\ Charge(current) /\ current \in Uthreads
         /\ rightmost' = place /\ place \in Reached /\ place # current
         /\ vruntime' = [vruntime EXCEPT ![current] = vruntime[place] + 1]
<1>1. /\ current \in Uthreads \ Reached /\ current \in Yielders /\ place \in Reached
  BY DEF RaceInv, Answer, Running, Walking
<1>2. /\ Reached \subseteq Uthreads /\ Members \subseteq Reached /\ Passable(Memory, Reached)
  BY MemoryWalks DEF RaceInv
<1>3. Memory.key[place] = place
  BY <1>1, <1>2 DEF Passable
<1>4. place # NIL
  BY <1>1, <1>2, TreeAssumption
<1>5. rightmost' = place /\ place # current
  BY <1>1, <1>3, <1>4 DEF Answer
<1>6. vruntime' = [vruntime EXCEPT ![current] = vruntime[place] + 1]
  BY <1>5, <1>4 DEF Answer, OnePast
<1>7. vruntime[place] + 1 \in VruntimeOf[current]
  BY <1>1, <1>2, YieldAssumption DEF RaceInv, Charged
<1>8. ~Queued(current)
  BY <1>1, <1>2 DEF Members
<1>9. Charge(current)
  BY <1>6, <1>7, <1>8 DEF Charge, Answer
<1>10. QED
  BY <1>1, <1>5, <1>6, <1>9

(* A step of the race is a step of the run queue, or none.                 *)
LEMMA RaceSteps == RaceInv /\ [RaceNext]_raceVars => [Next]_vars
<1> SUFFICES ASSUME RaceInv, [RaceNext]_raceVars PROVE [Next]_vars
  OBVIOUS
<1>1. ASSUME NEW u \in Uthreads, Post(u) PROVE Next
  BY <1>1 DEF Post, Next
<1>2. CASE Posted
  <2>1. ~LockFree
    BY <1>2 DEF Posted, LockFree
  <2>2. adding \in Uthreads
    BY <2>1 DEF RaceInv, Posting
  <2>3. QED
    BY <1>2, <2>2 DEF Posted, Next
<1>3. CASE Pick
  BY <1>3 DEF Pick, Next
<1>4. CASE Preempt
  <2>1. current \in Uthreads
    BY <1>4 DEF Preempt, RaceInv, Running
  <2>2. QED
    BY <1>4, <2>1 DEF Preempt, Next
<1>5. CASE Answer
  BY <1>5, AnswerCharges DEF Next
<1>6. CASE AddCurrent
  <2>1. current \in Uthreads
    BY <1>6 DEF AddCurrent, RaceInv, Running
  <2>2. QED
    BY <1>6, <2>1 DEF AddCurrent, Next
<1>7. CASE Store \/ Finish \/ Yield \/ Look \/ Top \/ Down
  BY <1>7 DEF Store, Finish, Yield, Look, Top, Down
<1>8. CASE UNCHANGED raceVars
  BY <1>8 DEF raceVars
<1>9. QED
  BY <1>1, <1>2, <1>3, <1>4, <1>5, <1>6, <1>7, <1>8 DEF RaceNext

(* Nobody is being added or waited for on a new run queue.                 *)
LEMMA RaceBegins == RaceInit => RaceInv
<1> SUFFICES ASSUME RaceInit PROVE RaceInv
  OBVIOUS
<1>1. RunqueueInv
  BY RunqueueInit DEF RaceInit
<1>2. Charged
  BY DEF RaceInit, Init, Charged
<1>3. Posting /\ Running /\ Walking /\ Found
  BY DEF RaceInit, Posting, LockFree, Running, Walking, Found
<1>4. QED
  BY <1>1, <1>2, <1>3 DEF RaceInv

(* The steps of the uthread_create on the other kthread: when it has taken *)
(* the lock,                                                               *)
LEMMA PostKeeps ==
  ASSUME RaceInv, RunqueueInv', NEW u \in Uthreads, Post(u)
  PROVE  RaceInv'
<1>1. /\ LockFree /\ u # current /\ Charge(u) /\ adding' = u
      /\ stores' = RBTreeInsert(<<tree>>, vruntime', u)
      /\ pc' = pc /\ current' = current /\ place' = place
      /\ rightmost' = rightmost /\ waiting' = waiting
  BY DEF Post
<1>2. /\ Members' = Members /\ u \notin Members /\ tree' = tree /\ Charged'
      /\ \A w \in Uthreads \ {u} : vruntime'[w] = vruntime[w]
  BY <1>1, ChargeMembers DEF RaceInv
<1>3. adding = Nil /\ Reached = Members /\ Reached' = Members \cup {u}
  BY <1>1, <1>2, TreeAssumption DEF RaceInv, Posting, Reached, Members
<1>4. stores' \in Histories /\ Walkable(stores', Members \cup {u})
  <2>1. PICK Q, N, pos : Filed(Q, N, pos)'
    BY DEF RunqueueInv
  <2>2. /\ Q = Members /\ Sound(tree, Q, N, pos) /\ Sorted(Q, pos, vruntime')
    BY <1>2, <2>1 DEF Filed
  <2>3. tree \in Images /\ vruntime' \in [Uthreads -> Nat]
    BY <2>2, SoundNumbered, VruntimesNat DEF RunqueueInv
  <2>4. /\ <<tree>> \in Histories /\ Last(<<tree>>) = tree
        /\ Walkable(<<tree>>, Q \cup {u})
    BY <2>2, <2>3, OneImage, OneWalks
  <2>5. Sound(Last(<<tree>>), Q, N, pos)
    BY <2>2, <2>4
  <2> DEFINE vr == vruntime'
  <2>6. vr \in [Uthreads -> Nat] /\ Sorted(Q, pos, vr) /\ u \notin Q
    BY <1>2, <2>2, <2>3
  <2> HIDE DEF vr
  <2>7. /\ RBTreeInsert(<<tree>>, vr, u) \in Histories
        /\ Walkable(RBTreeInsert(<<tree>>, vr, u), Q \cup {u})
    BY <2>4, <2>5, <2>6, InsertJoins
  <2>8. QED
    BY <1>1, <2>2, <2>7 DEF vr
<1>5. Posting'
  <2>1. ~LockFree'
    BY <1>4 DEF LockFree, Histories
  <2>2. QED
    BY <1>1, <1>2, <1>4, <2>1 DEF Posting
<1>6. Running'
  BY <1>1, <1>3 DEF RaceInv, Running
<1>7. Walking'
  <2>1. pc = "top" => (Memory.left[ROOT] # NIL)'
    <3>1. pc = "top" => Members # {}
      BY <1>1, MemoryWalks DEF RaceInv, Walking
    <3>2. (Members # {} => Memory.left[ROOT] # NIL)'
      <4>1. (RunqueueInv /\ Posting => (Members # {} => Memory.left[ROOT] # NIL))'
        BY MemoryWalks, PTL
      <4>2. QED
        BY <1>5, <4>1
    <3>3. QED
      BY <1>2, <3>1, <3>2
  <2>2. QED
    BY <1>1, <1>2, <1>3, <2>1 DEF RaceInv, Walking
<1>8. Found'
  <2>1. SUFFICES ASSUME rightmost' # Nil PROVE Found'
    BY DEF Found
  <2>2. /\ rightmost \in Reached \ {current} /\ current \in Uthreads
        /\ vruntime[rightmost] < vruntime[current]
    BY <1>1, <2>1 DEF RaceInv, Found
  <2>3. vruntime'[rightmost] = vruntime[rightmost] /\ vruntime'[current] = vruntime[current]
    BY <1>1, <1>2, <1>3, <2>2 DEF Members
  <2>4. QED
    BY <1>1, <1>3, <2>2, <2>3 DEF Found
<1>9. QED
  BY <1>2, <1>5, <1>6, <1>7, <1>8 DEF RaceInv

(* at each store of RBTreeInsert,                                          *)
LEMMA StoreKeeps ==
  ASSUME RaceInv, RunqueueInv', Store
  PROVE  RaceInv'
<1>1. /\ Len(stores) > 1 /\ stores' = Tail(stores)
      /\ tree' = tree /\ node' = node /\ vruntime' = vruntime /\ adding' = adding
      /\ pc' = pc /\ current' = current /\ place' = place
      /\ rightmost' = rightmost /\ waiting' = waiting
  BY DEF Store, vars
<1>2. ~LockFree
  BY <1>1 DEF LockFree
<1>3. /\ adding \in Uthreads \ Members /\ adding # current
      /\ stores \in Histories /\ Walkable(stores, Members \cup {adding})
  BY <1>2 DEF RaceInv, Posting
<1>4. Members' = Members /\ Reached' = Reached
  BY <1>1 DEF Members, Queued, Reached
<1>5. /\ Tail(stores) \in Seq(Images) /\ Len(Tail(stores)) = Len(stores) - 1
      /\ \A i \in 1..Len(Tail(stores)) : Tail(stores)[i] = stores[i + 1]
      /\ Len(stores) \in Nat
  BY <1>1, <1>3 DEF Histories
<1> DEFINE rest == Tail(stores)
           P == Members \cup {adding}
<1>6. rest \in Histories
  <2>1. Len(rest) > 0 /\ rest \in Seq(Images)
    BY <1>1, <1>5
  <2> HIDE DEF rest
  <2>2. rest # <<>>
    BY <2>1
  <2>3. QED
    BY <2>1, <2>2 DEF Histories
<1>7. Walkable(rest, P)
  <2> HIDE DEF rest, P
  <2>1. Walkable(stores, P)
    BY <1>3 DEF P
  <2>2. \A i \in 1..Len(rest) : i + 1 \in 1..Len(stores) /\ rest[i] = stores[i + 1]
    BY <1>5 DEF rest
  <2>3. \A i \in 1..(Len(rest) - 1) :
          /\ i \in 1..Len(rest) /\ i + 1 \in 1..Len(rest) /\ i + 1 \in 1..(Len(stores) - 1)
    BY <1>5 DEF rest
  <2>4. QED
    BY <2>1, <2>2, <2>3 DEF Walkable
<1>8. ~LockFree' /\ Memory' = stores[2] /\ Memory = stores[1]
  BY <1>1, <1>2, <1>5, <1>6 DEF LockFree, Memory, Histories
<1>9. Posting'
  BY <1>1, <1>3, <1>4, <1>6, <1>7, <1>8 DEF Posting
<1>10. Memory.left[ROOT] # NIL => Memory'.left[ROOT] # NIL
  <2>1. 1 \in 1..(Len(stores) - 1)
    BY <1>1, <1>5
  <2>2. stores[1].left[ROOT] # NIL => stores[1 + 1].left[ROOT] # NIL
    BY <1>3, <2>1 DEF Walkable
  <2>3. QED
    BY <1>8, <2>2
<1>11. Running' /\ Walking' /\ Found' /\ Charged'
  <2>1. (Memory.left[ROOT] # NIL)' = (Memory'.left[ROOT] # NIL)
    OBVIOUS
  <2>2. QED
    BY <1>1, <1>4, <1>10, <2>1 DEF RaceInv, Running, Walking, Found, Charged
<1>12. QED
  BY <1>9, <1>11 DEF RaceInv

(* and when the newcomer is queued.                                        *)
LEMMA PostedKeeps ==
  ASSUME RaceInv, RunqueueInv', Posted
  PROVE  RaceInv'
<1>1. /\ ~LockFree /\ Add(adding) /\ stores' = <<>> /\ adding' = Nil
      /\ pc' = pc /\ current' = current /\ place' = place
      /\ rightmost' = rightmost /\ waiting' = waiting
  BY DEF Posted, LockFree
<1>2. adding \in Uthreads \ Members
  BY <1>1 DEF RaceInv, Posting
<1>3. Members' = Members \cup {adding} /\ vruntime' = vruntime
  BY <1>1, <1>2, AddMembers DEF RaceInv
<1>4. Reached' = Reached
  BY <1>1, <1>2, <1>3, TreeAssumption DEF Reached, Members
<1>5. Posting'
  BY <1>1 DEF Posting, LockFree
<1>6. (Memory.left[ROOT] # NIL)'
  <2>1. (RunqueueInv /\ Posting => (Members # {} => Memory.left[ROOT] # NIL))'
    BY MemoryWalks, PTL
  <2>2. Members' # {}
    BY <1>3
  <2>3. QED
    BY <1>5, <2>1, <2>2
<1>7. Running' /\ Walking' /\ Found' /\ Charged'
  BY <1>1, <1>3, <1>4, <1>6 DEF RaceInv, Running, Walking, Found, Charged
<1>8. QED
  BY <1>5, <1>7 DEF RaceInv

(* A pick takes a queued uthread, and whom gt_yield met is forgotten.      *)
LEMMA PickKeeps ==
  ASSUME RaceInv, RunqueueInv', Pick
  PROVE  RaceInv'
<1>1. /\ LockFree /\ RemoveBest /\ current' = GetBestThread /\ pc' = "run"
      /\ rightmost' = Nil /\ waiting' = {} /\ stores' = stores /\ adding' = adding
  BY DEF Pick
<1>2. /\ GetBestThread \in Members /\ Members' = Members \ {GetBestThread}
      /\ vruntime' = vruntime
  BY <1>1, RemoveMembers DEF RaceInv
<1>3. adding = Nil /\ LockFree'
  BY <1>1 DEF RaceInv, Posting, LockFree
<1>4. GetBestThread \in Uthreads \ Reached'
  BY <1>1, <1>2, <1>3 DEF Reached, Members
<1>5. Posting' /\ Running' /\ Walking' /\ Found' /\ Charged'
  BY <1>1, <1>2, <1>3, <1>4 DEF RaceInv, Posting, Running, Walking, Found, Charged
<1>6. QED
  BY <1>5 DEF RaceInv

(* So does the end of a uthread, and a preemption charges it before it is  *)
(* added.                                                                  *)
LEMMA LeaveKeeps ==
  ASSUME RaceInv, RunqueueInv', Finish \/ Preempt
  PROVE  RaceInv'
<1>1. /\ pc = "run" /\ stores' = stores /\ adding' = adding /\ place' = place
      /\ rightmost' = rightmost /\ waiting' = waiting
  BY DEF Finish, Preempt
<1>2. rightmost = Nil /\ waiting = {} /\ current \in Uthreads \ Reached
  BY <1>1 DEF RaceInv, Running
<1>3. CASE Finish
  <2>1. pc' = "pick" /\ current' = Nil /\ UNCHANGED vars
    BY <1>3 DEF Finish
  <2>2. Members' = Members /\ vruntime' = vruntime
    BY <2>1 DEF vars, Members, Queued
  <2>3. LockFree' = LockFree /\ Reached' = Reached
    BY <1>1, <2>2 DEF LockFree, Reached
  <2>4. Posting' /\ Running' /\ Walking' /\ Found' /\ Charged'
    BY <1>1, <1>2, <2>1, <2>2, <2>3, TreeAssumption
       DEF RaceInv, Posting, Running, Walking, Found, Charged
  <2>5. QED
    BY <2>4 DEF RaceInv
<1>4. CASE Preempt
  <2>1. pc' = "add" /\ current' = current /\ Charge(current)
    BY <1>4 DEF Preempt
  <2>2. Members' = Members /\ Charged'
    BY <1>2, <2>1, ChargeMembers DEF RaceInv
  <2>3. LockFree' = LockFree /\ Reached' = Reached
    BY <1>1, <2>2 DEF LockFree, Reached
  <2>4. Posting' /\ Running' /\ Walking' /\ Found'
    BY <1>1, <1>2, <2>1, <2>2, <2>3 DEF RaceInv, Posting, Running, Walking, Found
  <2>5. QED
    BY <2>2, <2>4 DEF RaceInv
<1>5. QED
  BY <1>3, <1>4

(* A uthread that yields leaves the queue alone, and walks from the top to *)
(* the right among those who can be reached.                               *)
LEMMA WalkKeeps ==
  ASSUME RaceInv, RunqueueInv', Yield \/ Look \/ Top \/ Down
  PROVE  RaceInv'
<1>1. /\ UNCHANGED vars /\ stores' = stores /\ adding' = adding /\ current' = current
      /\ rightmost' = rightmost
  BY DEF Yield, Look, Top, Down
<1>2. /\ Members' = Members /\ vruntime' = vruntime /\ tree' = tree
  BY <1>1 DEF vars, Members, Queued
<1>3. LockFree' = LockFree /\ Reached' = Reached /\ Memory' = Memory
  BY <1>1, <1>2 DEF LockFree, Reached, Memory
<1>4. Posting' /\ Charged'
  BY <1>1, <1>2, <1>3 DEF RaceInv, Posting, Charged
<1>5. /\ Reached \subseteq Uthreads /\ Passable(Memory, Reached) /\ NIL \notin Reached
      /\ Members # {} => Memory.left[ROOT] # NIL
  BY MemoryWalks, TreeAssumption DEF RaceInv
<1>6. Found'
  BY <1>1, <1>2, <1>3 DEF RaceInv, Found
<1>7. Running' /\ Walking'
  <2>1. CASE Yield
    BY <1>1, <1>2, <1>3, <2>1 DEF Yield, RaceInv, Running, Walking
  <2>2. CASE Look
    <3>1. waiting # {} => ~Empty
      BY <1>5 DEF RaceInv, Walking, Empty
    <3>2. QED
      BY <1>1, <1>2, <1>3, <2>2, <3>1 DEF Look, Empty, RaceInv, Running, Walking
  <2>3. CASE Top
    <3>1. Memory.left[ROOT] \in Reached
      BY <1>5, <2>3 DEF Top, RaceInv, Walking, Passable
    <3>2. QED
      BY <1>1, <1>2, <1>3, <2>3, <3>1 DEF Top, RaceInv, Running, Walking
  <2>4. CASE Down
    <3>1. Memory.right[place] \in Reached
      BY <1>5, <2>4 DEF Down, RaceInv, Walking, Passable
    <3>2. QED
      BY <1>1, <1>2, <1>3, <2>4, <3>1 DEF Down, RaceInv, Running, Walking
  <2>5. QED
    BY <2>1, <2>2, <2>3, <2>4
<1>8. QED
  BY <1>4, <1>6, <1>7 DEF RaceInv

(* Where it ends it goes behind the one it finds.                          *)
LEMMA AnswerKeeps ==
  ASSUME RaceInv, RunqueueInv', Answer
  PROVE  RaceInv'
<1>1. /\ Charge(current) /\ current \in Uthreads
      /\ rightmost' = place /\ place \in Reached /\ place # current
      /\ vruntime' = [vruntime EXCEPT ![current] = vruntime[place] + 1]
  BY AnswerCharges
<1>2. /\ pc = "down" /\ pc' = "add" /\ stores' = stores /\ adding' = adding
      /\ current' = current /\ place' = place /\ waiting' = waiting
  BY DEF Answer
<1>3. Members' = Members /\ Charged'
  BY <1>1, ChargeMembers DEF RaceInv
<1>4. LockFree' = LockFree /\ Reached' = Reached
  BY <1>2, <1>3 DEF LockFree, Reached
<1>5. Reached \subseteq Uthreads
  BY MemoryWalks DEF RaceInv
<1>6. Found'
  <2>1. vruntime \in [Uthreads -> Nat]
    BY VruntimesNat DEF RaceInv, RunqueueInv
  <2>2. vruntime'[place] = vruntime[place] /\ vruntime'[current] = vruntime[place] + 1
    BY <1>1, <1>5, <2>1
  <2>3. vruntime[place] < vruntime[place] + 1
    BY <1>1, <1>5, <2>1
  <2>4. QED
    BY <1>1, <1>2, <1>4, <2>2, <2>3 DEF Found
<1>7. place # Nil
  BY <1>1, <1>5, TreeAssumption
<1>8. Posting' /\ Running' /\ Walking'
  BY <1>1, <1>2, <1>3, <1>4, <1>7 DEF RaceInv, Posting, Running, Walking
<1>9. QED
  BY <1>3, <1>6, <1>8 DEF RaceInv

(* And is queued itself.                                                   *)
LEMMA AddCurrentKeeps ==
  ASSUME RaceInv, RunqueueInv', AddCurrent
  PROVE  RaceInv'
<1>1. /\ pc = "add" /\ LockFree /\ Add(current) /\ pc' = "pick"
      /\ stores' = stores /\ adding' = adding /\ current' = current /\ place' = place
      /\ rightmost' = rightmost /\ waiting' = waiting
  BY DEF AddCurrent
<1>2. current \in Uthreads
  BY <1>1 DEF RaceInv, Running
<1>3. Members' = Members \cup {current} /\ vruntime' = vruntime
  BY <1>1, <1>2, AddMembers DEF RaceInv
<1>4. adding = Nil /\ LockFree'
  BY <1>1 DEF RaceInv, Posting, LockFree
<1>5. Reached \subseteq Reached'
  BY <1>1, <1>3 DEF Reached
<1>6. Posting' /\ Running' /\ Walking' /\ Found' /\ Charged'
  BY <1>1, <1>2, <1>3, <1>4, <1>5 DEF RaceInv, Posting, Running, Walking, Found, Charged
<1>7. QED
  BY <1>6 DEF RaceInv

(* Every step keeps the invariant.                                         *)
LEMMA RaceStep == RaceInv /\ [RaceNext]_raceVars => RaceInv'
<1> SUFFICES ASSUME RaceInv, [RaceNext]_raceVars PROVE RaceInv'
  OBVIOUS
<1>1. RunqueueInv'
  BY RaceSteps, RunqueueStep DEF RaceInv
<1>2. ASSUME NEW u \in Uthreads, Post(u) PROVE RaceInv'
  BY <1>1, <1>2, PostKeeps
<1>3. CASE Store
  BY <1>1, <1>3, StoreKeeps
<1>4. CASE Posted
  BY <1>1, <1>4, PostedKeeps
<1>5. CASE Pick
  BY <1>1, <1>5, PickKeeps
<1>6. CASE Finish \/ Preempt
  BY <1>1, <1>6, LeaveKeeps
<1>7. CASE Yield \/ Look \/ Top \/ Down
  BY <1>1, <1>7, WalkKeeps
<1>8. CASE Answer
  BY <1>1, <1>8, AnswerKeeps
<1>9. CASE AddCurrent
  BY <1>1, <1>9, AddCurrentKeeps
<1>10. CASE UNCHANGED raceVars
  <2>1. /\ UNCHANGED vars /\ stores' = stores /\ adding' = adding /\ pc' = pc
        /\ current' = current /\ place' = place /\ rightmost' = rightmost /\ waiting' = waiting
    BY <1>10 DEF raceVars
  <2>2. Members' = Members /\ vruntime' = vruntime /\ tree' = tree
    BY <2>1 DEF vars, Members, Queued
  <2>3. LockFree' = LockFree /\ Reached' = Reached /\ Memory' = Memory
    BY <2>1, <2>2 DEF LockFree, Reached, Memory
  <2>4. QED
    BY <1>1, <2>1, <2>2, <2>3 DEF RaceInv, Posting, Running, Walking, Found, Charged
<1>11. QED
  BY <1>2, <1>3, <1>4, <1>5, <1>6, <1>7, <1>8, <1>9, <1>10 DEF RaceNext

(* In the race every image that gt_yield's walk may read leads to queued   *)
(* uthreads or the one being posted, and whom it found is queued ahead of  *)
(* the yielder.                                                            *)
THEOREM RaceInvariant == RaceSpec => []RaceInv
BY RaceBegins, RaceStep, PTL DEF RaceSpec

(* Whoever reads it without the lock, and however long an insertion takes, *)
(* the run queue behaves as CfsRunqueue says: all that is proved of Spec   *)
(* holds in the race.                                                      *)
THEOREM RaceKeepsRunqueue == RaceSpec => Spec
<1>1. RaceInit => Init
  BY DEF RaceInit
<1>2. QED
  BY <1>1, RaceInvariant, RaceSteps, PTL DEF RaceSpec, Spec

(* The walk of gt_yield meets nobody but uthreads that are queued or about *)
(* to be, and never nil, whatever stores of RBTreeInsert it comes between. *)
THEOREM WalkStaysOnUthreads == RaceSpec => []WalkMeetsUthreads
<1>1. RaceInv => WalkMeetsUthreads
  BY DEF RaceInv, Walking, Found, Reached, WalkMeetsUthreads
<1>2. QED
  BY <1>1, RaceInvariant, PTL

(* In a sorted queue with somebody ahead, the first is another.            *)
LEMMA AheadIsAnother ==
  ASSUME RunqueueInv, NEW a \in Members, NEW b \in Members, vruntime[a] < vruntime[b]
  PROVE  GetBestThread # b
<1>1. PICK Q, N, pos : Filed(Q, N, pos)
  BY DEF RunqueueInv
<1>2. /\ Q = Members /\ Sound(tree, Q, N, pos) /\ Sorted(Q, pos, vruntime)
  BY <1>1 DEF Filed
<1>3. Numbered(Q, N, pos) /\ Nil \notin Q /\ vruntime \in [Uthreads -> Nat]
  BY <1>2, SoundNumbered, VruntimesNat, TreeAssumption DEF RunqueueInv, Numbered
<1>4. SUFFICES ASSUME GetBestThread = b PROVE FALSE
  OBVIOUS
<1>5. pos[b] = 1
  BY <1>1, <1>2, <1>3, <1>4, BestIsMin
<1>6. pos[a] \in 1..N /\ pos[a] # pos[b] /\ N \in Nat
  <2>1. a \in Uthreads /\ b \in Uthreads
    BY DEF Members
  <2>2. a # b
    BY <1>3, <2>1
  <2>3. QED
    BY <1>2, <1>3, <2>2 DEF Numbered
<1>7. pos[b] < pos[a]
  BY <1>5, <1>6
<1>8. vruntime[b] <= vruntime[a]
  BY <1>2, <1>7 DEF Sorted
<1>9. vruntime[a] \in Nat /\ vruntime[b] \in Nat
  BY <1>3 DEF Members
<1>10. QED
  BY <1>8, <1>9

(* A uthread that yields is not picked again at once when somebody was     *)
(* waiting, or was come across, although gt_yield's walk is not protected  *)
(* from the insertions of another kthread.                                 *)
THEOREM YieldReachesSomebody == RaceSpec => []YieldsToSomebody
<1>1. RaceInv => YieldsToSomebody
  <2> SUFFICES ASSUME RaceInv, pc = "pick", LockFree, waiting # {} \/ rightmost # Nil
               PROVE  GetBestThread # current
    BY DEF YieldsToSomebody
  <2>1. rightmost # Nil
    BY DEF RaceInv, Walking
  <2>2. /\ rightmost \in Reached /\ rightmost # current /\ current \in Uthreads
        /\ vruntime[rightmost] < vruntime[current]
    BY <2>1 DEF RaceInv, Found
  <2>3. rightmost \in Members
    BY <2>2 DEF RaceInv, Posting, Reached
  <2>4. CASE current \in Members
    BY <2>2, <2>3, <2>4, AheadIsAnother DEF RaceInv
  <2>5. CASE current \notin Members
    <3>1. SUFFICES ASSUME GetBestThread = current PROVE FALSE
      OBVIOUS
    <3>2. PICK Q, N, pos : Filed(Q, N, pos)
      BY DEF RaceInv, RunqueueInv
    <3>3. GetBestThread # Nil /\ Q = Members
      BY <2>2, <3>1, <3>2, TreeAssumption DEF Filed
    <3>4. GetBestThread \in Q
      BY <3>2, <3>3, BestIsMin DEF RaceInv
    <3>5. QED
      BY <2>5, <3>1, <3>3, <3>4
  <2>6. QED
    BY <2>4, <2>5
<1>2. QED
  BY <1>1, RaceInvariant, PTL
=============================================================================
