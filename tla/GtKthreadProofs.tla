--------------------------- MODULE GtKthreadProofs ---------------------------
(***************************************************************************)
(* Proofs about GtKthread for any number of processors, any assignment of  *)
(* APIC ids, any processors that may be used, and any groups.              *)
(*                                                                         *)
(* That gtthread_app_init has counted NumCpus slots says little by itself: *)
(* the slots were read one after the other while kthreads were taking      *)
(* them, and perhaps overwriting one another.  CountInv: no more were      *)
(* counted than are taken now.  BoundInv: every slot that is taken is the  *)
(* APIC id of a processor that may be used.  Counting (FullHouse) then     *)
(* makes the machine Proper, and MapInv says who is in which slot there.   *)
(*                                                                         *)
(* GroupSpread is not inductive: it does not say who is next.  Turn orders *)
(* the slots as the search of ksched_find_target visits them, from 1 round *)
(* to 0.  SpreadInv: up to the last target of a group everybody has had    *)
(* one more of its uthreads.  FindInv: the search has skipped nobody.      *)
(***************************************************************************)
EXTENDS GtKthread, FiniteSetTheorems, TLAPS

(* The kthreads that have put themselves in kthread_cpu_map. *)
Unregistered == {"none", "init", "bound"}

LoopInv ==
  /\ pc[0] \notin {"none", "segv"} \cup Looping
  /\ \A k \in Kthreads \ {0} :
       pc[k] \in Unregistered \cup Looping \cup {"segv", "aborted"}
  /\ pc[0] \in Unregistered \cup {"cloning"} =>
       inx \in 1..NumCpus /\ \A k \in Kthreads : k >= inx => pc[k] = "none"
  /\ pc[0] = "waiting" => inx <= MaxCores /\ initDone <= inx
  /\ pc[0] \in {"finding", "posting"} => group \in Groups
  /\ pc[0] = "posting" => map[target] # Nil

TakenBelow(i) == {s \in Slots : s < i /\ map[s] # Nil}
CountInv == pc[0] = "waiting" => initDone <= Cardinality(TakenBelow(inx))

BoundInv ==
  /\ \A k \in Kthreads : pc[k] # "none" =>
       on[k] \in allowed /\ affinity[k] \subseteq allowed
  /\ \A k \in allowed : pc[k] \notin {"none", "init"} =>
       on[k] = k /\ affinity[k] = {k}
  /\ \A s \in Slots : map[s] # Nil => \E c \in allowed : apic[c] = s

MapInv ==
  /\ \A k \in Kthreads : pc[k] \notin {"none", "init"} => prepared[k]
  /\ \A k \in Kthreads \ {0} : pc[k] \notin {"none", "init"} /\ Proper => dnd[k]
  /\ Proper => \A k \in Kthreads :
       /\ \A s \in Slots : map[s] = k => s = apic[k] /\ pc[k] \notin Unregistered
       /\ pc[k] \notin Unregistered => map[apic[k]] = k /\ apicId[k] = apic[k]
       /\ pc[k] \notin {"segv"} /\ (k # 0 => pc[k] # "aborted")
       /\ ctx[k] \in {Nil, k} /\ (pc[k] = "found" => ctx[k] = k)

ReadyInv == pc[0] \in Returned =>
  Proper /\ \A k \in Kthreads : map[apic[k]] = k

IInv == TypeOK /\ LoopInv /\ CountInv /\ BoundInv /\ MapInv /\ ReadyInv

USE NumCpusAssumption, MaxCoresAssumption, BoundAssumption, NilAssumption

-----------------------------------------------------------------------------
(* If NumCpus slots are taken, the APIC ids of the processors that may be  *)
(* used fill them, one each.                                               *)
LEMMA FullHouse ==
  ASSUME NEW A \in SUBSET Kthreads, NEW f \in [Kthreads -> Slots],
         NEW T \in SUBSET Slots,
         \A s \in T : \E c \in A : f[c] = s,
         Cardinality(T) >= NumCpus
  PROVE  /\ A = Kthreads
         /\ \A j, k \in Kthreads : f[j] = f[k] => j = k
         /\ \A k \in Kthreads : f[k] \in T
<1> DEFINE C == {c \in A : f[c] \in T}
           g == [c \in C |-> f[c]]
<1>1. IsFiniteSet(Kthreads) /\ Cardinality(Kthreads) = NumCpus
  BY FS_Interval DEF Kthreads
<1>2. IsFiniteSet(C) /\ Cardinality(C) <= NumCpus
      /\ (Cardinality(C) = NumCpus => C = Kthreads)
  <2>1. C \in SUBSET Kthreads OBVIOUS
  <2>2. /\ IsFiniteSet(C)
        /\ Cardinality(C) <= Cardinality(Kthreads)
        /\ Cardinality(Kthreads) = Cardinality(C) => Kthreads = C
    <3> HIDE DEF C
    <3> QED BY <1>1, <2>1, FS_Subset
  <2> QED BY <1>1, <2>2
<1>3. g \in Surjection(C, T)
  BY DEF Surjection
<1>4. IsFiniteSet(T) /\ Cardinality(T) <= Cardinality(C)
      /\ (Cardinality(T) = Cardinality(C) => g \in Injection(C, T))
  <2> HIDE DEF C, g
  <2> QED BY <1>2, <1>3, FS_Surjection
<1>5. Cardinality(T) \in Nat /\ Cardinality(C) \in Nat
  BY <1>2, <1>4, FS_CardinalityType
<1>6. Cardinality(C) = NumCpus /\ Cardinality(T) = Cardinality(C)
  BY <1>2, <1>4, <1>5
<1>7. C = Kthreads /\ g \in Injection(C, T)
  BY <1>2, <1>4, <1>6
<1>8. A = Kthreads /\ \A k \in Kthreads : f[k] \in T
  BY <1>7
<1>9. \A j, k \in Kthreads : g[j] = g[k] => j = k
  BY <1>7 DEF Injection, IsInjective
<1>10. \A k \in Kthreads : g[k] = f[k]
  BY <1>7
<1> QED BY <1>8, <1>9, <1>10

(* Slots are finitely many, and so are those taken. *)
LEMMA SlotsFinite ==
  ASSUME NEW T \in SUBSET Slots
  PROVE  IsFiniteSet(T) /\ Cardinality(T) \in Nat
<1>1. IsFiniteSet(Slots) BY FS_Interval DEF Slots
<1>2. IsFiniteSet(T) BY <1>1, FS_Subset
<1> QED BY <1>2, FS_CardinalityType

-----------------------------------------------------------------------------
LEMMA InitIInv == Init => IInv
<1> SUFFICES ASSUME Init PROVE IInv OBVIOUS
<1>1. 0 \in Kthreads /\ 0 \in Slots /\ 0 \in 0..MaxCores
      /\ MaxUthreads \in 0..MaxUthreads
  BY DEF Kthreads, Slots
<1>2. TypeOK BY <1>1 DEF Init, TypeOK, PCs, Returned, Looping
<1>3. LoopInv BY <1>1 DEF Init, LoopInv, Unregistered, Looping, Kthreads
<1>4. CountInv /\ ReadyInv BY <1>1 DEF Init, CountInv, ReadyInv, Returned
<1>5. BoundInv BY <1>1 DEF Init, BoundInv
<1>6. MapInv BY <1>1 DEF Init, MapInv, Unregistered
<1> QED BY <1>2, <1>3, <1>4, <1>5, <1>6 DEF IInv

(* (target + 1) % GT_MAX_CORES *)
LEMMA NextSlot ==
  ASSUME NEW s \in Slots
  PROVE  (s + 1) % MaxCores = IF s = MaxCores - 1 THEN 0 ELSE s + 1
BY DEF Slots

-----------------------------------------------------------------------------
LEMMA NextTypeOK == IInv /\ [Next]_vars => TypeOK'
<1> SUFFICES ASSUME IInv, [Next]_vars PROVE TypeOK' OBVIOUS
<1> USE DEF IInv, TypeOK
<1>0. 0 \in Kthreads /\ 0 \in Slots
  BY DEF Kthreads, Slots
<1>1. ASSUME NEW k \in Kthreads, Prepare(k) PROVE TypeOK'
  <2>1. on' \in [Kthreads -> Kthreads]
        /\ affinity' \in [Kthreads -> SUBSET Kthreads]
    <3>1. \A X \in SUBSET Kthreads :
             [affinity EXCEPT ![k] = X] \in [Kthreads -> SUBSET Kthreads]
      OBVIOUS
    <3>2. CASE k \in allowed
      <4>1. affinity' = [affinity EXCEPT ![k] = {k}] /\ on' = [on EXCEPT ![k] = k]
        BY <1>1, <3>2 DEF Prepare, Bind
      <4>2. affinity' \in [Kthreads -> SUBSET Kthreads]
        BY <3>1, <4>1, {k} \in SUBSET Kthreads
      <4> QED BY <4>1, <4>2
    <3>3. CASE k \notin allowed
      BY <1>1, <3>3 DEF Prepare, Bind, bindings
    <3> QED BY <3>2, <3>3
  <2> QED BY <1>1, <2>1 DEF Prepare, Goto, machine, waiting, dealing, PCs
<1>2. ASSUME NEW k \in Kthreads, Register(k) PROVE TypeOK'
  BY <1>2 DEF Register, OwnSlot, ApicHere, Goto, machine, bindings, waiting,
              dealing, PCs, Looping
<1>3. ASSUME NEW k \in Kthreads, LookUp(k) PROVE TypeOK'
  BY <1>3 DEF LookUp, Here, ApicHere, Goto, machine, bindings, waiting,
              dealing, PCs, Looping
<1>4. ASSUME NEW k \in Kthreads, EnterLoop(k) PROVE TypeOK'
  BY <1>4 DEF EnterLoop, Goto, machine, bindings, contexts, waiting, dealing,
              PCs, Looping
<1>5. ASSUME NEW k \in Kthreads, NEW c \in Kthreads, Migrate(k, c)
      PROVE  TypeOK'
  BY <1>5 DEF Migrate, machine, contexts, waiting, dealing
<1>6. CASE Clone
  <2>1. on' \in [Kthreads -> Kthreads]
        /\ affinity' \in [Kthreads -> SUBSET Kthreads]
    <3>1. affinity[0] \in SUBSET Kthreads BY <1>0
    <3>2. CASE UNCHANGED bindings BY <3>2 DEF bindings
    <3>3. ASSUME NEW c \in affinity[0],
                 affinity' = [affinity EXCEPT ![inx] = affinity[0]],
                 on' = [on EXCEPT ![inx] = c]
          PROVE  /\ on' \in [Kthreads -> Kthreads]
                 /\ affinity' \in [Kthreads -> SUBSET Kthreads]
      BY <3>1, <3>3
    <3> QED BY <1>6, <3>2, <3>3 DEF Clone
  <2>2. pc' \in [Kthreads -> PCs] /\ inx' \in Nat
    BY <1>0, <1>6 DEF Clone, Goto, PCs
  <2> QED BY <1>6, <2>1, <2>2 DEF Clone, machine, contexts, dealing
<1>7. CASE StartCount
  BY <1>0, <1>7 DEF StartCount, Goto, machine, bindings, contexts, dealing, PCs
<1>8. CASE Count
  <2>1. initDone' \in 0..MaxCores
    BY <1>8 DEF Count, At, LoopInv
  <2> QED BY <1>8, <2>1 DEF Count, machine, bindings, contexts, dealing
<1>9. CASE Judge
  <2>1. Verdict \in PCs
    BY DEF Verdict, PCs, Returned
  <2>2. initDone' \in 0..MaxCores
    BY <1>9 DEF Judge, Afresh
  <2> HIDE DEF Verdict
  <2> QED BY <1>0, <1>9, <2>1, <2>2
          DEF Judge, Goto, machine, bindings, dealing
<1>10. ASSUME NEW g \in Groups, Create(g) PROVE TypeOK'
  <2>1. toCreate' \in 0..MaxUthreads
    BY <1>10 DEF Create
  <2> QED BY <1>0, <1>10, <2>1 DEF Create, LastOf, Goto, machine, bindings,
                                   waiting, PCs, Returned
<1>11. CASE FindNext
  <2>1. target' \in Slots
    BY <1>11, NextSlot DEF FindNext, Slots
  <2> QED BY <1>0, <1>11, <2>1
          DEF FindNext, Goto, machine, bindings, contexts, waiting, PCs, Returned
<1>12. CASE Post
  <2>1. posted' \in [Groups -> [Kthreads -> Nat]]
    <3>1. group \in Groups /\ map[target] \in Kthreads
      BY <1>12 DEF Post, At, LoopInv
    <3> QED BY <1>12, <3>1 DEF Post
  <2> QED BY <1>0, <1>12, <2>1
          DEF Post, Goto, machine, bindings, waiting, PCs, Returned
<1>13. CASE UNCHANGED vars
  BY <1>13 DEF vars, machine, bindings, contexts, waiting, dealing
<1> QED BY <1>1, <1>2, <1>3, <1>4, <1>5, <1>6, <1>7, <1>8, <1>9, <1>10, <1>11,
           <1>12, <1>13
        DEF Next, StartUp, FindTarget, StartKthread

(* Who is where does not depend on what the others are doing. *)
LEMMA NextLoopInv == IInv /\ [Next]_vars => LoopInv'
<1> SUFFICES ASSUME IInv, [Next]_vars PROVE LoopInv' OBVIOUS
<1> USE DEF IInv, TypeOK, LoopInv, Unregistered, Looping, At, Goto
<1>0. 0 \in Kthreads
  BY DEF Kthreads
<1>1. ASSUME NEW k \in Kthreads,
             Prepare(k) \/ Register(k) \/ LookUp(k) \/ EnterLoop(k)
      PROVE  LoopInv'
  <2>1. UNCHANGED <<inx, initDone, group, target>>
    BY <1>1 DEF Prepare, Register, LookUp, EnterLoop, waiting, dealing
  <2>2. CASE Prepare(k) BY <1>0, <2>1, <2>2 DEF Prepare
  <2>3. CASE Register(k) BY <1>0, <2>1, <2>3 DEF Register
  <2>4. CASE LookUp(k) BY <1>0, <2>1, <2>4 DEF LookUp
  <2>5. CASE EnterLoop(k) BY <1>0, <2>1, <2>5 DEF EnterLoop, contexts
  <2> QED BY <1>1, <2>2, <2>3, <2>4, <2>5
<1>2. CASE Clone
  <2>1. CASE Goto(0, "exited") /\ UNCHANGED inx
    BY <1>0, <1>2, <2>1 DEF Clone
  <2>2. CASE pc' = [pc EXCEPT ![inx] = "init"] /\ inx' = inx + 1
    <3>1. inx \in Kthreads /\ inx # 0
      BY <1>2 DEF Clone, Kthreads
    <3>2. /\ pc[0] = "cloning" /\ inx < NumCpus /\ inx \in 1..NumCpus
          /\ \A k \in Kthreads : k >= inx => pc[k] = "none"
      BY <1>2 DEF Clone
    <3>3. inx' \in 1..NumCpus
      BY <2>2, <3>2
    <3>4. \A k \in Kthreads : k >= inx' => k # inx /\ pc[k] = "none"
      <4>1. \A k \in Kthreads : k >= inx' => k # inx /\ k >= inx
        <5> HIDE DEF LoopInv, TypeOK
        <5> QED BY <2>2, <3>2 DEF Kthreads
      <4> QED BY <3>2, <4>1
    <3>5. \A k \in Kthreads : pc'[k] = IF k = inx THEN "init" ELSE pc[k]
      BY <2>2, <3>1
    <3> QED BY <1>0, <3>1, <3>2, <3>3, <3>4, <3>5
  <2> QED BY <1>2, <2>1, <2>2 DEF Clone, bindings
<1>3. CASE StartCount
  BY <1>0, <1>3 DEF StartCount
<1>4. CASE Count
  BY <1>0, <1>4 DEF Count
<1>5. CASE Judge
  <2>1. Verdict \in {"aborted", "running", "waiting"}
    BY DEF Verdict
  <2> HIDE DEF Verdict
  <2> QED BY <1>0, <1>5, <2>1 DEF Judge, Afresh
<1>6. ASSUME NEW g \in Groups, Create(g) PROVE LoopInv'
  BY <1>0, <1>6 DEF Create, waiting
<1>7. CASE FindNext \/ Post
  BY <1>0, <1>7 DEF FindNext, Post, waiting, contexts, dealing
<1>8. ASSUME NEW k \in Kthreads, NEW c \in Kthreads, Migrate(k, c)
      PROVE  LoopInv'
  BY <1>8 DEF Migrate, waiting, contexts, dealing
<1>9. CASE UNCHANGED vars
  BY <1>9 DEF vars, waiting, contexts, dealing
<1> QED BY <1>1, <1>2, <1>3, <1>4, <1>5, <1>6, <1>7, <1>8, <1>9
        DEF Next, StartUp, FindTarget, StartKthread

(* A slot that was counted stays taken, whoever overwrites it. *)
LEMMA NextCountInv == IInv /\ [Next]_vars => CountInv'
<1> SUFFICES ASSUME IInv, [Next]_vars PROVE CountInv' OBVIOUS
<1> USE DEF IInv, TypeOK, At, Goto
<1>0. 0 \in Kthreads
  BY DEF Kthreads
<1>2. ASSUME pc[0] = "waiting", inx' = inx, initDone' = initDone,
             \A s \in Slots : map[s] # Nil => map'[s] # Nil
      PROVE  CountInv'
  <2>1. TakenBelow(inx) \in SUBSET TakenBelow(inx)'
    BY <1>2 DEF TakenBelow
  <2>2. /\ Cardinality(TakenBelow(inx)) \in Nat
        /\ IsFiniteSet(TakenBelow(inx)') /\ Cardinality(TakenBelow(inx)') \in Nat
    <3>1. TakenBelow(inx) \in SUBSET Slots /\ TakenBelow(inx)' \in SUBSET Slots
      BY DEF TakenBelow
    <3> QED BY <3>1, SlotsFinite
  <2>3. Cardinality(TakenBelow(inx)) <= Cardinality(TakenBelow(inx)')
    BY <2>1, <2>2, FS_Subset
  <2> QED BY <1>2, <2>2, <2>3 DEF CountInv
<1>3. ASSUME NEW k \in Kthreads, Register(k) PROVE CountInv'
  BY <1>0, <1>2, <1>3 DEF Register, waiting, CountInv
<1>4. ASSUME NEW k \in Kthreads,
             \/ Prepare(k) \/ LookUp(k) \/ EnterLoop(k)
             \/ \E c \in Kthreads : Migrate(k, c)
      PROVE  CountInv'
  BY <1>0, <1>2, <1>4
  DEF Prepare, LookUp, EnterLoop, Migrate, contexts, waiting, CountInv
<1>5. CASE StartCount
  <2>1. Cardinality(TakenBelow(inx)') \in Nat
    BY SlotsFinite DEF TakenBelow
  <2> QED BY <1>5, <2>1 DEF StartCount, CountInv
<1>6. CASE Count
  <2>1. TakenBelow(inx + 1) = IF map[inx] # Nil THEN TakenBelow(inx) \cup {inx}
                                                ELSE TakenBelow(inx)
    BY <1>6 DEF Count, TakenBelow, Slots
  <2>2. inx \notin TakenBelow(inx)
    BY DEF TakenBelow
  <2>3. Cardinality(TakenBelow(inx + 1)) =
          Cardinality(TakenBelow(inx)) + (IF map[inx] # Nil THEN 1 ELSE 0)
    <3>1. TakenBelow(inx) \in SUBSET Slots BY DEF TakenBelow
    <3>2. IsFiniteSet(TakenBelow(inx)) /\ Cardinality(TakenBelow(inx)) \in Nat
      BY <3>1, SlotsFinite
    <3>3. Cardinality(TakenBelow(inx) \cup {inx}) =
            Cardinality(TakenBelow(inx)) + 1
      BY <2>2, <3>2, FS_AddElement
    <3> QED BY <2>1, <3>2, <3>3
  <2>4. TakenBelow(inx)' = TakenBelow(inx + 1)
    BY <1>6 DEF Count, TakenBelow, contexts
  <2>5. Cardinality(TakenBelow(inx)) \in Nat
    BY SlotsFinite DEF TakenBelow
  <2> QED BY <1>6, <2>3, <2>4, <2>5 DEF Count, CountInv
<1>7. CASE Judge
  <2>1. Cardinality(TakenBelow(inx)') \in Nat
    BY SlotsFinite DEF TakenBelow
  <2>2. Verdict = "waiting" \/ pc'[0] # "waiting"
    BY <1>0, <1>7 DEF Judge
  <2> QED BY <1>7, <2>1, <2>2 DEF Judge, CountInv, Afresh
<1>8. ASSUME Clone \/ FindNext \/ Post \/ \E g \in Groups : Create(g)
      PROVE  CountInv'
  BY <1>0, <1>8 DEF Clone, FindNext, Post, Create, CountInv, LoopInv
<1>9. CASE UNCHANGED vars
  BY <1>2, <1>9 DEF vars, contexts, waiting, CountInv
<1> QED BY <1>3, <1>4, <1>5, <1>6, <1>7, <1>8, <1>9
        DEF Next, StartUp, FindTarget, StartKthread

(* A kthread that may use its processor stays there once it is bound, and  *)
(* one that may not stays among those the process may use.                 *)
LEMMA NextBoundInv == IInv /\ [Next]_vars => BoundInv'
<1> SUFFICES ASSUME IInv, [Next]_vars PROVE BoundInv' OBVIOUS
<1> USE DEF IInv, TypeOK, BoundInv, At, Goto
<1>0. 0 \in Kthreads /\ (pc[0] # "none")
  BY DEF Kthreads, LoopInv
<1>1. ASSUME NEW k \in Kthreads, Prepare(k) PROVE BoundInv'
  <2>1. UNCHANGED <<allowed, apic, map>>
    BY <1>1 DEF Prepare, machine
  <2>2. \A j \in Kthreads \ {k} : UNCHANGED <<pc[j], on[j], affinity[j]>>
    BY <1>1 DEF Prepare, Bind, bindings
  <2>3. CASE k \in allowed
    <3>1. on'[k] = k /\ affinity'[k] = {k}
      BY <1>1, <2>3 DEF Prepare, Bind
    <3>2. on'[k] \in allowed /\ affinity'[k] \subseteq allowed
      BY <2>3, <3>1
    <3>3. \A j \in Kthreads : pc'[j] # "none" =>
            on'[j] \in allowed /\ affinity'[j] \subseteq allowed
      BY <2>2, <3>2
    <3>4. \A j \in allowed : pc'[j] \notin {"none", "init"} =>
            on'[j] = j /\ affinity'[j] = {j}
      BY <2>2, <3>1
    <3> QED BY <2>1, <3>3, <3>4
  <2>4. CASE k \notin allowed
    BY <1>1, <2>1, <2>4 DEF Prepare, Bind, bindings
  <2> QED BY <2>3, <2>4
<1>2. ASSUME NEW k \in Kthreads, Register(k) PROVE BoundInv'
  <2>1. on[k] \in allowed /\ map' = [map EXCEPT ![apic[on[k]]] = k]
    BY <1>2 DEF Register, OwnSlot, ApicHere
  <2>2. UNCHANGED <<allowed, apic, on, affinity>>
    BY <1>2 DEF Register, machine, bindings
  <2>3. \A s \in Slots : map'[s] # Nil => \E c \in allowed : apic[c] = s
    BY <2>1
  <2>4. \A j \in Kthreads : /\ pc'[j] # "none" => pc[j] # "none"
                            /\ pc'[j] \notin {"none", "init"} =>
                                 pc[j] \notin {"none", "init"}
    BY <1>2 DEF Register
  <2> QED BY <2>2, <2>3, <2>4
<1>3. ASSUME NEW k \in Kthreads, NEW c \in Kthreads, Migrate(k, c)
      PROVE  BoundInv'
  <2>1. UNCHANGED <<allowed, apic, map, pc, affinity>>
    BY <1>3 DEF Migrate, machine, contexts
  <2>2. pc[k] # "none" /\ c \in affinity[k] /\ on' = [on EXCEPT ![k] = c]
    BY <1>3 DEF Migrate
  <2> QED BY <2>1, <2>2
<1>4. CASE Clone
  <2>1. UNCHANGED <<allowed, apic, map>>
    BY <1>4 DEF Clone, machine, contexts
  <2>2. CASE Goto(0, "exited") /\ UNCHANGED bindings
    BY <1>0, <1>4, <2>1, <2>2 DEF Clone, bindings
  <2>3. ASSUME NEW c \in affinity[0], pc' = [pc EXCEPT ![inx] = "init"],
               affinity' = [affinity EXCEPT ![inx] = affinity[0]],
               on' = [on EXCEPT ![inx] = c]
        PROVE  BoundInv'
    <3>1. c \in allowed /\ affinity[0] \subseteq allowed
      BY <1>0
    <3>2. \A j \in Kthreads :
            \/ /\ j = inx /\ pc'[j] = "init"
               /\ affinity'[j] = affinity[0] /\ on'[j] = c
            \/ UNCHANGED <<pc[j], affinity[j], on[j]>>
      BY <2>3
    <3> QED BY <2>1, <3>1, <3>2
  <2> QED BY <1>4, <2>2, <2>3 DEF Clone
<1>5. ASSUME \A k \in Kthreads : pc'[k] \in {"none", "init"} <=> pc[k] \in {"none", "init"},
             \A k \in Kthreads : pc'[k] = "none" <=> pc[k] = "none",
             UNCHANGED <<allowed, apic, map, on, affinity>>
      PROVE  BoundInv'
  BY <1>5
<1>6. ASSUME NEW k \in Kthreads, LookUp(k) \/ EnterLoop(k) PROVE BoundInv'
  BY <1>5, <1>6 DEF LookUp, EnterLoop, machine, bindings, contexts
<1>7. CASE StartCount \/ Count \/ Judge \/ FindNext \/ Post
  <2>1. UNCHANGED <<allowed, apic, map, on, affinity>>
    BY <1>7 DEF StartCount, Count, Judge, FindNext, Post, machine, bindings,
                contexts
  <2>2. /\ pc[0] \notin {"none", "init"}
        /\ pc' = pc \/ \E p \in PCs \ {"none", "init"} : Goto(0, p)
    BY <1>7 DEF StartCount, Count, Judge, Verdict, FindNext, Post, PCs, Returned
  <2> QED BY <1>0, <1>5, <2>1, <2>2
<1>8. ASSUME NEW g \in Groups, Create(g) PROVE BoundInv'
  BY <1>0, <1>5, <1>8 DEF Create, machine, bindings
<1>9. CASE UNCHANGED vars
  BY <1>9 DEF vars, machine, bindings, contexts
<1> QED BY <1>1, <1>2, <1>3, <1>4, <1>6, <1>7, <1>8, <1>9
        DEF Next, StartUp, FindTarget, StartKthread

LEMMA SameMachine ==
  [Next]_vars => UNCHANGED <<apic, allowed>> /\ (Proper' <=> Proper)
BY DEF Next, vars, StartUp, StartKthread, FindTarget, Clone, StartCount, Count,
       Judge, Prepare, Register, Migrate, LookUp, EnterLoop, Create, FindNext,
       Post, machine, Proper

(* On a proper machine nobody can take another's slot: everybody is bound  *)
(* to its own processor before it looks at its APIC id.                    *)
LEMMA NextMapInv == IInv /\ [Next]_vars => MapInv'
<1> SUFFICES ASSUME IInv, [Next]_vars PROVE MapInv' OBVIOUS
<1> USE DEF IInv, TypeOK, MapInv, Unregistered, At, Goto
<1> DEFINE Placed(k) ==
      /\ \A s \in Slots : map[s] = k => s = apic[k] /\ pc[k] \notin Unregistered
      /\ pc[k] \notin Unregistered => map[apic[k]] = k /\ apicId[k] = apic[k]
      /\ pc[k] \notin {"segv"} /\ (k # 0 => pc[k] # "aborted")
      /\ ctx[k] \in {Nil, k} /\ (pc[k] = "found" => ctx[k] = k)
<1>0. 0 \in Kthreads
  BY DEF Kthreads
<1>1. /\ UNCHANGED <<apic, allowed>>
      /\ Proper' <=> Proper
  BY SameMachine
<1>2. Proper => \A k \in Kthreads :
        pc[k] \notin {"none", "init"} => ApicHere(k) = apic[k]
  BY DEF Proper, BoundInv, ApicHere
<1>3. ASSUME NEW k \in Kthreads, Prepare(k) PROVE MapInv'
  BY <1>1, <1>3 DEF Prepare
<1>4. ASSUME NEW k \in Kthreads, Register(k) PROVE MapInv'
  <2>1. UNCHANGED <<prepared, dnd, ctx>>
    BY <1>4 DEF Register
  <2>2. pc[k] = "bound" /\ pc'[k] \in {"cloning", "registered"}
        /\ \A j \in Kthreads \ {k} : pc'[j] = pc[j]
    BY <1>4 DEF Register
  <2>3. ASSUME Proper, NEW j \in Kthreads PROVE Placed(j)'
    <3>1. map' = [map EXCEPT ![apic[k]] = k]
          /\ apicId' = [apicId EXCEPT ![k] = apic[k]]
      BY <1>2, <1>4, <2>2, <2>3 DEF Register, OwnSlot
    <3>2. Placed(j) /\ Placed(k)
      BY <2>3
    <3>3. j # k => apic[j] # apic[k]
      BY <2>3 DEF Proper
    <3>4. CASE j = k
      BY <1>1, <2>1, <2>2, <3>1, <3>2, <3>4
    <3>5. CASE j # k
      BY <1>1, <2>1, <2>2, <3>1, <3>2, <3>3, <3>5
    <3> QED BY <3>4, <3>5
  <2>4. \A j \in Kthreads : pc'[j] \notin {"none", "init"} =>
          pc[j] \notin {"none", "init"}
    BY <2>2
  <2> QED BY <1>1, <2>1, <2>3, <2>4
<1>5. ASSUME NEW k \in Kthreads, LookUp(k) PROVE MapInv'
  <2>1. UNCHANGED <<prepared, dnd, map, apicId>>
    BY <1>5 DEF LookUp
  <2>2. pc[k] = "registered" /\ pc'[k] \in {"segv", "found"}
        /\ \A j \in Kthreads \ {k} : pc'[j] = pc[j] /\ ctx'[j] = ctx[j]
    BY <1>5 DEF LookUp
  <2>3. Proper => pc'[k] = "found" /\ ctx'[k] = k
    BY <1>2, <1>5, <2>2 DEF LookUp, Here
  <2>4. ASSUME Proper, NEW j \in Kthreads PROVE Placed(j)'
    <3>1. Placed(j)
      BY <2>4
    <3>2. CASE j = k
      BY <1>1, <2>1, <2>2, <2>3, <2>4, <3>1, <3>2
    <3>3. CASE j # k
      BY <1>1, <2>1, <2>2, <3>1, <3>3
    <3> QED BY <3>2, <3>3
  <2>5. \A j \in Kthreads : pc'[j] \notin {"none", "init"} =>
          pc[j] \notin {"none", "init"}
    BY <2>2
  <2> QED BY <1>1, <2>1, <2>4, <2>5
<1>6. ASSUME NEW k \in Kthreads, EnterLoop(k) PROVE MapInv'
  <2>1. UNCHANGED <<prepared, dnd, map, apicId, ctx>>
    BY <1>6 DEF EnterLoop, contexts
  <2>2. pc[k] = "found" /\ pc'[k] \in {"loop", "aborted"}
        /\ \A j \in Kthreads \ {k} : pc'[j] = pc[j]
    BY <1>6 DEF EnterLoop
  <2>3. Proper => pc'[k] = "loop"
    BY <1>2, <1>6, <2>2 DEF EnterLoop
  <2> QED BY <1>1, <2>1, <2>2, <2>3
<1>7. CASE Clone
  <2>1. UNCHANGED <<prepared, dnd, map, apicId, ctx>>
    BY <1>7 DEF Clone, contexts
  <2>2. pc[0] = "cloning" /\ inx \in Kthreads /\ pc[inx] = "none" /\ inx # 0
    BY <1>7 DEF Clone, LoopInv, Kthreads
  <2>3. \A j \in Kthreads : \/ pc'[j] = pc[j]
                            \/ j = inx /\ pc'[j] = "init"
                            \/ j = 0 /\ pc'[j] = "exited"
    BY <1>0, <1>7 DEF Clone
  <2> QED BY <1>1, <2>1, <2>2, <2>3
<1>8. CASE StartCount \/ Count \/ Judge \/ FindNext
  <2>1. UNCHANGED <<prepared, map, apicId, ctx>>
        /\ \A k \in Kthreads \ {0} : dnd'[k] = dnd[k]
    BY <1>8 DEF StartCount, Count, Judge, FindNext, contexts
  <2>2. /\ pc[0] \in {"cloning", "waiting", "finding"}
        /\ pc'[0] \in {"waiting", "running", "aborted", "posting", "finding"}
        /\ \A k \in Kthreads \ {0} : pc'[k] = pc[k]
    BY <1>0, <1>8 DEF StartCount, Count, Judge, Verdict, FindNext
  <2> QED BY <1>0, <1>1, <2>1, <2>2
<1>9. ASSUME Post \/ \E g \in Groups : Create(g) PROVE MapInv'
  <2>1. UNCHANGED <<prepared, map, apicId, ctx>>
        /\ \E b \in BOOLEAN : dnd' = [dnd EXCEPT ![Here(0)] = b]
    BY <1>9 DEF Create, Post
  <2>2. /\ pc[0] \in {"running", "posting"}
        /\ pc'[0] \in {"running", "finding"}
        /\ \A k \in Kthreads \ {0} : pc'[k] = pc[k]
    BY <1>0, <1>9 DEF Create, Post
  <2>3. Proper => Here(0) = 0
    BY <1>0, <1>2, <2>2 DEF Here
  <2> QED BY <1>0, <1>1, <2>1, <2>2, <2>3
<1>10. ASSUME NEW k \in Kthreads, NEW c \in Kthreads, Migrate(k, c)
       PROVE  MapInv'
  BY <1>1, <1>10 DEF Migrate, contexts
<1>11. CASE UNCHANGED vars
  BY <1>1, <1>11 DEF vars, contexts
<1> QED BY <1>3, <1>4, <1>5, <1>6, <1>7, <1>8, <1>9, <1>10, <1>11
        DEF Next, StartUp, FindTarget, StartKthread

(* gtthread_app_init has counted NumCpus taken slots: a full house. *)
LEMMA NextReadyInv == IInv /\ [Next]_vars => ReadyInv'
<1> SUFFICES ASSUME IInv, [Next]_vars PROVE ReadyInv' OBVIOUS
<1> USE DEF IInv, TypeOK, At, Goto
<1>0. 0 \in Kthreads
  BY DEF Kthreads
<1>1. UNCHANGED apic /\ (Proper' <=> Proper)
  BY SameMachine
<1>2. ASSUME UNCHANGED map, pc'[0] \in Returned => pc[0] \in Returned
      PROVE  ReadyInv'
  BY <1>1, <1>2 DEF ReadyInv
<1>3. CASE Judge
  <2>1. UNCHANGED map
    BY <1>3 DEF Judge
  <2>2. CASE Verdict # "running"
    BY <1>0, <1>2, <1>3, <2>1, <2>2 DEF Judge, Verdict, Returned
  <2>3. CASE Verdict = "running"
    <3> DEFINE T == TakenBelow(MaxCores)
    <3>1. initDone >= NumCpus /\ pc[0] = "waiting" /\ inx = MaxCores
      BY <1>3, <2>3 DEF Judge, Verdict, AllThere
    <3>2. T \in SUBSET Slots /\ Cardinality(T) \in Nat
      BY SlotsFinite DEF TakenBelow
    <3>3. Cardinality(T) >= NumCpus
      <4> HIDE DEF T
      <4> QED BY <3>1, <3>2 DEF CountInv, T
    <3>4. \A s \in T : \E c \in allowed : apic[c] = s
      BY DEF BoundInv, TakenBelow
    <3>5. /\ allowed = Kthreads
          /\ \A j, k \in Kthreads : apic[j] = apic[k] => j = k
          /\ \A k \in Kthreads : apic[k] \in T
      <4> HIDE DEF T
      <4> QED BY <3>2, <3>3, <3>4, FullHouse
    <3>6. Proper
      BY <3>5 DEF Proper
    <3>7. \A k \in Kthreads : map[apic[k]] \in Kthreads
      BY <3>5 DEF TakenBelow
    <3>8. \A k \in Kthreads : map[apic[k]] = k
      BY <3>5, <3>6, <3>7 DEF MapInv
    <3> QED BY <1>1, <2>1, <3>6, <3>8 DEF ReadyInv
  <2> QED BY <2>2, <2>3
<1>4. ASSUME NEW k \in Kthreads, Register(k) PROVE ReadyInv'
  <2>1. pc[k] = "bound" /\ pc'[0] \in {pc[0], "cloning"}
    BY <1>0, <1>4 DEF Register
  <2>2. pc[0] \in Returned => Proper /\ map[apic[k]] = k
    BY DEF ReadyInv
  <2>3. pc[0] \notin Returned
    BY <2>1, <2>2 DEF MapInv, Unregistered
  <2> QED BY <2>1, <2>3 DEF ReadyInv, Returned
<1>5. ASSUME NEW k \in Kthreads, Prepare(k) \/ LookUp(k) \/ EnterLoop(k)
      PROVE  ReadyInv'
  BY <1>0, <1>2, <1>5 DEF Prepare, LookUp, EnterLoop, contexts, Returned
<1>6. CASE Clone
  <2>1. pc[0] = "cloning" /\ inx # 0
    BY <1>6 DEF Clone, LoopInv
  <2>2. pc'[0] \notin Returned
    BY <1>0, <1>6, <2>1 DEF Clone, Returned
  <2> QED BY <2>2 DEF ReadyInv
<1>7. CASE StartCount \/ Count
  BY <1>0, <1>7 DEF StartCount, Count, ReadyInv, Returned
<1>8. ASSUME FindNext \/ Post \/ \E g \in Groups : Create(g) PROVE ReadyInv'
  BY <1>0, <1>2, <1>8 DEF Create, FindNext, Post, contexts, Returned
<1>9. ASSUME \/ \E k, c \in Kthreads : Migrate(k, c)
             \/ UNCHANGED vars
      PROVE  ReadyInv'
  BY <1>2, <1>9 DEF Migrate, vars, contexts
<1> QED BY <1>3, <1>4, <1>5, <1>6, <1>7, <1>8, <1>9
        DEF Next, StartUp, FindTarget, StartKthread

LEMMA NextIInv == IInv /\ [Next]_vars => IInv'
BY NextTypeOK, NextLoopInv, NextCountInv, NextBoundInv, NextMapInv, NextReadyInv
DEF IInv

LEMMA Safety == Spec => []IInv
<1>1. Init => IInv BY InitIInv
<1>2. IInv /\ [Next]_vars => IInv' BY NextIInv
<1> QED BY <1>1, <1>2, PTL DEF Spec

(* The variables keep their types, for any number of processors.           *)
THEOREM KthreadsTypeOK == Spec => []TypeOK
<1>1. IInv => TypeOK BY DEF IInv
<1> QED BY <1>1, Safety, PTL

(* When gtthread_app_init returns, all configured processors may be used,  *)
(* their APIC ids differ, and every kthread is on its own processor and in *)
(* its own slot: reading the slots while they are being taken, and perhaps *)
(* overwritten, cannot make main() miss a kthread that is not there.       *)
THEOREM KthreadsReady == Spec => []ReadyWhenReturned
<1>1. IInv => ReadyWhenReturned
  <2> SUFFICES ASSUME IInv, pc[0] \in Returned PROVE ReadyWhenReturned
    BY DEF ReadyWhenReturned
  <2> USE DEF IInv
  <2>1. Proper /\ \A k \in Kthreads : map[apic[k]] = k
    BY DEF ReadyInv
  <2>2. \A k \in Kthreads : pc[k] \notin Unregistered
    BY <2>1 DEF MapInv, TypeOK
  <2>3. \A k \in Kthreads : on[k] = k /\ Here(k) = k
    BY <2>1, <2>2 DEF BoundInv, Proper, Here, ApicHere, Unregistered
  <2>4. \A k \in Kthreads : prepared[k] /\ (k # 0 => dnd[k])
    BY <2>1, <2>2 DEF MapInv, Unregistered
  <2>5. \A k \in Kthreads \ {0} : pc[k] \in Looping /\ ctx[k] \in {Nil, k}
    BY <2>1, <2>2 DEF MapInv, LoopInv
  <2> QED BY <2>1, <2>3, <2>4, <2>5 DEF ReadyWhenReturned
<1> QED BY <1>1, Safety, PTL

-----------------------------------------------------------------------------
(* The order in which ksched_find_target comes by a slot in one round.     *)
Turn(s) == IF s = 0 THEN MaxCores ELSE s

Ahead(g, k) == IF Turn(apic[k]) <= Turn(last[g]) THEN 1 ELSE 0

SpreadInv == \A g \in Groups : \A j, k \in Kthreads :
  posted[g][j] - Ahead(g, j) = posted[g][k] - Ahead(g, k)

(* How far the search has come without meeting anybody: into the round of  *)
(* the last target, or into the next one.                                  *)
Searched == IF pc[0] = "posting" THEN Turn(target) - 1 ELSE Turn(target)

FindInv == pc[0] \in {"finding", "posting"} =>
  \/ /\ Searched >= Turn(last[group])
     /\ \A k \in Kthreads : \/ Turn(apic[k]) <= Turn(last[group])
                             \/ Turn(apic[k]) > Searched
  \/ /\ Searched < Turn(last[group])
     /\ \A k \in Kthreads : /\ Searched < Turn(apic[k])
                             /\ Turn(apic[k]) <= Turn(last[group])

(* Turn is one to one, and the search goes by it. *)
LEMMA TurnNext ==
  /\ \A s \in Slots : Turn(s) \in 1..MaxCores
  /\ \A s, t \in Slots : Turn(s) = Turn(t) => s = t
  /\ \A s \in Slots : Turn((s + 1) % MaxCores) =
       IF Turn(s) = MaxCores THEN 1 ELSE Turn(s) + 1
<1>1. /\ \A s \in Slots : Turn(s) \in 1..MaxCores
      /\ \A s, t \in Slots : Turn(s) = Turn(t) => s = t
  BY DEF Turn, Slots
<1>2. ASSUME NEW s \in Slots
      PROVE  Turn((s + 1) % MaxCores) = IF Turn(s) = MaxCores THEN 1 ELSE Turn(s) + 1
  <2>1. (s + 1) % MaxCores = IF s = MaxCores - 1 THEN 0 ELSE s + 1
    BY NextSlot
  <2> QED BY <2>1 DEF Turn, Slots
<1> QED BY <1>1, <1>2

(* Only a creation turns the wheel. *)
LEMMA OthersKeepTheDeal ==
  ASSUME IInv, [Next]_vars
  PROVE  \/ UNCHANGED <<last, posted>>
            /\ (pc'[0] \in {"finding", "posting"} =>
                  pc'[0] = pc[0] /\ UNCHANGED <<target, group>>)
         \/ Post \/ FindNext \/ \E g \in Groups : Create(g)
<1> USE DEF IInv, TypeOK, At, Goto
<1>0. 0 \in Kthreads
  BY DEF Kthreads
<1>1. ASSUME NEW k \in Kthreads, StartKthread(k)
      PROVE  UNCHANGED dealing /\ pc'[0] \in {pc[0], "bound", "cloning",
                            "registered", "found", "segv", "loop", "aborted"}
  BY <1>0, <1>1 DEF StartKthread, Prepare, Register, LookUp, EnterLoop
<1>2. CASE StartUp
  <2>1. UNCHANGED dealing
    BY <1>2 DEF StartUp, Clone, StartCount, Count, Judge
  <2>2. Clone => pc'[0] \in {"cloning", "exited", "init"}
    BY <1>0 DEF Clone
  <2>3. StartCount => pc'[0] = "waiting"
    BY <1>0 DEF StartCount
  <2>4. Count => pc' = pc
    BY <1>0 DEF Count
  <2>5. Judge => pc'[0] \in {"aborted", "running", "waiting"}
    BY <1>0 DEF Judge, Verdict
  <2> QED BY <1>2, <2>1, <2>2, <2>3, <2>4, <2>5 DEF StartUp, dealing
<1>3. ASSUME NEW k \in Kthreads, NEW c \in Kthreads, Migrate(k, c)
      PROVE  UNCHANGED <<dealing, pc>>
  BY <1>3 DEF Migrate
<1>4. UNCHANGED vars => UNCHANGED <<dealing, pc>>
  BY DEF vars
<1> QED BY <1>1, <1>2, <1>3, <1>4 DEF Next, FindTarget, dealing

(* The slots in use are the APIC ids.  *)
LEMMA SlotOfSomebody ==
  ASSUME IInv, pc[0] \in Returned, NEW s \in Slots
  PROVE  /\ map[s] # Nil => map[s] \in Kthreads /\ apic[map[s]] = s
         /\ map[s] = Nil => \A k \in Kthreads : apic[k] # s
         /\ \A j, k \in Kthreads : apic[j] = apic[k] => j = k
BY DEF IInv, TypeOK, ReadyInv, MapInv, Proper

LEMMA NextFindInv == IInv /\ FindInv /\ [Next]_vars => FindInv'
<1> SUFFICES ASSUME IInv, FindInv, [Next]_vars PROVE FindInv' OBVIOUS
<1>0. 0 \in Kthreads /\ TypeOK' /\ apic' = apic
  <2>1. 0 \in Kthreads BY DEF Kthreads
  <2>2. TypeOK' BY NextTypeOK
  <2>3. apic' = apic BY SameMachine
  <2> QED BY <2>1, <2>2, <2>3
<1> USE DEF IInv, TypeOK, At, Goto
<1>1. CASE UNCHANGED <<last, posted>>
           /\ (pc'[0] \in {"finding", "posting"} =>
                 pc'[0] = pc[0] /\ UNCHANGED <<target, group>>)
  BY <1>0, <1>1 DEF FindInv, Searched
<1>2. CASE Post
  BY <1>0, <1>2 DEF Post, FindInv
<1>3. ASSUME NEW g \in Groups, Create(g) PROVE FindInv'
  <2>1. pc'[0] = "finding" /\ last' = last /\ group' = g /\ target' = last[g]
    BY <1>0, <1>3 DEF Create, LastOf
  <2>2. Searched' = Turn(last[g])
    BY <2>1 DEF Searched
  <2>3. \A k \in Kthreads : Turn(apic[k]) \in Int
    BY TurnNext
  <2>4. Turn(last[g]) \in Int
    BY TurnNext
  <2> QED BY <1>0, <2>1, <2>2, <2>3, <2>4 DEF FindInv
<1>4. CASE FindNext
  <2> DEFINE l == Turn(last[group])
             t == Turn(target)
             n == Turn(target')
  <2>1. /\ pc[0] = "finding" /\ UNCHANGED <<last, group>>
        /\ target' = (target + 1) % MaxCores
        /\ pc'[0] = IF map[target'] # Nil THEN "posting" ELSE "finding"
    BY <1>0, <1>4 DEF FindNext, dealing
  <2>2. group \in Groups
    BY <2>1 DEF LoopInv
  <2>3. l \in 1..MaxCores /\ t \in 1..MaxCores /\ n \in 1..MaxCores
        /\ n = (IF t = MaxCores THEN 1 ELSE t + 1)
        /\ \A k \in Kthreads : Turn(apic[k]) \in 1..MaxCores
    BY <1>0, <2>1, <2>2, TurnNext
  <2>4. \/ t >= l /\ \A k \in Kthreads : Turn(apic[k]) <= l \/ Turn(apic[k]) > t
        \/ t < l /\ \A k \in Kthreads : t < Turn(apic[k]) /\ Turn(apic[k]) <= l
    BY <2>1 DEF FindInv, Searched
  <2>5. map[target'] = Nil => \A k \in Kthreads : Turn(apic[k]) # n
    <3>1. target' \in Slots /\ pc[0] \in Returned
      BY <1>0, <2>1 DEF Returned
    <3>2. map[target'] = Nil => \A k \in Kthreads : apic[k] # target'
      BY <3>1, SlotOfSomebody
    <3> QED BY <3>1, <3>2, TurnNext
  <2>6. Searched' = IF map[target'] = Nil THEN n ELSE n - 1
    BY <2>1 DEF Searched
  <2>7. \/ Searched' >= l /\ \A k \in Kthreads : Turn(apic[k]) <= l \/ Turn(apic[k]) > Searched'
        \/ Searched' < l /\ \A k \in Kthreads : Searched' < Turn(apic[k]) /\ Turn(apic[k]) <= l
    <3> HIDE DEF l, t, n, IInv, TypeOK
    <3>1. CASE map[target'] = Nil
      BY <1>0, <2>3, <2>4, <2>5, <2>6, <3>1
    <3>2. CASE map[target'] # Nil
      BY <1>0, <2>3, <2>4, <2>6, <3>2
    <3> QED BY <3>1, <3>2
  <2> QED BY <1>0, <2>1, <2>7 DEF FindInv
<1> QED BY <1>1, <1>2, <1>3, <1>4, OthersKeepTheDeal

LEMMA NextSpreadInv == IInv /\ FindInv /\ SpreadInv /\ [Next]_vars => SpreadInv'
<1> SUFFICES ASSUME IInv, FindInv, SpreadInv, [Next]_vars PROVE SpreadInv'
  OBVIOUS
<1>0. 0 \in Kthreads /\ TypeOK' /\ apic' = apic
  <2>1. 0 \in Kthreads BY DEF Kthreads
  <2>2. TypeOK' BY NextTypeOK
  <2>3. apic' = apic BY SameMachine
  <2> QED BY <2>1, <2>2, <2>3
<1> USE DEF IInv, TypeOK, At, Goto
<1>1. CASE UNCHANGED <<last, posted>>
  BY <1>0, <1>1 DEF SpreadInv, Ahead
<1>2. CASE FindNext \/ \E g \in Groups : Create(g)
  BY <1>0, <1>2 DEF FindNext, Create, SpreadInv, Ahead
<1>3. CASE Post
  <2> DEFINE m == map[target]
             t == Turn(target)
  <2>1. pc[0] = "posting" /\ group \in Groups /\ m \in Kthreads
        /\ target = apic[m]
    BY <1>3, SlotOfSomebody DEF Post, LoopInv, Returned
  <2>2. PICK g \in Groups : g = group
    BY <2>1
  <2> DEFINE l == Turn(last[g])
  <2>3. last' = [last EXCEPT ![g] = target]
        /\ posted' = [posted EXCEPT ![g][m] = @ + 1]
    BY <1>3, <2>2 DEF Post
  <2>4. \A k \in Kthreads : Turn(apic[k]) \in 1..MaxCores
        /\ (Turn(apic[k]) = t => k = m)
    BY <2>1, TurnNext, SlotOfSomebody DEF Returned
  <2>5. l \in 1..MaxCores /\ t \in 1..MaxCores
    BY TurnNext
  <2>6. \/ t > l /\ \A k \in Kthreads : Turn(apic[k]) <= l \/ Turn(apic[k]) >= t
        \/ t <= l /\ \A k \in Kthreads : t <= Turn(apic[k]) /\ Turn(apic[k]) <= l
    BY <2>1, <2>2, <2>4, <2>5 DEF FindInv, Searched
  <2>7. \A k \in Kthreads :
          /\ Ahead(g, k) = IF Turn(apic[k]) <= l THEN 1 ELSE 0
          /\ Ahead(g, k)' = IF Turn(apic[k]) <= t THEN 1 ELSE 0
    <3>1. last'[g] = target
      BY <2>3
    <3> QED BY <1>0, <3>1 DEF Ahead, Turn
  <2>8. \A k \in Kthreads :
          posted'[g][k] = posted[g][k] + (IF k = m THEN 1 ELSE 0)
    BY <2>1, <2>3
  <2>9. \A k \in Kthreads : posted[g][k] \in Int
    OBVIOUS
  <2>10. \A j, k \in Kthreads :
          posted[g][j] - Ahead(g, j) = posted[g][k] - Ahead(g, k)
    BY DEF SpreadInv
  <2>11. \A j, k \in Kthreads :
          posted'[g][j] - Ahead(g, j)' = posted'[g][k] - Ahead(g, k)'
    <3> HIDE DEF m, l, t, IInv, TypeOK
    <3>1. \A k \in Kthreads : Ahead(g, k)' - Ahead(g, k) =
             IF t <= l THEN (IF k = m THEN 0 ELSE -1)
                       ELSE (IF k = m THEN 1 ELSE 0)
      BY <2>1, <2>4, <2>5, <2>6, <2>7 DEF t
    <3>2. \A k \in Kthreads : Ahead(g, k) \in Int /\ Ahead(g, k)' \in Int
      BY <2>7
    <3> QED BY <2>8, <2>9, <2>10, <3>1, <3>2
  <2>12. \A h \in Groups \ {g} : \A k \in Kthreads :
           Ahead(h, k)' = Ahead(h, k) /\ posted'[h][k] = posted[h][k]
    BY <1>0, <2>3 DEF Ahead, Turn
  <2>13. ASSUME NEW h \in Groups, NEW j \in Kthreads, NEW k \in Kthreads
         PROVE  posted'[h][j] - Ahead(h, j)' = posted'[h][k] - Ahead(h, k)'
    <3>1. CASE h = g
      BY <2>11, <3>1
    <3>2. CASE h # g
      BY <2>12, <3>2 DEF SpreadInv
    <3> QED BY <3>1, <3>2
  <2> QED BY <2>13 DEF SpreadInv
<1> QED BY <1>1, <1>2, <1>3, OthersKeepTheDeal

(* No kthread ever gets two uthreads of a group more than another: the     *)
(* search of ksched_find_target passes over nobody.                        *)
THEOREM GroupsSpread == Spec => []GroupSpread
<1>1. Init => FindInv /\ SpreadInv
  <2> SUFFICES ASSUME Init PROVE FindInv /\ SpreadInv OBVIOUS
  <2>1. FindInv
    BY DEF Init, FindInv, Kthreads
  <2>2. \A g \in Groups : last[g] = 0 /\ \A k \in Kthreads : posted[g][k] = 0
    BY DEF Init
  <2>3. \A k \in Kthreads : Turn(apic[k]) <= MaxCores
    BY TurnNext DEF Init
  <2> QED BY <2>1, <2>2, <2>3 DEF SpreadInv, Ahead, Turn
<1>2. IInv /\ FindInv /\ SpreadInv /\ [Next]_vars => FindInv' /\ SpreadInv'
  BY NextFindInv, NextSpreadInv
<1>3. IInv /\ SpreadInv => GroupSpread
  <2> SUFFICES ASSUME IInv, SpreadInv, NEW g \in Groups,
                      NEW j \in Kthreads, NEW k \in Kthreads
               PROVE  posted[g][j] <= posted[g][k] + 1
    BY DEF GroupSpread
  <2>1. Ahead(g, j) \in {0, 1} /\ Ahead(g, k) \in {0, 1}
    BY DEF Ahead
  <2>2. posted[g][j] \in Nat /\ posted[g][k] \in Nat
    BY DEF IInv, TypeOK
  <2> QED BY <2>1, <2>2 DEF SpreadInv
<1> QED BY <1>1, <1>2, <1>3, Safety, PTL DEF Spec
=============================================================================
