------------------------ MODULE CfsAccountingProofs ------------------------
(***************************************************************************)
(* Theorems about CfsAccounting.tla, for any number of kthreads, up to     *)
(* 5000 uthreads and any bounds.                                           *)
(*                                                                         *)
(* The spread is not inductive: one uthread at the back says nothing of    *)
(* why it may be there.  What is inductive is that the vruntimes above the *)
(* least one plus a charge have no gap (NoGap): only a yield reaches       *)
(* there, and it goes one past a uthread that is queued.  It needs that    *)
(* the uthread a kthread holds is still the least one when it is charged   *)
(* (LeastHeld): those added meanwhile start where main()'s uthread is,     *)
(* which is on the same kthread (MasterThere).                             *)
(***************************************************************************)
EXTENDS CfsAccounting, FiniteSetTheorems, TLAPS

Apart ==
  /\ \A j, k \in Kthreads : j # k => On(j) \cap On(k) = {}
  /\ \A k \in Kthreads : cur[k] \notin queue[k]
  /\ \A k \in Kthreads : On(k) \subseteq created

MasterThere == master => Main \in On(MainK)

LeastHeld == pc[MainK] \in {"run", "period", "slice"} =>
  \A w \in On(MainK) : vruntime[cur[MainK]] <= vruntime[w]

Gapless(L, v) == \A u, w \in L : \A i \in (v[w] + MaxCharge)..v[u] :
  \E x \in L : v[x] = i
NoGap == Gapless(On(MainK), vruntime)

(* The runnable uthreads of k as get_fair_slice counts them. *)
Count(k) == Cardinality(queue[k]) + 1
PeriodOK(k) ==
  /\ period[k] >= MinLatency /\ period[k] <= MinLatency * Count(k)
  /\ k = MainK => period[k] >= MinGranularity * Count(k)
SliceOK(k) ==
  slice[k] \in (IF k = MainK THEN MinGranularity ELSE 1)..MinLatency
Timed == \A k \in Kthreads :
  /\ pc[k] = "slice" => PeriodOK(k)
  /\ pc[k] = "run" => SliceOK(k)

IInv == TypeOK /\ Apart /\ MasterThere /\ LeastHeld /\ NoGap /\ Timed

-----------------------------------------------------------------------------
USE PartiesAssumption, BoundsAssumption

(* Dividing a period that lies between two multiples of n by n.            *)
LEMMA Quotient ==
  ASSUME NEW p \in Nat, NEW n \in Nat \ {0}
  PROVE  /\ p \div n \in Nat
         /\ n <= p => p \div n >= 1
         /\ 1000 * n <= p => p \div n >= 1000
         /\ p <= 5000 * n => p \div n <= 5000
BY SMTT(30)

(* num_threads + 1 counts a uthread in hand as well: 1 to 5000.            *)
LEMMA CountBounds ==
  ASSUME NEW S \in SUBSET Uthreads
  PROVE  /\ IsFiniteSet(S)
         /\ Cardinality(S) \in Nat
         /\ Cardinality(S) <= Cardinality(Uthreads)
BY FS_Subset, FS_CardinalityType

(* A picked uthread was one of those that are counted, so those left in    *)
(* the queue are fewer than all.                                           *)
LEMMA FewerQueued ==
  ASSUME NEW S \in SUBSET Uthreads, NEW u \in Uthreads, u \notin S
  PROVE  Cardinality(S) + 1 <= 5000
<1>1. IsFiniteSet(S) /\ Cardinality(S) \in Nat
  BY CountBounds
<1>2. Cardinality(S \cup {u}) = Cardinality(S) + 1
  BY <1>1, FS_AddElement
<1>3. Cardinality(S \cup {u}) <= Cardinality(Uthreads)
  BY CountBounds
<1>4. Cardinality(Uthreads) \in Nat
  BY CountBounds
<1> QED
  BY <1>1, <1>2, <1>3, <1>4, UthreadsAssumption

(* One more uthread in a queue is at most one more to count.               *)
LEMMA CountGrows ==
  ASSUME NEW S \in SUBSET Uthreads, NEW u \in Uthreads
  PROVE  /\ Cardinality(S) <= Cardinality(S \cup {u})
         /\ Cardinality(S) \in Nat
         /\ Cardinality(S \cup {u}) \in Nat
<1>1. IsFiniteSet(S \cup {u})
  BY CountBounds, S \cup {u} \in SUBSET Uthreads
<1> QED
  BY <1>1, CountBounds, FS_Subset, FS_CardinalityType

-----------------------------------------------------------------------------
(* gtthread_app_init leaves a state in which all of it holds.              *)
LEMMA InitInv == Init => IInv
<1> SUFFICES ASSUME Init PROVE IInv
  OBVIOUS
<1>1. On(MainK) = {Main}
  BY DEF Init, On
<1>2. \A k \in Kthreads : k # MainK => On(k) = {}
  BY DEF Init, On
<1>3. TypeOK
  BY DEF Init, TypeOK, Places, MinGranularity
<1>4. Apart
  BY <1>1, <1>2 DEF Init, Apart
<1>5. MasterThere /\ LeastHeld
  BY <1>1 DEF Init, MasterThere, LeastHeld
<1>6. NoGap
  <2> SUFFICES ASSUME NEW u \in On(MainK), NEW w \in On(MainK),
                      NEW i \in (vruntime[w] + MaxCharge)..vruntime[u]
               PROVE  FALSE
    BY DEF NoGap, Gapless
  <2> QED
    BY <1>1 DEF Init
<1>7. Timed
  BY DEF Init, Timed, SliceOK, MinGranularity, MinLatency
<1> QED
  BY <1>3, <1>4, <1>5, <1>6, <1>7 DEF IInv

(* What get_fair_period answers, for the n runnable uthreads it counted.   *)
LEMMA PeriodBounds ==
  ASSUME NEW n \in Nat \ {0}
  PROVE  /\ FairPeriod(n) \in Nat
         /\ FairPeriod(n) >= MinLatency
         /\ FairPeriod(n) >= MinGranularity * n
         /\ FairPeriod(n) <= MinLatency * n
BY DEF FairPeriod, MinGranularity, MinLatency

(* The types are kept by every step.                                       *)
LEMMA TypeNext == TypeOK /\ [Next]_vars => TypeOK'
<1> SUFFICES ASSUME TypeOK, [Next]_vars PROVE TypeOK'
  OBVIOUS
<1> USE DEF TypeOK, Goto, Places
<1>1. CASE \E u \in Uthreads, t \in Kthreads : Create(u, t)
  BY <1>1 DEF Create, Adopted
<1>2. ASSUME NEW k \in Kthreads, NEW c \in 0..MaxCharge, Preempt(k, c)
      PROVE  TypeOK'
  BY <1>2 DEF Preempt, Charged
<1>3. ASSUME NEW k \in Kthreads, NEW c \in 0..MaxCharge, Finish(k, c)
      PROVE  TypeOK'
  BY <1>3 DEF Finish, Charged
<1>4. ASSUME NEW k \in Kthreads, Yield(k)
      PROVE  TypeOK'
  BY <1>4 DEF Yield, Rightmost
<1>5. ASSUME NEW k \in Kthreads, PutBack(k)
      PROVE  TypeOK'
  BY <1>5 DEF PutBack
<1>6. ASSUME NEW k \in Kthreads, Pick(k)
      PROVE  TypeOK'
  BY <1>6 DEF Pick, Best
<1>7. ASSUME NEW k \in Kthreads, Period(k)
      PROVE  TypeOK'
  <2>1. FairPeriod(Cardinality(queue[k]) + 1) \in Nat
    BY CountBounds, PeriodBounds, queue[k] \in SUBSET Uthreads
  <2> QED
    BY <1>7, <2>1 DEF Period
<1>8. ASSUME NEW k \in Kthreads, Slice(k)
      PROVE  TypeOK'
  <2>1. /\ Cardinality(queue[k]) + 1 \in Nat \ {0}
        /\ period[k] * Nice \in Nat
    BY CountBounds, queue[k] \in SUBSET Uthreads DEF Nice
  <2>2. FairSlice(period[k], Cardinality(queue[k]) + 1) \in Nat
    BY <2>1, Quotient DEF FairSlice
  <2> QED
    BY <1>8, <2>2 DEF Slice
<1>9. CASE UNCHANGED vars
  BY <1>9 DEF vars
<1> QED
  BY <1>1, <1>2, <1>3, <1>4, <1>5, <1>6, <1>7, <1>8, <1>9 DEF Next

(* Who is where changes only by Create, Finish and the two moves between   *)
(* a queue and its kthread.                                                *)
LEMMA OnAfter ==
  ASSUME TypeOK, Apart, NEW k \in Kthreads
  PROVE  /\ PutBack(k) \/ Pick(k) => \A j \in Kthreads : On(j)' = On(j)
         /\ \A c \in 0..MaxCharge : Finish(k, c) =>
              /\ On(k)' = On(k) \ {cur[k]}
              /\ \A j \in Kthreads \ {k} : On(j)' = On(j)
         /\ \A u \in Uthreads : Create(u, k) =>
              /\ On(k)' = On(k) \cup {u}
              /\ \A j \in Kthreads \ {k} : On(j)' = On(j)
<1>1. ASSUME PutBack(k) PROVE \A j \in Kthreads : On(j)' = On(j)
  <2>1. cur[k] \in Uthreads /\ cur[k] # Nil
    BY <1>1 DEF TypeOK, PutBack
  <2>2. \A j \in Kthreads \ {k} : On(j)' = On(j)
    BY <1>1 DEF On, PutBack, TypeOK
  <2>3. On(k)' = On(k)
    BY <1>1, <2>1 DEF On, PutBack, TypeOK
  <2> QED
    BY <2>2, <2>3
<1>2. ASSUME Pick(k) PROVE \A j \in Kthreads : On(j)' = On(j)
  <2>1. PICK u \in Best(k) : /\ queue' = [queue EXCEPT ![k] = @ \ {u}]
                             /\ cur' = [cur EXCEPT ![k] = u]
    BY <1>2 DEF Pick
  <2>2. u \in queue[k] /\ u # Nil /\ cur[k] = Nil
    BY <1>2 DEF TypeOK, Pick, Best
  <2>3. \A j \in Kthreads \ {k} : On(j)' = On(j)
    BY <2>1 DEF On, TypeOK
  <2>4. On(k)' = On(k)
    BY <2>1, <2>2 DEF On, TypeOK
  <2> QED
    BY <2>3, <2>4
<1>3. ASSUME NEW c \in 0..MaxCharge, Finish(k, c)
      PROVE  /\ On(k)' = On(k) \ {cur[k]}
             /\ \A j \in Kthreads \ {k} : On(j)' = On(j)
  <2>1. On(k)' = queue[k]
    BY <1>3 DEF On, Finish, TypeOK
  <2>2. queue[k] = On(k) \ {cur[k]}
    BY DEF On, Apart, TypeOK
  <2> QED
    BY <1>3, <2>1, <2>2 DEF On, Finish, TypeOK
<1>4. ASSUME NEW u \in Uthreads, Create(u, k)
      PROVE  /\ On(k)' = On(k) \cup {u}
             /\ \A j \in Kthreads \ {k} : On(j)' = On(j)
  BY <1>4 DEF On, Create, TypeOK
<1> QED
  BY <1>1, <1>2, <1>3, <1>4

(* No uthread is in two places.                                            *)
LEMMA ApartNext == TypeOK /\ Apart /\ [Next]_vars => Apart'
<1> SUFFICES ASSUME TypeOK, Apart, [Next]_vars PROVE Apart'
  OBVIOUS
<1>1. ASSUME NEW u \in Uthreads, NEW t \in Kthreads, Create(u, t)
      PROVE  Apart'
  <2>1. /\ On(t)' = On(t) \cup {u}
        /\ \A j \in Kthreads \ {t} : On(j)' = On(j)
    BY <1>1, OnAfter
  <2>2. \A j \in Kthreads : u \notin On(j)
    BY <1>1 DEF Create, Apart
  <2>3. created' = created \cup {u} /\ cur' = cur
    BY <1>1 DEF Create
  <2>4. \A k \in Kthreads : cur[k]' \notin queue'[k]
    <3> SUFFICES ASSUME NEW k \in Kthreads PROVE cur[k] \notin queue'[k]
      BY <2>3
    <3>1. cur[k] # u
      BY <2>2, PartiesAssumption DEF On, TypeOK
    <3> QED
      BY <1>1, <3>1 DEF Create, Apart, TypeOK
  <2>5. \A j, k \in Kthreads : j # k => On(j)' \cap On(k)' = {}
    BY <2>1, <2>2 DEF Apart
  <2>6. \A k \in Kthreads : On(k)' \subseteq created'
    BY <2>1, <2>3 DEF Apart
  <2> QED
    BY <2>3, <2>4, <2>5, <2>6 DEF Apart
<1>2. ASSUME NEW k \in Kthreads, NEW c \in 0..MaxCharge, Preempt(k, c)
      PROVE  Apart'
  BY <1>2 DEF Preempt, Apart, On
<1>3. ASSUME NEW k \in Kthreads, NEW c \in 0..MaxCharge, Finish(k, c)
      PROVE  Apart'
  <2>1. \A j \in Kthreads : On(j)' \subseteq On(j)
    BY <1>3, OnAfter
  <2>2. \A j \in Kthreads : cur'[j] \notin queue'[j]
    BY <1>3, PartiesAssumption DEF Finish, Apart, TypeOK
  <2>3. created' = created
    BY <1>3 DEF Finish
  <2> QED
    BY <2>1, <2>2, <2>3 DEF Apart
<1>4. ASSUME NEW k \in Kthreads, Yield(k)
      PROVE  Apart'
  BY <1>4 DEF Yield, Apart, On
<1>5. ASSUME NEW k \in Kthreads, PutBack(k)
      PROVE  Apart'
  <2>1. \A j \in Kthreads : On(j)' = On(j)
    BY <1>5, OnAfter
  <2>2. \A j \in Kthreads : cur'[j] \notin queue'[j]
    BY <1>5, PartiesAssumption DEF PutBack, Apart, TypeOK
  <2>3. created' = created
    BY <1>5 DEF PutBack
  <2> QED
    BY <2>1, <2>2, <2>3 DEF Apart
<1>6. ASSUME NEW k \in Kthreads, Pick(k)
      PROVE  Apart'
  <2>1. \A j \in Kthreads : On(j)' = On(j)
    BY <1>6, OnAfter
  <2>2. \A j \in Kthreads : cur'[j] \notin queue'[j]
    BY <1>6 DEF Pick, Best, Apart, TypeOK
  <2>3. created' = created
    BY <1>6 DEF Pick
  <2> QED
    BY <2>1, <2>2, <2>3 DEF Apart
<1>7. ASSUME NEW k \in Kthreads, Period(k) \/ Slice(k)
      PROVE  Apart'
  BY <1>7 DEF Period, Slice, Apart, On
<1>8. CASE UNCHANGED vars
  BY <1>8 DEF vars, Apart, On
<1> QED
  BY <1>1, <1>2, <1>3, <1>4, <1>5, <1>6, <1>7, <1>8 DEF Next

(* As long as main() has a master thread that uthread is on its kthread.   *)
LEMMA MasterNext ==
  TypeOK /\ Apart /\ MasterThere /\ [Next]_vars => MasterThere'
<1> SUFFICES ASSUME TypeOK, Apart, MasterThere, [Next]_vars, master'
             PROVE  Main \in On(MainK)'
  BY DEF MasterThere
<1>1. ASSUME NEW u \in Uthreads, NEW t \in Kthreads, Create(u, t)
      PROVE  Main \in On(MainK)'
  <2>1. On(MainK) \subseteq On(MainK)'
    BY <1>1, OnAfter
  <2> QED
    BY <1>1, <2>1 DEF Create, MasterThere
<1>2. ASSUME NEW k \in Kthreads, NEW c \in 0..MaxCharge, Finish(k, c)
      PROVE  Main \in On(MainK)'
  <2>1. On(MainK) \ {cur[k]} \subseteq On(MainK)'
    BY <1>2, OnAfter
  <2>2. master /\ cur[k] # Main
    BY <1>2 DEF Finish
  <2> QED
    BY <2>1, <2>2 DEF MasterThere
<1>3. ASSUME NEW k \in Kthreads, PutBack(k) \/ Pick(k)
      PROVE  Main \in On(MainK)'
  <2>1. On(MainK)' = On(MainK) /\ master' = master
    BY <1>3, OnAfter DEF PutBack, Pick
  <2> QED
    BY <2>1 DEF MasterThere
<1>4. ASSUME NEW k \in Kthreads,
             \/ \E c \in 0..MaxCharge : Preempt(k, c)
             \/ Yield(k) \/ Period(k) \/ Slice(k)
      PROVE  Main \in On(MainK)'
  BY <1>4 DEF Preempt, Yield, Period, Slice, MasterThere, On
<1>5. CASE UNCHANGED vars
  BY <1>5 DEF vars, MasterThere, On
<1> QED
  BY <1>1, <1>2, <1>3, <1>4, <1>5 DEF Next

-----------------------------------------------------------------------------
(* What another kthread does to the vruntime of its own uthread does not   *)
(* reach the uthreads of main()'s kthread.                                 *)
LEMMA Elsewhere ==
  ASSUME TypeOK, Apart, NEW k \in Kthreads \ {MainK},
         \/ \E c \in 0..MaxCharge : Preempt(k, c) \/ Finish(k, c)
         \/ Yield(k)
  PROVE  /\ On(MainK)' = On(MainK)
         /\ \A u \in On(MainK) : vruntime'[u] = vruntime[u]
         /\ cur'[MainK] = cur[MainK] /\ pc'[MainK] = pc[MainK]
<1>1. /\ queue'[MainK] = queue[MainK] /\ cur'[MainK] = cur[MainK]
      /\ pc'[MainK] = pc[MainK]
  BY DEF Preempt, Finish, Yield, Goto, TypeOK
<1>2. pc[k] = "run"
  BY DEF Preempt, Finish, Yield
<1>3. cur[k] \in Uthreads /\ cur[k] \notin On(MainK)
  BY <1>2 DEF TypeOK, Apart, On
<1>4. \A u \in Uthreads \ {cur[k]} : vruntime'[u] = vruntime[u]
  BY DEF Preempt, Finish, Yield, Charged, TypeOK
<1>5. On(MainK) \subseteq Uthreads
  BY DEF On, TypeOK
<1> QED
  BY <1>1, <1>3, <1>4, <1>5 DEF On

(* Nobody starts below the uthread that main()'s kthread holds.            *)
LEMMA LeastNext ==
  TypeOK /\ Apart /\ MasterThere /\ LeastHeld /\ [Next]_vars => LeastHeld'
<1> SUFFICES ASSUME TypeOK, Apart, MasterThere, LeastHeld, [Next]_vars
             PROVE  LeastHeld'
  OBVIOUS
<1>1. ASSUME NEW u \in Uthreads, NEW t \in Kthreads, Create(u, t)
      PROVE  LeastHeld'
  <2>1. On(MainK)' \subseteq On(MainK) \cup {u}
    BY <1>1, OnAfter
  <2>2. u \notin On(MainK)
    BY <1>1 DEF Create, Apart
  <2>3. /\ vruntime'[u] = vruntime[Main]
        /\ \A w \in On(MainK) : vruntime'[w] = vruntime[w]
    BY <1>1, <2>2 DEF Create, Adopted, TypeOK, On
  <2>4. Main \in On(MainK) /\ cur' = cur /\ pc' = pc /\ pc[MainK] = "run"
    BY <1>1 DEF Create, MasterThere
  <2>5. cur[MainK] \in On(MainK)
    BY <2>4 DEF TypeOK, On
  <2>6. \A w \in On(MainK) : vruntime[cur[MainK]] <= vruntime[w]
    BY <2>4 DEF LeastHeld
  <2> QED
    BY <2>1, <2>3, <2>4, <2>5, <2>6 DEF LeastHeld
<1>2. ASSUME NEW k \in Kthreads, k # MainK,
             \/ \E c \in 0..MaxCharge : Preempt(k, c) \/ Finish(k, c)
             \/ Yield(k)
      PROVE  LeastHeld'
  <2>1. /\ On(MainK)' = On(MainK)
        /\ \A u \in On(MainK) : vruntime'[u] = vruntime[u]
        /\ cur'[MainK] = cur[MainK] /\ pc'[MainK] = pc[MainK]
    BY <1>2, Elsewhere
  <2>2. pc[MainK] \in {"run", "period", "slice"} => cur[MainK] \in On(MainK)
    BY DEF On, TypeOK
  <2> QED
    BY <2>1, <2>2 DEF LeastHeld
<1>3. ASSUME \/ \E c \in 0..MaxCharge : Preempt(MainK, c) \/ Finish(MainK, c)
             \/ Yield(MainK) \/ PutBack(MainK)
      PROVE  LeastHeld'
  <2>1. pc'[MainK] \in {"put", "pick"}
    BY <1>3 DEF Preempt, Finish, Yield, PutBack, Goto, TypeOK
  <2> QED
    BY <2>1 DEF LeastHeld
<1>4. ASSUME NEW k \in Kthreads, k # MainK, PutBack(k) \/ Pick(k)
      PROVE  LeastHeld'
  <2>1. On(MainK)' = On(MainK)
    BY <1>4, OnAfter
  <2>2. /\ vruntime' = vruntime
        /\ cur'[MainK] = cur[MainK] /\ pc'[MainK] = pc[MainK]
    BY <1>4 DEF PutBack, Pick, Goto, TypeOK
  <2> QED
    BY <2>1, <2>2 DEF LeastHeld
<1>5. ASSUME Pick(MainK)
      PROVE  LeastHeld'
  <2>1. /\ On(MainK)' = On(MainK) /\ vruntime' = vruntime
        /\ cur'[MainK] \in Best(MainK)
    BY <1>5, OnAfter DEF Pick, TypeOK
  <2>2. On(MainK) = queue[MainK]
    BY <1>5 DEF Pick, On, TypeOK
  <2> QED
    BY <2>1, <2>2 DEF LeastHeld, Best
<1>6. ASSUME NEW k \in Kthreads, Period(k) \/ Slice(k)
      PROVE  LeastHeld'
  BY <1>6 DEF Period, Slice, Goto, LeastHeld, On, TypeOK
<1>7. CASE UNCHANGED vars
  BY <1>7 DEF vars, LeastHeld, On
<1> QED
  BY <1>1, <1>2, <1>3, <1>4, <1>5, <1>6, <1>7 DEF Next

-----------------------------------------------------------------------------
(* The four ways in which the uthreads of a kthread or their vruntimes     *)
(* change leave no gap: x, the least one, is charged,                      *)
LEMMA GaplessCharge ==
  ASSUME NEW L \in SUBSET Uthreads, NEW v \in [Uthreads -> Nat],
         Gapless(L, v), NEW x \in L, \A w \in L : v[x] <= v[w],
         NEW c \in 0..MaxCharge
  PROVE  Gapless(L, [v EXCEPT ![x] = @ + c])
<1> DEFINE vv == [v EXCEPT ![x] = @ + c]
<1>1. /\ vv[x] = v[x] + c
      /\ \A w \in L \ {x} : vv[w] = v[w]
  OBVIOUS
<1>2. \A w \in L : v[w] \in Nat
  OBVIOUS
<1> HIDE DEF vv
<1> SUFFICES ASSUME NEW u \in L, NEW w \in L,
                    NEW i \in (vv[w] + MaxCharge)..vv[u]
             PROVE  \E y \in L : vv[y] = i
  BY DEF Gapless, vv
<1>3. i \in Int
  OBVIOUS
<1>4. CASE u = x /\ w # x
  <2>1. i = v[x] + c
    BY <1>1, <1>2, <1>3, <1>4
  <2> QED
    BY <2>1, <1>1
<1>5. CASE u # x
  <2>1. i \in (v[w] + MaxCharge)..v[u] /\ i > v[x]
    BY <1>1, <1>2, <1>3, <1>5
  <2>2. PICK y \in L : v[y] = i
    BY <2>1 DEF Gapless
  <2> QED
    BY <2>1, <2>2, <1>1, <1>2
<1>6. CASE u = x /\ w = x
  BY <1>1, <1>2, <1>3, <1>6
<1> QED
  BY <1>4, <1>5, <1>6

(* it goes one past the last of the others,                                *)
LEMMA GaplessYield ==
  ASSUME NEW L \in SUBSET Uthreads, NEW v \in [Uthreads -> Nat],
         Gapless(L, v), NEW x \in L, \A w \in L : v[x] <= v[w],
         NEW r \in L \ {x}, \A w \in L \ {x} : v[w] <= v[r]
  PROVE  Gapless(L, [v EXCEPT ![x] = v[r] + 1])
<1> DEFINE vv == [v EXCEPT ![x] = v[r] + 1]
<1>1. /\ vv[x] = v[r] + 1
      /\ \A w \in L \ {x} : vv[w] = v[w]
  OBVIOUS
<1>2. \A w \in L : v[w] \in Nat
  OBVIOUS
<1> HIDE DEF vv
<1> SUFFICES ASSUME NEW u \in L, NEW w \in L,
                    NEW i \in (vv[w] + MaxCharge)..vv[u]
             PROVE  \E y \in L : vv[y] = i
  BY DEF Gapless, vv
<1>3. i \in Int
  OBVIOUS
<1>4. CASE w = x
  BY <1>1, <1>2, <1>3, <1>4
<1>5. CASE w # x /\ i = v[r] + 1
  BY <1>1, <1>5
<1>6. CASE w # x /\ i # v[r] + 1
  <2>1. i \in (v[w] + MaxCharge)..v[r] /\ i > v[x]
    BY <1>1, <1>2, <1>3, <1>6
  <2>2. PICK y \in L : v[y] = i
    BY <2>1 DEF Gapless
  <2> QED
    BY <2>1, <2>2, <1>1, <1>2
<1> QED
  BY <1>4, <1>5, <1>6

(* it ends,                                                                *)
LEMMA GaplessLeave ==
  ASSUME NEW L \in SUBSET Uthreads, NEW v \in [Uthreads -> Nat],
         Gapless(L, v), NEW x \in L, \A w \in L : v[x] <= v[w]
  PROVE  Gapless(L \ {x}, v)
<1> SUFFICES ASSUME NEW u \in L \ {x}, NEW w \in L \ {x},
                    NEW i \in (v[w] + MaxCharge)..v[u]
             PROVE  \E y \in L \ {x} : v[y] = i
  BY DEF Gapless
<1>1. v[w] \in Nat /\ v[x] \in Nat /\ i \in Int
  OBVIOUS
<1>2. PICK y \in L : v[y] = i
  BY DEF Gapless
<1> QED
  BY <1>1, <1>2

(* and one joins where m is.                                               *)
LEMMA GaplessJoin ==
  ASSUME NEW L \in SUBSET Uthreads, NEW v \in [Uthreads -> Nat],
         Gapless(L, v), NEW u \in Uthreads \ L, NEW m \in L
  PROVE  Gapless(L \cup {u}, [v EXCEPT ![u] = v[m]])
<1> DEFINE vv == [v EXCEPT ![u] = v[m]]
           like(a) == IF a = u THEN m ELSE a
<1>1. /\ \A a \in L \cup {u} : like(a) \in L /\ vv[a] = v[like(a)]
      /\ \A a \in L : vv[a] = v[a]
  OBVIOUS
<1> HIDE DEF vv, like
<1> SUFFICES ASSUME NEW a \in L \cup {u}, NEW b \in L \cup {u},
                    NEW i \in (vv[b] + MaxCharge)..vv[a]
             PROVE  \E y \in L \cup {u} : vv[y] = i
  BY DEF Gapless, vv
<1>2. PICK y \in L : v[y] = i
  BY <1>1 DEF Gapless
<1> QED
  BY <1>1, <1>2

(* No step opens a gap above the least uthread plus a charge.              *)
LEMMA NoGapNext ==
  TypeOK /\ Apart /\ MasterThere /\ LeastHeld /\ NoGap /\ [Next]_vars
    => NoGap'
<1> SUFFICES ASSUME TypeOK, Apart, MasterThere, LeastHeld, NoGap, [Next]_vars
             PROVE  NoGap'
  OBVIOUS
<1>0. /\ On(MainK) \in SUBSET Uthreads /\ vruntime \in [Uthreads -> Nat]
      /\ pc[MainK] = "run" => cur[MainK] \in On(MainK)
  BY DEF TypeOK, On
<1>1. ASSUME NEW u \in Uthreads, NEW t \in Kthreads, Create(u, t)
      PROVE  NoGap'
  <2>1. vruntime' = [vruntime EXCEPT ![u] = vruntime[Main]]
    BY <1>1 DEF Create, Adopted
  <2>2. u \notin On(MainK) /\ Main \in On(MainK)
    BY <1>1 DEF Create, Apart, MasterThere
  <2>3. CASE t = MainK
    <3>1. On(MainK)' = On(MainK) \cup {u}
      BY <1>1, <2>3, OnAfter
    <3>2. Gapless(On(MainK), vruntime)
      BY DEF NoGap
    <3>3. Gapless(On(MainK) \cup {u},
                  [vruntime EXCEPT ![u] = vruntime[Main]])
      BY <1>0, <2>2, <3>2, GaplessJoin
    <3> QED
      BY <2>1, <3>1, <3>3 DEF NoGap
  <2>4. CASE t # MainK
    <3>1. On(MainK)' = On(MainK)
      BY <1>1, <2>4, OnAfter
    <3> QED
      BY <1>0, <2>1, <2>2, <3>1 DEF NoGap, Gapless
  <2> QED
    BY <2>3, <2>4
<1>2. ASSUME NEW k \in Kthreads, k # MainK,
             \/ \E c \in 0..MaxCharge : Preempt(k, c) \/ Finish(k, c)
             \/ Yield(k)
      PROVE  NoGap'
  BY <1>0, <1>2, Elsewhere DEF NoGap, Gapless
<1>3. ASSUME NEW c \in 0..MaxCharge, Preempt(MainK, c)
      PROVE  NoGap'
  <2>1. /\ On(MainK)' = On(MainK) /\ pc[MainK] = "run"
        /\ vruntime' = [vruntime EXCEPT ![cur[MainK]] = @ + c]
    BY <1>3 DEF Preempt, Charged, On
  <2> QED
    BY <1>0, <2>1, GaplessCharge DEF NoGap, LeastHeld
<1>4. ASSUME NEW c \in 0..MaxCharge, Finish(MainK, c)
      PROVE  NoGap'
  <2>1. On(MainK)' = On(MainK) \ {cur[MainK]} /\ pc[MainK] = "run"
    BY <1>4, OnAfter DEF Finish
  <2>2. \A w \in On(MainK)' : vruntime'[w] = vruntime[w]
    BY <1>0, <1>4, <2>1 DEF Finish, Charged
  <2>3. Gapless(On(MainK)', vruntime)
    BY <1>0, <2>1, GaplessLeave DEF NoGap, LeastHeld
  <2> QED
    BY <2>2, <2>3 DEF NoGap, Gapless
<1>5. ASSUME Yield(MainK)
      PROVE  NoGap'
  <2>1. On(MainK)' = On(MainK) /\ pc[MainK] = "run"
    BY <1>5 DEF Yield, On
  <2>2. CASE vruntime' = vruntime
    BY <2>1, <2>2 DEF NoGap
  <2>3. CASE \E r \in Rightmost(MainK) :
               vruntime' = [vruntime EXCEPT ![cur[MainK]] = vruntime[r] + 1]
    <3>1. PICK r \in Rightmost(MainK) :
                 vruntime' = [vruntime EXCEPT ![cur[MainK]] = vruntime[r] + 1]
      BY <2>3
    <3>2. /\ On(MainK) \ {cur[MainK]} = queue[MainK]
          /\ r \in On(MainK) \ {cur[MainK]}
          /\ \A w \in On(MainK) \ {cur[MainK]} : vruntime[w] <= vruntime[r]
      BY DEF Rightmost, On, Apart, TypeOK
    <3> QED
      BY <1>0, <2>1, <3>1, <3>2, GaplessYield DEF NoGap, LeastHeld
  <2> QED
    BY <1>5, <2>2, <2>3 DEF Yield
<1>6. ASSUME NEW k \in Kthreads, PutBack(k) \/ Pick(k)
      PROVE  NoGap'
  <2>1. On(MainK)' = On(MainK) /\ vruntime' = vruntime
    BY <1>6, OnAfter DEF PutBack, Pick
  <2> QED
    BY <2>1 DEF NoGap
<1>7. ASSUME NEW k \in Kthreads, Period(k) \/ Slice(k)
      PROVE  NoGap'
  BY <1>7 DEF Period, Slice, NoGap, On
<1>8. CASE UNCHANGED vars
  BY <1>8 DEF vars, NoGap, On
<1> QED
  BY <1>1, <1>2, <1>3, <1>4, <1>5, <1>6, <1>7, <1>8 DEF Next

-----------------------------------------------------------------------------
(* The period is read with one count and divided by a later one, and only  *)
(* on another kthread than main()'s can the count have grown.              *)
LEMMA TimedNext == TypeOK /\ Apart /\ Timed /\ [Next]_vars => Timed'
<1> SUFFICES ASSUME TypeOK, Apart, Timed, [Next]_vars, NEW j \in Kthreads
             PROVE  /\ pc'[j] = "slice" => PeriodOK(j)'
                    /\ pc'[j] = "run" => SliceOK(j)'
  BY DEF Timed
<1>0. /\ queue[j] \in SUBSET Uthreads /\ Cardinality(queue[j]) \in Nat
      /\ period[j] \in Nat
  BY CountBounds DEF TypeOK
<1>1. ASSUME NEW u \in Uthreads, NEW t \in Kthreads, Create(u, t)
      PROVE  /\ pc'[j] = "slice" => PeriodOK(j)'
             /\ pc'[j] = "run" => SliceOK(j)'
  <2>1. pc' = pc /\ period' = period /\ slice' = slice /\ pc[MainK] = "run"
    BY <1>1 DEF Create
  <2>2. ASSUME pc[j] = "slice" PROVE PeriodOK(j)'
    <3>1. j # MainK
      BY <2>1, <2>2
    <3>2. /\ Cardinality(queue'[j]) \in Nat
          /\ Cardinality(queue[j]) <= Cardinality(queue'[j])
      <4>1. queue'[j] = IF j = t THEN queue[j] \cup {u} ELSE queue[j]
        BY <1>1 DEF Create, TypeOK
      <4> QED
        BY <1>0, <4>1, CountGrows
    <3>3. PeriodOK(j)
      BY <2>2 DEF Timed
    <3> QED
      BY <1>0, <2>1, <3>1, <3>2, <3>3
      DEF PeriodOK, Count, MinLatency, MinGranularity
  <2> QED
    BY <2>1, <2>2 DEF Timed, SliceOK
<1>2. ASSUME NEW k \in Kthreads,
             \/ \E c \in 0..MaxCharge : Preempt(k, c) \/ Finish(k, c)
             \/ Yield(k) \/ PutBack(k) \/ Pick(k)
      PROVE  /\ pc'[j] = "slice" => PeriodOK(j)'
             /\ pc'[j] = "run" => SliceOK(j)'
  <2>1. period' = period /\ slice' = slice
    BY <1>2 DEF Preempt, Finish, Yield, PutBack, Pick
  <2>2. pc'[k] \in {"put", "pick", "period"}
    BY <1>2 DEF Preempt, Finish, Yield, PutBack, Pick, Goto, TypeOK
  <2>3. j # k => pc'[j] = pc[j] /\ queue'[j] = queue[j]
    BY <1>2 DEF Preempt, Finish, Yield, PutBack, Pick, Goto, TypeOK
  <2> QED
    BY <2>1, <2>2, <2>3 DEF Timed, SliceOK, PeriodOK, Count
<1>3. ASSUME NEW k \in Kthreads, Period(k)
      PROVE  /\ pc'[j] = "slice" => PeriodOK(j)'
             /\ pc'[j] = "run" => SliceOK(j)'
  <2>1. queue' = queue /\ slice' = slice
    BY <1>3 DEF Period
  <2>2. CASE j = k
    <3>1. pc'[j] = "slice" /\ period'[j] = FairPeriod(Count(j))
      BY <1>3, <2>2 DEF Period, Goto, TypeOK, Count
    <3>2. Count(j) \in Nat \ {0} /\ Count(j)' = Count(j)
      BY <1>0, <2>1 DEF Count
    <3> QED
      BY <3>1, <3>2, PeriodBounds DEF PeriodOK
  <2>3. CASE j # k
    <3>1. pc'[j] = pc[j] /\ period'[j] = period[j]
      BY <1>3, <2>3 DEF Period, Goto, TypeOK
    <3> QED
      BY <2>1, <3>1 DEF Timed, SliceOK, PeriodOK, Count
  <2> QED
    BY <2>2, <2>3
<1>4. ASSUME NEW k \in Kthreads, Slice(k)
      PROVE  /\ pc'[j] = "slice" => PeriodOK(j)'
             /\ pc'[j] = "run" => SliceOK(j)'
  <2>1. queue' = queue /\ period' = period
    BY <1>4 DEF Slice
  <2>2. CASE j = k
    <3>1. pc[j] = "slice" /\ PeriodOK(j)
      BY <1>4, <2>2 DEF Slice, Timed
    <3>2. pc'[j] = "run" /\ slice'[j] = period[j] \div Count(j)
      <4>1. slice'[j] = (period[j] * Nice) \div Count(j)
        BY <1>4, <2>2 DEF Slice, FairSlice, Count, TypeOK
      <4>2. period[j] * Nice = period[j]
        BY <1>0 DEF Nice
      <4> QED
        BY <1>4, <2>2, <4>1, <4>2 DEF Slice, Goto, TypeOK
    <3>3. Count(j) \in Nat \ {0} /\ Count(j) <= 5000
      <4>1. cur[j] \in Uthreads /\ cur[j] \notin queue[j]
        BY <3>1 DEF TypeOK, Apart
      <4> QED
        BY <1>0, <4>1, FewerQueued DEF Count
    <3>4. /\ Count(j) <= period[j] /\ period[j] <= 5000 * Count(j)
          /\ j = MainK => 1000 * Count(j) <= period[j]
      BY <1>0, <3>1, <3>3 DEF PeriodOK, MinLatency, MinGranularity
    <3>5. SliceOK(j)'
      BY <1>0, <3>2, <3>3, <3>4, Quotient
      DEF SliceOK, MinLatency, MinGranularity
    <3> QED
      BY <3>2, <3>5
  <2>3. CASE j # k
    <3>1. pc'[j] = pc[j] /\ slice'[j] = slice[j]
      BY <1>4, <2>3 DEF Slice, Goto, TypeOK
    <3> QED
      BY <2>1, <3>1 DEF Timed, SliceOK, PeriodOK, Count
  <2> QED
    BY <2>2, <2>3
<1>5. CASE UNCHANGED vars
  BY <1>5 DEF vars, Timed, SliceOK, PeriodOK, Count
<1> QED
  BY <1>1, <1>2, <1>3, <1>4, <1>5 DEF Next

(* The inductive invariant holds in every state.                           *)
LEMMA Invariance == Spec => []IInv
<1>1. IInv /\ [Next]_vars => IInv'
  BY TypeNext, ApartNext, MasterNext, LeastNext, NoGapNext, TimedNext DEF IInv
<1> QED
  BY <1>1, InitInv, PTL DEF Spec

-----------------------------------------------------------------------------
(* Every vruntime, place and program counter keeps its type, and a kthread *)
(* holds a uthread exactly when it is not looking for one.                 *)
THEOREM AccountingTypeOK == Spec => []TypeOK
BY Invariance, PTL DEF IInv

(* Without a gap the vruntimes from the least one plus a charge up to any  *)
(* other are those of as many different uthreads, none of them the least   *)
(* one, so there are no more of these vruntimes than other uthreads.       *)
LEMMA GaplessSpread ==
  ASSUME NEW L \in SUBSET Uthreads, NEW v \in [Uthreads -> Nat],
         Gapless(L, v), NEW u \in L, NEW w \in L, u # w
  PROVE  v[u] - v[w] <= MaxCharge + Cardinality(L) - 2
<1> DEFINE low == v[w] + MaxCharge
           R == L \ {w}
           V == low..v[u]
           back == {v[x] : x \in R}
<1>1. /\ IsFiniteSet(L) /\ IsFiniteSet(R)
      /\ Cardinality(L) \in Nat /\ Cardinality(R) \in Nat
      /\ Cardinality(R) = Cardinality(L) - 1
  BY CountBounds, FS_RemoveElement, R \in SUBSET Uthreads
<1>2. v[u] \in Nat /\ v[w] \in Nat /\ low \in Nat
  OBVIOUS
<1>3. Cardinality(R) >= 1
  <2>1. Cardinality(R) # 0
    BY <1>1, FS_EmptySet, u \in R
  <2> QED
    BY <1>1, <2>1
<1>4. CASE v[u] < low
  BY <1>1, <1>2, <1>3, <1>4
<1>5. CASE v[u] >= low
  <2>1. IsFiniteSet(V) /\ Cardinality(V) = v[u] - low + 1
    <3> HIDE DEF low
    <3>1. low \in Int /\ v[u] \in Int /\ ~(low > v[u])
      BY <1>2, <1>5
    <3>2. /\ IsFiniteSet(low..v[u])
          /\ Cardinality(low..v[u])
               = IF low > v[u] THEN 0 ELSE v[u] - low + 1
      BY <3>1, FS_Interval
    <3> QED
      BY <3>1, <3>2
  <2>2. \A i \in V : \E x \in R : v[x] = i
    <3> SUFFICES ASSUME NEW i \in V PROVE \E x \in R : v[x] = i
      OBVIOUS
    <3>1. PICK x \in L : v[x] = i
      BY DEF Gapless
    <3>2. x # w
      BY <1>2, <3>1
    <3> QED
      BY <3>1, <3>2
  <2>3. /\ IsFiniteSet(back) /\ V \subseteq back
        /\ Cardinality(back) <= Cardinality(R)
    <3> DEFINE f == [x \in R |-> v[x]]
    <3>1. f \in Surjection(R, back)
      BY DEF Surjection
    <3> QED
      BY <1>1, <2>2, <3>1, FS_Surjection
  <2>4. Cardinality(V) <= Cardinality(R)
    <3> HIDE DEF V, back, R
    <3>1. Cardinality(V) <= Cardinality(back)
      BY <2>3, FS_Subset
    <3> QED
      BY <1>1, <2>1, <2>3, <3>1, FS_CardinalityType
  <2> QED
    BY <1>1, <1>2, <2>1, <2>4
<1> QED
  BY <1>2, <1>4, <1>5

(* No uthread of main()'s kthread lags behind another by more than one     *)
(* charge and a microsecond for each of the others.                        *)
THEOREM SpreadIsBounded == Spec => []SpreadBounded
<1>1. IInv => SpreadBounded
  <2> SUFFICES ASSUME IInv, NEW u \in On(MainK), NEW w \in On(MainK), u # w
               PROVE  vruntime[u] - vruntime[w]
                        <= MaxCharge + Cardinality(On(MainK)) - 2
    BY DEF SpreadBounded
  <2>1. On(MainK) \in SUBSET Uthreads /\ vruntime \in [Uthreads -> Nat]
    BY DEF IInv, TypeOK, On
  <2>2. Gapless(On(MainK), vruntime)
    BY DEF IInv, NoGap
  <2> QED
    BY <2>1, <2>2, GaplessSpread
<1> QED
  BY <1>1, Invariance, PTL

(* The timer is never disarmed by a slice of 0 nor refused, and on main()'s*)
(* kthread no slice is below the granularity.                              *)
THEOREM SlicesAreArmed == Spec => []SliceArmed
<1>1. IInv => SliceArmed
  BY DEF IInv, Timed, SliceOK, SliceArmed
<1> QED
  BY <1>1, Invariance, PTL

(* No step takes back a charge from a uthread of main()'s kthread.         *)
THEOREM NothingIsRefunded == Spec => NeverRefunded
<1> DEFINE Kept == \A u \in On(MainK) : vruntime'[u] >= vruntime[u]
<1>1. IInv /\ [Next]_vars => [Kept]_vars
  <2> SUFFICES ASSUME IInv, Next PROVE Kept
    OBVIOUS
  <2>0. /\ TypeOK /\ Apart /\ LeastHeld
        /\ \A u \in On(MainK) : u \in Uthreads /\ vruntime[u] \in Nat
    BY DEF IInv, TypeOK, On
  <2>1. ASSUME NEW u \in Uthreads, NEW t \in Kthreads, Create(u, t)
        PROVE  Kept
    BY <2>0, <2>1 DEF Create, Apart, TypeOK
  <2>2. ASSUME NEW k \in Kthreads, NEW c \in 0..MaxCharge,
               Preempt(k, c) \/ Finish(k, c)
        PROVE  Kept
    BY <2>0, <2>2 DEF Preempt, Finish, Charged, TypeOK
  <2>3. ASSUME NEW k \in Kthreads, k # MainK, Yield(k)
        PROVE  Kept
    BY <2>0, <2>3, Elsewhere
  <2>4. ASSUME Yield(MainK)
        PROVE  Kept
    <3>1. CASE vruntime' = vruntime
      BY <2>0, <3>1
    <3>2. CASE \E r \in Rightmost(MainK) :
                 vruntime' = [vruntime EXCEPT ![cur[MainK]] = vruntime[r] + 1]
      <4>1. PICK r \in Rightmost(MainK) :
                 vruntime' = [vruntime EXCEPT ![cur[MainK]] = vruntime[r] + 1]
        BY <3>2
      <4>2. r \in On(MainK) /\ vruntime[cur[MainK]] <= vruntime[r]
        BY <2>0, <2>4 DEF Yield, LeastHeld, Rightmost, On
      <4>3. cur[MainK] \in On(MainK)
        BY <2>0, <2>4 DEF Yield, TypeOK, On
      <4> QED
        BY <2>0, <4>1, <4>2, <4>3 DEF TypeOK
    <3> QED
      BY <2>4, <3>1, <3>2 DEF Yield
  <2>5. ASSUME NEW k \in Kthreads,
               PutBack(k) \/ Pick(k) \/ Period(k) \/ Slice(k)
        PROVE  Kept
    BY <2>0, <2>5 DEF PutBack, Pick, Period, Slice
  <2> QED
    BY <2>1, <2>2, <2>3, <2>4, <2>5 DEF Next
<1> QED
  BY <1>1, Invariance, PTL DEF Spec, NeverRefunded
=============================================================================
