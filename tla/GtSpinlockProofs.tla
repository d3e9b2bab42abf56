-------------------------- MODULE GtSpinlockProofs --------------------------
(***************************************************************************)
(* GtSpinlock is a mutex for any set of kthreads.  MutualExclusion alone   *)
(* is not inductive: a late exchange is harmless only because the word is  *)
(* 1 whenever somebody holds the lock, so WordIsHeld goes with it.         *)
(***************************************************************************)
EXTENDS GtSpinlock, TLAPS

Inv == TypeOK /\ MutualExclusion /\ WordIsHeld

(* gt_spinlock_init leaves the lock free and nobody near it.               *)
LEMMA InitInv == Init => Inv
  BY DEF Init, Inv, TypeOK, PCs, MutualExclusion, WordIsHeld, Holding

(* No step of a lock or an unlock breaks the invariant.                    *)
LEMMA NextInv == Inv /\ [Next]_vars => Inv'
<1> SUFFICES ASSUME Inv, [Next]_vars PROVE Inv'
  OBVIOUS
<1> USE DEF Inv, TypeOK, PCs, MutualExclusion, WordIsHeld, Holding, Goto
<1>1. ASSUME NEW k \in Kthreads, Lock(k) PROVE Inv'
  BY <1>1 DEF Lock
<1>2. ASSUME NEW k \in Kthreads, Read(k) PROVE Inv'
  BY <1>2 DEF Read
<1>3. ASSUME NEW k \in Kthreads, Exchange(k) PROVE Inv'
  <2>1. CASE locked = 0
    BY <1>3, <2>1 DEF Exchange, Free, Taken
  <2>2. CASE locked = 1
    BY <1>3, <2>2 DEF Exchange, Free, Taken
  <2> QED BY <2>1, <2>2
<1>4. ASSUME NEW k \in Kthreads, Unlock(k) PROVE Inv'
  BY <1>4 DEF Unlock
<1>5. ASSUME NEW k \in Kthreads, Test(k) PROVE Inv'
  BY <1>5 DEF Test
<1>6. ASSUME NEW k \in Kthreads, Clear(k) PROVE Inv'
  BY <1>6 DEF Clear, Cleared
<1>7. CASE UNCHANGED vars
  BY <1>7 DEF vars
<1> QED
  BY <1>1, <1>2, <1>3, <1>4, <1>5, <1>6, <1>7 DEF Next, Step

(* The types hold, and the word is 1 exactly while the lock is held. *)
THEOREM SpinInvariant == Spec => []Inv
  BY InitInv, NextInv, PTL DEF Spec

(* gt_spin_lock lets one kthread in at a time, however many have read the  *)
(* word as 0 before the first exchange.                                    *)
THEOREM SpinMutualExclusion == Spec => []MutualExclusion
<1>1. Inv => MutualExclusion
  BY DEF Inv
<1> QED
  BY <1>1, SpinInvariant, PTL

(* The word stays 0 or 1, although gt_spin_unlock stores without looking.  *)
THEOREM SpinTypeOK == Spec => []TypeOK
<1>1. Inv => TypeOK
  BY DEF Inv
<1> QED
  BY <1>1, SpinInvariant, PTL

(* The word is 1 as long as somebody holds the lock, and 0 otherwise: no   *)
(* late exchange opens a lock that is held, none shuts a free one.         *)
THEOREM SpinWordIsHeld == Spec => []WordIsHeld
<1>1. Inv => WordIsHeld
  BY DEF Inv
<1> QED
  BY <1>1, SpinInvariant, PTL

(* The abstract owner under the refinement mapping. *)
Owner == IF \E k \in Kthreads : Holding(k)
         THEN CHOOSE k \in Kthreads : Holding(k) ELSE Nil

(* The owner is whoever holds the lock,                                    *)
LEMMA OwnerHolds ==
  ASSUME MutualExclusion, NEW k \in Kthreads, Holding(k) PROVE Owner = k
  BY DEF MutualExclusion, Owner

(* after a step too,                                                       *)
LEMMA OwnerNext == ASSUME MutualExclusion', NEW k \in Kthreads, Holding(k)'
                   PROVE Owner' = k
  BY DEF MutualExclusion, Owner

(* and the same one as long as the holders are the same.                   *)
LEMMA SameHolders == ASSUME \A k \in Kthreads : Holding(k)' = Holding(k)
                     PROVE Owner' = Owner
  BY DEF Owner

(* The spinlock of the code implements the mutex its callers rely on: an   *)
(* exchange that finds 0 acquires, the store of gt_spin_unlock releases,   *)
(* every other step is invisible.                                          *)
THEOREM SpinImplementsMutex == Spec => IsMutex
<1>1. Init => Lk!MutexInit
  BY DEF Init, Lk!MutexInit, Holding
<1>2. Inv /\ Inv' /\ [Next]_vars => [Lk!MutexNext]_Owner
  <2> SUFFICES ASSUME Inv, Inv', [Next]_vars PROVE Lk!MutexNext \/ Owner' = Owner
    BY DEF Lk!MutexNext, Lk!Acquire, Lk!Release, Owner
  <2>m. MutualExclusion /\ MutualExclusion' /\ TypeOK /\ WordIsHeld /\ WordIsHeld'
    BY DEF Inv
  <2>1. ASSUME NEW k \in Kthreads, Exchange(k), locked = 0
        PROVE Lk!MutexNext
    <3>1. Owner = Nil
      BY <2>m, <2>1 DEF WordIsHeld, Owner
    <3>2. Holding(k)'
      BY <2>m, <2>1 DEF Exchange, Goto, Free, Holding, TypeOK
    <3>3. Owner' = k
      BY <2>m, <3>2, OwnerNext
    <3> QED BY <3>1, <3>3 DEF Lk!MutexNext, Lk!Acquire, Owner
  <2>2. ASSUME NEW k \in Kthreads, Clear(k) PROVE Lk!MutexNext
    <3>1. Owner = k
      BY <2>m, <2>2, OwnerHolds DEF Clear, Holding
    <3>2. locked' = 0
      BY <2>2 DEF Clear, Cleared
    <3>3. Owner' = Nil
      BY <3>2, <2>m DEF WordIsHeld, Owner
    <3> QED BY <3>1, <3>3 DEF Lk!MutexNext, Lk!Release, Owner
  <2>3. ASSUME NEW k \in Kthreads,
               Lock(k) \/ Read(k) \/ (Exchange(k) /\ locked # 0) \/ Unlock(k)
        PROVE Owner' = Owner
    <3>1. \A j \in Kthreads : Holding(j)' = Holding(j)
      BY <2>m, <2>3 DEF Lock, Read, Exchange, Unlock, Free, Goto, Holding, TypeOK
    <3> QED BY <3>1, SameHolders
  <2>4. ASSUME NEW k \in Kthreads, Test(k) PROVE Owner' = Owner
    <3>1. locked # 0
      BY <2>m, <2>4 DEF Test, WordIsHeld, Holding
    <3>2. \A j \in Kthreads : Holding(j)' = Holding(j)
      BY <2>m, <2>4, <3>1 DEF Test, Goto, Holding, TypeOK
    <3> QED BY <3>2, SameHolders
  <2>5. CASE UNCHANGED vars
    <3>1. \A j \in Kthreads : Holding(j)' = Holding(j)
      BY <2>5 DEF vars, Holding
    <3> QED BY <3>1, SameHolders
  <2> QED
    BY <2>1, <2>2, <2>3, <2>4, <2>5 DEF Next, Step
<1> QED
  BY <1>1, <1>2, SpinInvariant, PTL DEF Spec, IsMutex, Lk!MutexSpec, Owner
=============================================================================
