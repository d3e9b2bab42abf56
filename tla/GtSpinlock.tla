----------------------------- MODULE GtSpinlock -----------------------------
(***************************************************************************)
(* The lock of gt_spinlock.c, as every kthread uses it: gt_spin_lock, a    *)
(* critical section, gt_spin_unlock.  gt_actual_spinlock first reads the   *)
(* word and only when it reads 0 exchanges it; gt_spin_unlock first tests  *)
(* the word and then clears it.  Each access to the word is one step, and  *)
(* a kthread may be preempted by the kernel between any two.               *)
(***************************************************************************)
EXTENDS Naturals, FiniteSets

CONSTANTS Kthreads, Nil
ASSUME SpinAssumption == Nil \notin Kthreads

(* idle: not using the lock; read, xchg: in gt_actual_spinlock, before the *)
(* read and before the exchange; cs: holding the lock; test, clear: in     *)
(* gt_spin_unlock, before the test and before the store.                   *)
PCs == {"idle", "read", "xchg", "cs", "test", "clear"}

VARIABLES
  locked,     \* gt_spinlock_t.locked
  pc          \* [Kthreads -> PCs]

vars == <<locked, pc>>

Goto(k, l) == pc' = [pc EXCEPT ![k] = l]

(* gt_spinlock_init *)
Init ==
  /\ locked = 0
  /\ pc = [k \in Kthreads |-> "idle"]

(* gt_spin_lock is called. *)
Lock(k) ==
  /\ pc[k] = "idle"
  /\ Goto(k, "read")
  /\ UNCHANGED locked

(* if(!*spinlock): the spin on a plain read. *)
Read(k) ==
  /\ pc[k] = "read"
  /\ Goto(k, IF locked = 0 THEN "xchg" ELSE "read")
  /\ UNCHANGED locked

(* Whether the value exchanged out of the word ends the loop.  (Mutant:    *)
(* the plain read is believed and the exchanged value ignored.)            *)
TrustRead(old) == TRUE
Free(old) == old = 0

(* What the exchange puts into the word.  (Mutant: it is incremented.) *)
Incremented(old) == old + 1
Taken(old) == 1

(* xchg: the word becomes 1, and the loop ends if it was 0. *)
Exchange(k) ==
  /\ pc[k] = "xchg"
  /\ locked' = Taken(locked)
  /\ Goto(k, IF Free(locked) THEN "cs" ELSE "read")

(* gt_spin_unlock is called. *)
Unlock(k) ==
  /\ pc[k] = "cs"
  /\ Goto(k, "test")
  /\ UNCHANGED locked

(* if(spinlock->locked) *)
Test(k) ==
  /\ pc[k] = "test"
  /\ Goto(k, IF locked = 0 THEN "idle" ELSE "clear")
  /\ UNCHANGED locked

(* The value gt_spin_unlock stores.  (Mutant: the word stays taken.) *)
StillTaken == 1
Cleared == 0

Clear(k) ==
  /\ pc[k] = "clear"
  /\ locked' = Cleared
  /\ Goto(k, "idle")

Step(k) == Read(k) \/ Exchange(k) \/ Unlock(k) \/ Test(k) \/ Clear(k)
Next == \E k \in Kthreads : Lock(k) \/ Step(k)

Spec == Init /\ [][Next]_vars

(* Every kthread that is using the lock is scheduled by the kernel and     *)
(* leaves its critical section; nobody is obliged to ask for the lock.     *)
FairSpec == Spec /\ \A k \in Kthreads : WF_vars(Step(k))

-----------------------------------------------------------------------------
(* The word is 0 or 1 and every kthread at a place of the code; proved     *)
(* with SpinInvariant.                                                     *)
TypeOK == locked \in {0, 1} /\ pc \in [Kthreads -> PCs]

Holding(k) == pc[k] \in {"cs", "test", "clear"}

(* At most one kthread is between gt_spin_lock and the end of              *)
(* gt_spin_unlock, although many may have read the word as 0.              *)
MutualExclusion == \A j, k \in Kthreads : Holding(j) /\ Holding(k) => j = k

(* The word is 1 while somebody holds the lock and 0 otherwise: late       *)
(* exchanges that find it taken leave it as it was, however many they are, *)
(* and a release leaves nothing behind.  With MutualExclusion and the      *)
(* types this is the inductive invariant.                                  *)
WordIsHeld == locked = IF \E k \in Kthreads : Holding(k) THEN 1 ELSE 0

(* gt_spinlock implements a mutex. *)
Lk == INSTANCE Mutex WITH
  owner <- IF \E k \in Kthreads : Holding(k)
           THEN CHOOSE k \in Kthreads : Holding(k) ELSE Nil
IsMutex == Lk!MutexSpec

(* Nobody starves everybody: while some kthread wants the lock, some       *)
(* kthread gets it.  (One kthread may wait for ever: there is no queue.)   *)
SomebodyEnters ==
  (\E k \in Kthreads : pc[k] \in {"read", "xchg"})
    ~> (\E k \in Kthreads : pc[k] = "cs")
=============================================================================
