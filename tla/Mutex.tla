------------------------------- MODULE Mutex -------------------------------
(***************************************************************************)
(* What every user of gt_spin_lock and gt_spin_unlock relies on: a lock    *)
(* with at most one owner, that only its owner gives up.                   *)
(***************************************************************************)
CONSTANTS Kthreads, Nil
VARIABLE owner

MutexInit == owner = Nil
Acquire(k) == owner = Nil /\ owner' = k
Release(k) == owner = k /\ owner' = Nil
MutexNext == \E k \in Kthreads : Acquire(k) \/ Release(k)
MutexSpec == MutexInit /\ [][MutexNext]_owner
=============================================================================
