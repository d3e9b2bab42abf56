---------------------------- MODULE UthreadPool ----------------------------
(***************************************************************************)
(* What the thread library promises to a program that uses it, with no     *)
(* signals, locks, program counters or saved contexts: a pool of uthreads  *)
(* served by kthreads.  A uthread is placed on one kthread when it is      *)
(* created, is only ever run by that kthread, one at a time, is completed  *)
(* once, and gtthread_app_exit returns only when every uthread that was    *)
(* created has been completed.  GtSched.tla is shown to implement it.      *)
(***************************************************************************)
EXTENDS Naturals

CONSTANTS
  Kthreads,   \* the kernel threads (virtual processors)
  Threads,    \* every uthread the program may have, main()'s one included
  MainK,      \* the kthread main() runs on
  Master,     \* main()'s own uthread
  Nil         \* NULL

VARIABLES
  ready,      \* [Kthreads -> SUBSET Threads] runnable uthreads, by kthread
  running,    \* [Kthreads -> Threads \cup {Nil}] the uthread on each kthread
  done,       \* the completed uthreads
  returned    \* gtthread_app_exit has returned to main()

poolVars == <<ready, running, done, returned>>

(* A uthread somewhere in the pool: created and not completed. *)
Alive == (UNION {ready[k] : k \in Kthreads})
           \cup ({running[k] : k \in Kthreads} \ {Nil})

PoolInit ==
  /\ ready = [k \in Kthreads |-> {}]
  /\ running = [k \in Kthreads |-> IF k = MainK THEN Master ELSE Nil]
  /\ done = {}
  /\ returned = FALSE

(* A new uthread is placed on some kthread. *)
Spawn(u, k) ==
  /\ u \notin Alive \cup done
  /\ ready' = [ready EXCEPT ![k] = @ \cup {u}]
  /\ UNCHANGED <<running, done, returned>>

(* A free kthread takes one of its own runnable uthreads. *)
Start(u, k) ==
  /\ running[k] = Nil
  /\ u \in ready[k]
  /\ ready' = [ready EXCEPT ![k] = @ \ {u}]
  /\ running' = [running EXCEPT ![k] = u]
  /\ UNCHANGED <<done, returned>>

(* Preemption or yield: back to the same kthread's runnable uthreads. *)
Stop(k) ==
  /\ running[k] # Nil
  /\ ready' = [ready EXCEPT ![k] = @ \cup {running[k]}]
  /\ running' = [running EXCEPT ![k] = Nil]
  /\ UNCHANGED <<done, returned>>

(* The running uthread completes. *)
Complete(k) ==
  /\ running[k] # Nil
  /\ done' = done \cup {running[k]}
  /\ running' = [running EXCEPT ![k] = Nil]
  /\ UNCHANGED <<ready, returned>>

(* gtthread_app_exit returns: nothing is left to run. *)
Return ==
  /\ Alive = {}
  /\ returned' = TRUE
  /\ UNCHANGED <<ready, running, done>>

PoolNext ==
  \/ \E u \in Threads, k \in Kthreads : Spawn(u, k) \/ Start(u, k)
  \/ \E k \in Kthreads : Stop(k) \/ Complete(k)
  \/ Return

PoolSpec == PoolInit /\ [][PoolNext]_poolVars
=============================================================================
