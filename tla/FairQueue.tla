------------------------------ MODULE FairQueue ------------------------------
(***************************************************************************)
(* What a CFS run queue promises the scheduler: the uthreads queued, least *)
(* vruntime first and first come first served among equals, and the first  *)
(* of them whenever one is asked for.  CfsRunqueue.tla is shown to         *)
(* implement it with a red-black tree, a cached minimum and a count.       *)
(***************************************************************************)
EXTENDS Naturals, SequencesExt

CONSTANTS
  Uthreads,
  VruntimeOf,   \* [Uthreads -> SUBSET Nat] the vruntimes a uthread may have
  Leavers       \* the uthreads that may also be removed by name

VARIABLES
  queue,        \* the queued uthreads, in the order they will be picked
  vruntime      \* [Uthreads -> Nat]

queueVars == <<queue, vruntime>>

FairInit ==
  /\ queue = <<>>
  /\ vruntime \in [Uthreads -> UNION {VruntimeOf[u] : u \in Uthreads}]
  /\ \A u \in Uthreads : vruntime[u] \in VruntimeOf[u]

(* A uthread goes in behind all whose vruntime is not larger than its own. *)
Enqueue(u) ==
  /\ ~Contains(queue, u)
  /\ \E k \in 0..Len(queue) :
       /\ \A i \in 1..k : vruntime[queue[i]] <= vruntime[u]
       /\ \A i \in (k + 1)..Len(queue) : vruntime[queue[i]] > vruntime[u]
       /\ queue' = InsertAt(queue, k + 1, u)
  /\ UNCHANGED vruntime

(* The first one leaves. *)
Dequeue ==
  /\ queue # <<>>
  /\ queue' = Tail(queue)
  /\ UNCHANGED vruntime

(* One that need not be the first is removed by name. *)
Leave(u) ==
  /\ u \in Leavers
  /\ \E i \in DOMAIN queue : queue[i] = u /\ queue' = RemoveAt(queue, i)
  /\ UNCHANGED vruntime

(* A uthread that is not queued is charged, by its scheduler. *)
Recharge(u) ==
  /\ ~Contains(queue, u)
  /\ \E v \in VruntimeOf[u] : vruntime' = [vruntime EXCEPT ![u] = v]
  /\ UNCHANGED queue

FairNext ==
  \/ Dequeue
  \/ \E u \in Uthreads : Enqueue(u) \/ Leave(u) \/ Recharge(u)
FairQueueSpec == FairInit /\ [][FairNext]_queueVars
=============================================================================
