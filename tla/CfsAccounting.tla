--------------------------- MODULE CfsAccounting ---------------------------
(***************************************************************************)
(* The virtual runtimes and slices of gt_uthread.c: what a uthread that    *)
(* ran is charged, where one that yields goes, what a new one starts with, *)
(* and for how long the chosen one may run.  A run queue is a set here,    *)
(* and the pick any uthread of least vruntime: FairQueue says which.       *)
(* Signals are GtSched's: uthread_schedule runs undisturbed.               *)
(***************************************************************************)
EXTENDS Integers, FiniteSets

CONSTANTS
  Kthreads,
  Uthreads,
  MainK,        \* the kthread main() runs on
  Main,         \* main()'s uthread, the "master thread"
  Nil,          \* NULL
  MaxCharge,    \* bound: microseconds between two schedules of one kthread
  MaxVruntime   \* bound: the vruntime no uthread is charged beyond

ASSUME PartiesAssumption ==
  /\ MainK \in Kthreads /\ Main \in Uthreads /\ Nil \notin Uthreads
  /\ IsFiniteSet(Uthreads)
ASSUME BoundsAssumption == MaxCharge \in Nat \ {0} /\ MaxVruntime \in Nat
(* 5000 runnable uthreads at once would leave none of them a microsecond. *)
ASSUME UthreadsAssumption == Cardinality(Uthreads) <= 5000

VARIABLES
  queue,        \* [Kthreads -> SUBSET Uthreads]
  cur,          \* [Kthreads -> Uthreads \cup {Nil}] the one a kthread holds
  pc,           \* [Kthreads -> Places] where uthread_schedule is
  created,      \* the uthreads there have been so far
  vruntime,     \* [Uthreads -> Nat]
  master,       \* master_thread of main()'s kthread is set
  period,       \* [Kthreads -> Nat] the local variable of get_fair_slice
  slice         \* [Kthreads -> Nat] what the timer was last set to

vars == <<queue, cur, pc, created, vruntime, master, period, slice>>

Places == {"run", "put", "pick", "period", "slice"}

MinGranularity == 1000
MinLatency == 5000
Nice == 1

(* The uthreads of kthread k. *)
On(k) == queue[k] \cup ({cur[k]} \ {Nil})

(* gtthread_app_init has just returned to main(). *)
Init ==
  /\ queue = [k \in Kthreads |-> {}]
  /\ cur = [k \in Kthreads |-> IF k = MainK THEN Main ELSE Nil]
  /\ pc = [k \in Kthreads |-> IF k = MainK THEN "run" ELSE "pick"]
  /\ created = {Main}
  /\ vruntime = [u \in Uthreads |-> 0]
  /\ master = TRUE
  /\ period = [k \in Kthreads |-> 0]
  /\ slice = [k \in Kthreads |-> IF k = MainK THEN MinGranularity ELSE 0]

Goto(k, place) == pc' = [pc EXCEPT ![k] = place]

(* The vruntime of a new uthread.  (Mutant: as calloc leaves it.) *)
Zero == 0
Adopted == vruntime[Main]

(* uthread_create of u on kthread t.  Only a uthread on main()'s kthread   *)
(* gets through, and only until main() exits: see CreateFromAnyKthread of  *)
(* GtSched.                                                                *)
Create(u, t) ==
  /\ pc[MainK] = "run" /\ master
  /\ u \notin created
  /\ created' = created \cup {u}
  /\ vruntime' = [vruntime EXCEPT ![u] = Adopted]
  /\ queue' = [queue EXCEPT ![t] = @ \cup {u}]
  /\ UNCHANGED <<cur, pc, master, period, slice>>

(* update_vruntime: c microseconds since entry_to_cpu.  (Mutant: counted   *)
(* twice.)                                                                 *)
Twice(u, c) == [vruntime EXCEPT ![u] = @ + c + c]
Charged(u, c) == [vruntime EXCEPT ![u] = @ + c]

(* uthread_schedule of one that was preempted. *)
Preempt(k, c) ==
  /\ pc[k] = "run" /\ vruntime[cur[k]] + c <= MaxVruntime
  /\ vruntime' = Charged(cur[k], c)
  /\ Goto(k, "put")
  /\ UNCHANGED <<queue, cur, created, master, period, slice>>

(* update_vruntime_to_max: one more than any that is queued.  The walk to  *)
(* the rightmost node is taken to be undisturbed here: YieldRace.          *)
Rightmost(k) == {u \in queue[k] : \A w \in queue[k] : vruntime[w] <= vruntime[u]}
Yield(k) ==
  /\ pc[k] = "run"
  /\ \/ /\ queue[k] = {}
        /\ UNCHANGED vruntime
     \/ \E r \in Rightmost(k) :
          /\ vruntime[r] + 1 <= MaxVruntime
          /\ vruntime' = [vruntime EXCEPT ![cur[k]] = vruntime[r] + 1]
  /\ Goto(k, "put")
  /\ UNCHANGED <<queue, cur, created, master, period, slice>>

(* add_to_runqueue *)
PutBack(k) ==
  /\ pc[k] = "put"
  /\ queue' = [queue EXCEPT ![k] = @ \cup {cur[k]}]
  /\ cur' = [cur EXCEPT ![k] = Nil]
  /\ Goto(k, "pick")
  /\ UNCHANGED <<created, vruntime, master, period, slice>>

(* uthread_schedule of one that is DONE: charged for the log, and gone.    *)
(* main() has forgotten its master_thread, in gtthread_app_exit.           *)
Finish(k, c) ==
  /\ pc[k] = "run" /\ vruntime[cur[k]] + c <= MaxVruntime
  /\ vruntime' = Charged(cur[k], c)
  /\ master' = (master /\ cur[k] # Main)
  /\ cur' = [cur EXCEPT ![k] = Nil]
  /\ Goto(k, "pick")
  /\ UNCHANGED <<queue, created, period, slice>>

(* sched_find_best_uthread.  (Mutant: the rightmost.) *)
Best(k) == {u \in queue[k] : \A w \in queue[k] : vruntime[u] <= vruntime[w]}
Pick(k) ==
  /\ pc[k] = "pick"
  /\ \E u \in Best(k) :
       /\ queue' = [queue EXCEPT ![k] = @ \ {u}]
       /\ cur' = [cur EXCEPT ![k] = u]
  /\ Goto(k, "period")
  /\ UNCHANGED <<created, vruntime, master, period, slice>>

(* get_fair_period, which reads num_threads without the lock.              *)
FairPeriod(n) ==
  IF n * MinGranularity < MinLatency THEN MinLatency ELSE n * MinGranularity
Period(k) ==
  /\ pc[k] = "period"
  /\ period' = [period EXCEPT ![k] = FairPeriod(Cardinality(queue[k]) + 1)]
  /\ Goto(k, "slice")
  /\ UNCHANGED <<queue, cur, created, vruntime, master, slice>>

(* get_fair_slice, which reads it again.  (Mutant: divided before it is    *)
(* multiplied.)                                                            *)
DividedFirst(p, n) == p * (Nice \div n)
FairSlice(p, n) == (p * Nice) \div n
Slice(k) ==
  /\ pc[k] = "slice"
  /\ slice' = [slice EXCEPT
                 ![k] = FairSlice(period[k], Cardinality(queue[k]) + 1)]
  /\ Goto(k, "run")
  /\ UNCHANGED <<queue, cur, created, vruntime, master, period>>

Next ==
  \/ \E u \in Uthreads, t \in Kthreads : Create(u, t)
  \/ \E k \in Kthreads :
       \/ \E c \in 0..MaxCharge : Preempt(k, c) \/ Finish(k, c)
       \/ Yield(k) \/ PutBack(k) \/ Pick(k) \/ Period(k) \/ Slice(k)
Spec == Init /\ [][Next]_vars

-----------------------------------------------------------------------------
TypeOK ==
  /\ queue \in [Kthreads -> SUBSET Uthreads]
  /\ cur \in [Kthreads -> Uthreads \cup {Nil}]
  /\ pc \in [Kthreads -> Places]
  /\ created \in SUBSET Uthreads
  /\ vruntime \in [Uthreads -> 0..MaxVruntime]
  /\ master \in BOOLEAN
  /\ period \in [Kthreads -> Nat]
  /\ slice \in [Kthreads -> Nat]
  /\ \A k \in Kthreads : pc[k] = "pick" <=> cur[k] = Nil

(* No uthread of main()'s kthread lags behind another by more than one     *)
(* charge and a microsecond for each of the others, however they yield,    *)
(* end and are created: a yield may move only one past the last, and a new *)
(* one starts among the others.                                            *)
SpreadBounded == \A u, w \in On(MainK) : u # w =>
  vruntime[u] - vruntime[w] <= MaxCharge + Cardinality(On(MainK)) - 2

(* A yield never takes back what a uthread of main()'s kthread was charged,*)
(* although it sets vruntime from the queue alone (gt_uthread.c:389).      *)
NeverRefunded ==
  [][\A u \in On(MainK) : vruntime'[u] >= vruntime[u]]_vars

(* The one-shot timer is set to a time that is not 0, which would disarm   *)
(* it, and less than a second, which setitimer would refuse, although      *)
(* num_threads is read twice and may grow in between; and on main()'s      *)
(* kthread, where nobody else adds, no slice is below the granularity.     *)
SliceArmed == \A k \in Kthreads : pc[k] = "run" =>
  slice[k] \in (IF k = MainK THEN MinGranularity ELSE 1)..MinLatency

(* gt_uthread.c:395-398 on every kthread: "we dont want the timeslices to  *)
(* get too squished".  Refuted.                                            *)
NeverSquished ==
  \A k \in Kthreads : pc[k] = "run" => slice[k] >= MinGranularity

(* gt_uthread.c:382-384: the yielder's vruntime becomes "(maximum of all   *)
(* threads) + 1", so it never falls.  Refuted where uthreads are added     *)
(* from another kthread.                                                   *)
YieldPassesAll ==
  [][\A k \in Kthreads : \A u \in On(k) : vruntime'[u] >= vruntime[u]]_vars
=============================================================================
