------------------------------ MODULE GtKthread ------------------------------
(***************************************************************************)
(* How kthreads come to be, and who gets the uthreads (gt_kthread.c).      *)
(* gtthread_app_init makes a kthread for every configured processor, binds *)
(* each to its own, and waits until all of them have put themselves in     *)
(* kthread_cpu_map, whose slots are APIC ids.  From then on a kthread      *)
(* finds its own context under the APIC id of the processor it runs on,    *)
(* and ksched_find_target deals out the uthreads of each group to the      *)
(* slots in turn.                                                          *)
(*                                                                         *)
(* Kthreads bear their cpuid; main()'s is 0.  What the machine is like is  *)
(* part of the initial state.  Only the program on main()'s kthread can    *)
(* create uthreads: on any other kthread uthread_create reads through a    *)
(* null master_thread before it chooses a target, see GtSched.             *)
(***************************************************************************)
EXTENDS Integers, FiniteSets

CONSTANTS
  NumCpus,      \* sysconf(_SC_NPROCESSORS_CONF)
  MaxCores,     \* GT_MAX_CORES and GT_MAX_KTHREADS
  Groups,       \* the groups of uthreads the program makes
  MaxUthreads,  \* how many uthreads it makes: a bound of the model
  Nil           \* NULL

ASSUME NumCpusAssumption == NumCpus \in Nat \ {0}
ASSUME MaxCoresAssumption == MaxCores \in Nat \ {0}
ASSUME BoundAssumption == MaxUthreads \in Nat

Kthreads == 0..NumCpus - 1
Slots == 0..MaxCores - 1

ASSUME NilAssumption == Nil \notin Kthreads \cup Slots

(***************************************************************************)
(* Where a kthread is executing.                                           *)
(*   none        not yet cloned                                            *)
(*   init        kthread_init, before sched_setaffinity                    *)
(*   bound       kthread_init, before kthread_apic_id                      *)
(*   registered found loop      gtthread_app_start: not yet looked up its  *)
(*               context, looked it up, past the assert                    *)
(*   cloning waiting   gtthread_app_init on main()'s kthread               *)
(*   running finding posting    main() after gtthread_app_init: its own    *)
(*               code, and uthread_create before and after                 *)
(*               ksched_find_target has found a slot in use                *)
(*   exited segv aborted        exit(0), a null pointer, a failed assert   *)
(***************************************************************************)
Returned == {"running", "finding", "posting"}
Looping == {"registered", "found", "loop"}
PCs == {"none", "init", "bound", "cloning", "waiting", "exited", "segv",
        "aborted"} \cup Returned \cup Looping

VARIABLES
  apic,       \* [Kthreads -> Slots] the APIC id of each processor
  allowed,    \* the processors that are online and the process may use
  pc,         \* [Kthreads -> PCs]
  affinity,   \* [Kthreads -> SUBSET Kthreads] the processors it is bound to
  on,         \* [Kthreads -> Kthreads] the processor it runs on
  prepared,   \* [Kthreads -> BOOLEAN] its tid and run queue are there
  dnd,        \* [Kthreads -> BOOLEAN] do_not_disturb
  apicId,     \* [Kthreads -> Slots \cup {Nil}] cpu_apic_id
  map,        \* [Slots -> Kthreads \cup {Nil}] kthread_cpu_map
  ctx,        \* [Kthreads -> Kthreads \cup {Nil}] k_ctx of gtthread_app_start
  inx,        \* the loop index of gtthread_app_init
  initDone,   \* init_done
  last,       \* [Groups -> Slots] last_ugroup_kthread
  group,      \* the group of the uthread that is being created, or Nil
  target,     \* target_cpu of ksched_find_target
  toCreate,   \* how many uthreads the program will still create
  posted      \* [Groups -> [Kthreads -> Nat]] how many each was given

machine == <<apic, allowed>>
bindings == <<affinity, on>>
contexts == <<prepared, dnd, apicId, map, ctx>>
waiting == <<inx, initDone>>
dealing == <<last, group, target, toCreate, posted>>
vars == <<machine, pc, bindings, contexts, waiting, dealing>>

(* main() enters gtthread_app_init, on any processor. *)
Init ==
  /\ apic \in [Kthreads -> Slots]
  /\ allowed \in SUBSET Kthreads
  /\ pc = [k \in Kthreads |-> IF k = 0 THEN "init" ELSE "none"]
  /\ affinity = [k \in Kthreads |-> IF k = 0 THEN allowed ELSE {}]
  /\ on \in [Kthreads -> Kthreads]
  /\ on[0] \in allowed /\ \A k \in Kthreads \ {0} : on[k] = k
  /\ prepared = [k \in Kthreads |-> FALSE]
  /\ dnd = [k \in Kthreads |-> FALSE]
  /\ apicId = [k \in Kthreads |-> Nil]
  /\ map = [s \in Slots |-> Nil]
  /\ ctx = [k \in Kthreads |-> Nil]
  /\ inx = 1 /\ initDone = 0
  /\ last = [g \in Groups |-> 0]
  /\ group = Nil /\ target = 0
  /\ toCreate = MaxUthreads
  /\ posted = [g \in Groups |-> [k \in Kthreads |-> 0]]

At(k, place) == pc[k] = place
Goto(k, place) == pc' = [pc EXCEPT ![k] = place]

(* kthread_apic_id, and kthread_cpu_map[kthread_apic_id()]. *)
ApicHere(k) == apic[on[k]]
Here(k) == map[ApicHere(k)]

-----------------------------------------------------------------------------
(* kthread_init up to sched_yield.  sched_setaffinity fails for a          *)
(* processor that may not be used, and nobody looks at its answer: the     *)
(* kthread stays bound as it was, a clone as main() was.                   *)
Bind(k) ==
  IF k \in allowed
  THEN /\ affinity' = [affinity EXCEPT ![k] = {k}]
       /\ on' = [on EXCEPT ![k] = k]
  ELSE UNCHANGED bindings

Prepare(k) ==
  /\ At(k, "init")
  /\ prepared' = [prepared EXCEPT ![k] = TRUE]
  /\ dnd' = [dnd EXCEPT ![k] = TRUE]
  /\ Bind(k)
  /\ Goto(k, "bound")
  /\ UNCHANGED <<machine, apicId, map, ctx, waiting, dealing>>

(* The slot a kthread takes.  (Mutant: its cpuid's.) *)
CpuidSlot(k) == k % MaxCores
OwnSlot(k) == ApicHere(k)

(* The rest of kthread_init; main() then makes its uthread and installs    *)
(* the signal handlers, which nobody can see before it clones.             *)
Register(k) ==
  /\ At(k, "bound")
  /\ apicId' = [apicId EXCEPT ![k] = ApicHere(k)]
  /\ map' = [map EXCEPT ![OwnSlot(k)] = k]
  /\ Goto(k, IF k = 0 THEN "cloning" ELSE "registered")
  /\ UNCHANGED <<machine, bindings, prepared, dnd, ctx, waiting, dealing>>

(* The kernel moves a kthread about where it is not bound to a processor. *)
Migrate(k, c) ==
  /\ pc[k] \notin {"none", "exited", "segv", "aborted"}
  /\ c \in affinity[k]
  /\ on' = [on EXCEPT ![k] = c]
  /\ UNCHANGED <<machine, pc, affinity, contexts, waiting, dealing>>

(* gtthread_app_init: kthread_create of the next kthread.  If it fails     *)
(* main() calls exit(0), which ends main()'s process and no other.         *)
Clone ==
  /\ At(0, "cloning") /\ inx < NumCpus
  /\ \/ /\ pc' = [pc EXCEPT ![inx] = "init"]
        /\ affinity' = [affinity EXCEPT ![inx] = affinity[0]]
        /\ \E c \in affinity[0] : on' = [on EXCEPT ![inx] = c]
        /\ inx' = inx + 1
     \/ /\ Goto(0, "exited")
        /\ UNCHANGED <<bindings, inx>>
  /\ UNCHANGED <<machine, contexts, initDone, dealing>>

(* To yield_again. *)
StartCount ==
  /\ At(0, "cloning") /\ inx = NumCpus
  /\ Goto(0, "waiting")
  /\ inx' = 0 /\ initDone' = 0
  /\ UNCHANGED <<machine, bindings, contexts, dealing>>

Count ==
  /\ At(0, "waiting") /\ inx < MaxCores
  /\ initDone' = initDone + (IF map[inx] # Nil THEN 1 ELSE 0)
  /\ inx' = inx + 1
  /\ UNCHANGED <<machine, pc, bindings, contexts, dealing>>

(* All kthreads are there.  (Mutants: off by one, either way.) *)
AllButOne == initDone >= NumCpus - 1
MoreThanAll == initDone > NumCpus
AllThere == initDone >= NumCpus

(* init_done for another round.  (Mutant: counted on from before.) *)
CountedOn == initDone
Afresh == 0

(* The assert on init_done, and the wait, once more or over: then          *)
(* do_not_disturb is dropped and main()'s first timer set.                 *)
Verdict == IF initDone > NumCpus THEN "aborted"
           ELSE IF AllThere THEN "running" ELSE "waiting"
Judge ==
  /\ At(0, "waiting") /\ inx = MaxCores
  /\ Goto(0, Verdict)
  /\ inx' = IF Verdict = "waiting" THEN 0 ELSE inx
  /\ initDone' = IF Verdict = "waiting" THEN Afresh ELSE initDone
  /\ dnd' = [dnd EXCEPT ![0] = @ /\ Verdict # "running"]
  /\ UNCHANGED <<machine, bindings, prepared, apicId, map, ctx, dealing>>

-----------------------------------------------------------------------------
(* gtthread_app_start on the other kthreads: each looks its context up ... *)
LookUp(k) ==
  /\ At(k, "registered")
  /\ ctx' = [ctx EXCEPT ![k] = Here(k)]
  /\ Goto(k, IF Here(k) = Nil THEN "segv" ELSE "found")
  /\ UNCHANGED <<machine, bindings, prepared, dnd, apicId, map, waiting,
                 dealing>>

(* ... asserts that it is the one of this processor, and enters its loop.  *)
EnterLoop(k) ==
  /\ At(k, "found")
  /\ Goto(k, IF apicId[ctx[k]] = ApicHere(k) THEN "loop" ELSE "aborted")
  /\ UNCHANGED <<machine, bindings, contexts, waiting, dealing>>

-----------------------------------------------------------------------------
(* uthread_create, into ksched_find_target.  (Mutant: one position for all *)
(* groups.)                                                                *)
AnyLast(g) == last[CHOOSE h \in Groups : TRUE]
LastOf(g) == last[g]

Create(g) ==
  /\ At(0, "running") /\ toCreate > 0
  /\ toCreate' = toCreate - 1
  /\ dnd' = [dnd EXCEPT ![Here(0)] = TRUE]
  /\ group' = g
  /\ target' = LastOf(g)
  /\ Goto(0, "finding")
  /\ UNCHANGED <<machine, bindings, prepared, apicId, map, ctx, waiting, last,
                 posted>>

(* ksched_find_target: one turn of its loop. *)
FindNext ==
  /\ At(0, "finding")
  /\ target' = (target + 1) % MaxCores
  /\ Goto(0, IF map[target'] # Nil THEN "posting" ELSE "finding")
  /\ UNCHANGED <<machine, bindings, contexts, waiting, last, group,
                 toCreate, posted>>

(* ksched_find_target writes last_ugroup_kthread, and uthread_create adds  *)
(* the uthread to the run queue of the kthread found.                      *)
Post ==
  /\ At(0, "posting")
  /\ last' = [last EXCEPT ![group] = target]
  /\ posted' = [posted EXCEPT ![group][map[target]] = @ + 1]
  /\ dnd' = [dnd EXCEPT ![Here(0)] = FALSE]
  /\ group' = Nil
  /\ Goto(0, "running")
  /\ UNCHANGED <<machine, bindings, prepared, apicId, map, ctx, waiting,
                 target, toCreate>>
-----------------------------------------------------------------------------
StartUp == Clone \/ StartCount \/ Count \/ Judge
StartKthread(k) == Prepare(k) \/ Register(k) \/ LookUp(k) \/ EnterLoop(k)
FindTarget == FindNext \/ Post

Next ==
  \/ StartUp \/ FindTarget
  \/ \E k \in Kthreads :
       StartKthread(k) \/ \E c \in Kthreads : Migrate(k, c)
  \/ \E g \in Groups : Create(g)

Spec == Init /\ [][Next]_vars

(* The kernel keeps every kthread running, and clone answers. *)
Fairness ==
  /\ WF_vars(StartUp) /\ WF_vars(FindTarget)
  /\ \A k \in Kthreads : WF_vars(StartKthread(k))
FairSpec == Spec /\ Fairness

-----------------------------------------------------------------------------
TypeOK ==
  /\ apic \in [Kthreads -> Slots]
  /\ allowed \in SUBSET Kthreads
  /\ pc \in [Kthreads -> PCs]
  /\ affinity \in [Kthreads -> SUBSET Kthreads]
  /\ on \in [Kthreads -> Kthreads]
  /\ prepared \in [Kthreads -> BOOLEAN]
  /\ dnd \in [Kthreads -> BOOLEAN]
  /\ apicId \in [Kthreads -> Slots \cup {Nil}]
  /\ map \in [Slots -> Kthreads \cup {Nil}]
  /\ ctx \in [Kthreads -> Kthreads \cup {Nil}]
  /\ inx \in Nat
  /\ initDone \in 0..MaxCores
  /\ last \in [Groups -> Slots]
  /\ group \in Groups \cup {Nil}
  /\ target \in Slots
  /\ toCreate \in 0..MaxUthreads
  /\ posted \in [Groups -> [Kthreads -> Nat]]

(* The machine the library is written for: every configured processor may  *)
(* be used, and no two have the same APIC id.                              *)
Proper ==
  /\ allowed = Kthreads
  /\ \A j, k \in Kthreads : apic[j] = apic[k] => j = k

(* gtthread_app_init returns to main() on a proper machine only, and then  *)
(* everybody is ready for uthreads and signals: each kthread runs on its   *)
(* own processor, finds itself under its APIC id, has a tid and a run      *)
(* queue; the others are still alive, in their own context, and            *)
(* undisturbed by a SIGUSR1 until their loop has taken a uthread.          *)
ReadyWhenReturned == pc[0] \in Returned =>
  /\ Proper
  /\ \A k \in Kthreads :
       /\ on[k] = k /\ Here(k) = k
       /\ prepared[k]
  /\ \A k \in Kthreads \ {0} :
       /\ pc[k] \in Looping
       /\ ctx[k] \in {Nil, k}
       /\ dnd[k]

(* The uthreads of a group are dealt out evenly: no kthread ever has two   *)
(* more of them than another, wherever the slots in use lie in             *)
(* kthread_cpu_map and whatever is created of other groups in between.     *)
GroupSpread == \A g \in Groups : \A j, k \in Kthreads :
  posted[g][j] <= posted[g][k] + 1

(* On a proper machine gtthread_app_init returns, and so does every        *)
(* uthread_create, or else main() has given up because clone failed.       *)
MainGetsOn == Proper => []<>(pc[0] \in {"running", "exited"})

(* gt_kthread.c:392, "yield till other kthreads initialize": where APIC    *)
(* ids differ, as gt_kthread.h:86 says they do, the wait ends.  It does    *)
(* not if a configured processor is offline or denied to the process.      *)
InitReturns ==
  (\A j, k \in Kthreads : apic[j] = apic[k] => j = k)
    => <>(pc[0] \in {"running", "exited"})
=============================================================================
