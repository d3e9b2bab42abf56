# User-level threads with a CFS scheduler: a TLA+ model

The repository is a library of user-level threads (uthreads) that are
multiplexed over one kernel thread (kthread) per processor. Each kthread keeps
a run queue in a red-black tree ordered by virtual runtime, in the manner of
Linux's Completely Fair Scheduler, and is driven by two signals: `SIGVTALRM`,
the end of a slice, and `SIGUSR1`, the arrival of a new uthread.

This directory holds TLA+ modules that model the library, TLC configurations
that check them on small instances, and proofs, checked by TLAPS, that hold for
every instance. `PROJECT.json` says which lines of the source each definition
stands for, which changes of the code ("mutants") each property notices, and
which hazards of the code each property is about.

To check a module: `tlc -config Runqueue.cfg MCCfsRunqueue`. To check its
proofs: `tlapm GtSchedProofs.tla`.


## 1. The system

### Parts, state and operations

| part | source | state | operations |
|---|---|---|---|
| uthread scheduler | `gt_uthread.c`, `gt_kthread.c`, `gt_pq.c`, `gt_signal.c` | per kthread: `cur_uthread`, run queue and its lock, `do_not_disturb`, timer, signal mask, `kthread_env`, `master_thread`; per uthread: `uthread_state`, `uthread_env`; shared: `kthread_cur_uthreads`, `app_exit` | `uthread_create`, `gt_yield`, `uthread_schedule`, `ksched_priority` (the handler of both signals), the loops of `gtthread_app_start` and `gtthread_app_exit` |
| spin lock | `gt_spinlock.c` | one word | `gt_spin_lock`, `gt_spin_unlock` |
| run queue | `cfs_runqueue.c`, `rb/red_black_tree.c` | the tree, the cached minimum `min`, `num_threads`, each uthread's `node` | `add_to_cfs_runqueue`, `get_best_thread`, `get_max_uthread`, `remove_from_cfs_runqueue`; `RBTreeInsert`, `RBDelete`, the queries, `RBTreeDestroy` |
| CFS accounting | `gt_uthread.c:276-306`, `:353-419` | `vruntime`, the slice last set | `update_vruntime`, `update_vruntime_to_max`, `get_fair_period`, `get_fair_slice`, the first `vruntime` of a uthread |
| uthread start-up | `gt_uthread.c:28-116`, `:232-269` | the process-wide handler of `SIGUSR2`, `uthread_init_lock`; per kthread its alternate stack and mask | `uthread_init`, `uthread_context_func` |
| kthread start-up, choice of target | `gt_kthread.c` | `kthread_cpu_map`, `last_ugroup_kthread`; per kthread its processor, `cpu_apic_id`, `do_not_disturb` | `gtthread_app_init`, `kthread_create`, `kthread_init`, the head of `gtthread_app_start`, `ksched_find_target` |
| example program | `gt_matrix.c` | the arguments of each uthread, the matrices | `main`, `uthread_mulmat` |
| the rest | `gt_kthread.h` (malloc wrappers), `gt_bitops.h`, `gt_tailq.h`, the test programs, the tree's own tests and PHP port, `parse_times.py` | none of the scheduler's | |

### How they interact

* A kthread is made by `clone` with the flags `CLONE_VM | CLONE_FS |
  CLONE_FILES | CLONE_SIGHAND`: it shares memory and the table of signal
  handlers with the others, but is a process of its own, with its own interval
  timer, signal mask and alternate stack. A segmentation fault, an `exit` or a
  failed assertion ends that kthread and no other.
* `uthread_create` on one kthread takes the lock of another's run queue, adds
  the new uthread and sends that kthread a `SIGUSR1`. Nobody but its own
  kthread ever takes a uthread from a run queue.
* `ksched_priority` calls `uthread_schedule` on the stack of the uthread it
  interrupted; `uthread_schedule` leaves by `siglongjmp` into the next uthread
  and comes back, when that one is preempted in turn, as the return of
  `sigsetjmp`. `savesigs` is 0, so the mask does not travel with the context.
* `do_not_disturb` makes the handler return at once; it stands in for blocking
  the signals around the scheduler and `uthread_create`.
* `uthread_schedule` starts a new uthread by `uthread_init`, which sends its
  own kthread a `SIGUSR2` to get onto the new stack.
* Everybody finds the kthread it runs on by the APIC id of its processor in
  `kthread_cpu_map`; the kthreads put themselves there, and `main()` waits until
  as many slots are taken as there are processors configured.

### What is hard about it

Signals come between any two instructions outside `do_not_disturb`, and other
kthreads run between any two anywhere. Contexts are saved and resumed across
handlers that have not returned. The run queue is read without its lock by
`gt_yield` and by `get_fair_slice`. The handler of `SIGUSR2` is shared and
swapped in and out. `gtthread_app_exit` waits for a count that every kthread
changes. `gtthread_app_init` counts the slots of `kthread_cpu_map` while kthreads
take them, move between processors and may overwrite each other. The tree caches its minimum and lets uthreads keep pointers to its
nodes. The list of hazards in `PROJECT.json` gives each of them its line.

### What makes each part correct

| part | what it must guarantee |
|---|---|
| scheduler | a uthread is always in exactly one place, is resumed from a context of its own, stays on its kthread, completes once; a signal never waits for a lock its own kthread holds; `gtthread_app_exit` returns when, and only when, all have completed |
| spin lock | mutual exclusion; a free lock is taken by somebody who wants it |
| run queue | it is a priority queue by `vruntime`, first come first served among equals; the caches agree with the tree; the tree stays balanced; `node` stays a uthread's own |
| accounting | uthreads of a kthread advance together; a yield costs the yielder its turn and refunds nothing; a slice is a time `setitimer` takes |
| uthread start-up | one stack each; no kthread takes a `SIGUSR2` without a handler; the handler is given back |
| kthread start-up | when `gtthread_app_init` returns every kthread is on its own processor and in its own slot, with a run queue; it does return |
| choice of target | the uthreads of a group are dealt out evenly |


## 2. The modules

| module | what it is | checked by |
|---|---|---|
| `UthreadPool` | what the library promises a program: uthreads placed on kthreads, run one at a time, completed once | abstract; `GtSched` implements it |
| `GtSched` | the scheduler with signals, masks, timers, locks and saved contexts | `SchedSafety`, `SchedLive`, three refutations; `GtSchedProofs` |
| `Mutex` | a lock with one owner | abstract; `GtSpinlock` implements it |
| `GtSpinlock` | the test-and-test-and-set lock, an access to the word at a time | `Spinlock`; `GtSpinlockProofs` |
| `FairQueue` | the queue CFS needs, as a sequence | abstract; `CfsRunqueue` implements it |
| `RedBlackTree` | the tree, pointer by pointer, as operators on memory images | used by the next two; `RedBlackTreeProofs`, `RedBlackWalkProofs` |
| `CfsRunqueue` | `cfs_runqueue.c` over the tree | `Runqueue`, `RunqueueNull`; `CfsRunqueueProofs` |
| `YieldRace` | a kthread's scheduler over `CfsRunqueue`: the unlocked walk of `gt_yield` against an insertion, store by store | `YieldRace`, `YieldTorn`; `CfsRunqueueProofs` |
| `CfsAccounting` | vruntimes and slices | `AccountingFair`; `CfsAccountingProofs` |
| `UthreadInit` | stacks, `SIGUSR2` and `uthread_init_lock`, a system call at a time | `UthreadStart`; `UthreadInitProofs` |
| `GtKthread` | how kthreads come to be and who gets the uthreads | `Kthreads`; `GtKthreadProofs` |
| `GtMatrix` | the program the makefile builds, over `UthreadPool` | refuted: `MatrixArguments` |

The modules named `MC...` give the constants values for TLC. A definition
marked "Mutant" in a comment is a plausible mistake in the definition that
follows it; nothing uses it.

The parts are separate modules because what joins them is narrow, and each side
of a joint states what the other one relies on. `GtSched` takes the run queue as
a set, a pick as any member of it, and the lock as a variable that holds its
owner: `CfsRunqueue` shows that the queue loses and doubles nobody, and
`GtSpinlock` that the lock is a `Mutex`. `CfsAccounting` lets a pick be any
uthread of least vruntime: `FairQueue` says which. `GtSched` lets `uthread_init`
succeed in one step: `UthreadInit` shows that it does and why kthreads cannot
disturb each other there. `GtSched` begins with all kthreads in their loops,
undisturbed and with empty queues, and lets a creator choose any of them:
`GtKthread` shows that this is so when `gtthread_app_init` returns
(`ReadyWhenReturned`), and which one is chosen. `CfsRunqueue` treats an operation under the lock as
one step; `YieldRace` extends it with the scheduler that owns the queue and with
`uthread_create` from outside, and takes every memory image that an insertion
goes through for a step of its own, for the one reader that takes no lock.

### GtSched

`pc[k]` says where kthread `k` is executing; the table at its definition names
the places. Steps that neither another kthread nor a handler can tell apart are
merged. One action is one of:

| actions | code |
|---|---|
| `Create`, `AddLock`, `AddNew`, `Notify` | `uthread_create` up to the run-queue lock (or to the end, when one of its allocations fails), the lock, the insertion, the `tkill` and `do_not_disturb = 0` |
| `Yield`, `YieldTimer`, `YieldSchedule` | `gt_yield` and the two stores of `uthread_schedule` before it is undisturbed |
| `Finish` | `uthread_context_func` after the uthread's function has returned |
| `MainExit`, `IdleLoop`, `LastMile` | `gtthread_app_exit` and the loops |
| `PutDone`, `PutBack`, `AddLock`, `AddPreempted`, `Save` | `uthread_schedule`: the current uthread is counted out, or queued and only then, in a step of its own, its context saved |
| `PickLock`, `Pick`, `PickNothing`, `QuitOrIdle` | `sched_find_best_uthread`, and what follows when it answers NULL |
| `Dispatch`, `Jump`, `Return` | the rest of `uthread_schedule`, with the `siglongjmp` apart because `do_not_disturb` is dropped before it; and the way out of the handler the `siglongjmp` lands in |
| `TimerExpire`, `TakeNotice`, `HandlerSchedule` | the two signals and `ksched_priority` |

A context saved by `sigsetjmp` is the stack of signal frames under it: what
each handler that has not returned interrupted, and the mask to put back. That
is all that distinguishes contexts for the scheduler. `frames[k]` is the stack of
frames beneath kthread `k` now; a signal appends one to it wherever it is taken.

A signal may be taken in two places where `do_not_disturb` is already 0 and the
switch is not over. In `jump`, before the `siglongjmp`, the new frame lies on the
stack of whoever ran before, and what the handler saves is somebody else's frames
(`Foreign`). In `return`, after it, `uthread_schedule`, `ksched_priority` and
`sigreturn` have still to undo the frame at the top: a `SIGUSR1` puts another one
on it, and both are saved with the uthread and come back with it, so that its
stack may grow from one switch to the next (`HandlersNest` says how).
A saved context outside of any handler, the one of `gt_yield`, is back in the
uthread's code at once: there is nothing to undo. The slice timer has just been
set and counts the kthread's own time, so it does not run out in either place.

Between `AddPreempted` and `Save` a uthread is on the run queue with the lock
free and without a context; `saving[k]` is who that is.

`sigaction` is given an `act` of which nobody sets `sa_mask`
(`gt_signal.c:22-27`), so that besides its own signal a handler may block the
other one or not, as the stack happens to have it. `SaMasks` is what it may hold.

Once a kthread has jumped to such frames it
is `lost`, and the model takes no further step for it; the invariants still
hold in those states.

A failed null-pointer access (`segv`), assertion (`aborted`) or first allocation
of `uthread_create` (`exited`) also ends the kthread only, with what it held.

### CfsRunqueue and RedBlackTree

The memory of a tree is a function for each field of `rb_red_blk_node`. The
operators that write return the sequence of images their stores go through. The
mirrored halves of the C code are one definition with a side as its parameter.

A loop that only reads (`Farthest`, `Climb`, `Descend`, the queries) is a
recursive function of the address it is at. A loop that writes is a turn of it
(`InsertTurn`, `DeleteTurn`: what a turn makes of the history and of `x`, or no
change once the loop's condition is false) and the function that gives the
outcome after any number of turns. `RBTreeInsert` and `RBDelete` take the
outcome after as many turns as there are uthreads; that the loop is over by then
is proved (`InsertOver`, `DeleteOver`).

A node bears the name of the uthread it was allocated for, so that
`NodeStaysValid` can say that it still holds that uthread. Operators that only
read (the queries, `RBTreeDestroy` as the order in which it frees) are compared
with plain definitions in `QueriesAgree`, in every tree that is reached.

### YieldRace

The variables of `CfsRunqueue` are what the last holder of the lock left;
`Memory` is what a reader without the lock sees: the first of the images in
`stores`, those that the insertion under way has still to go through, or the
tree if there is none.

| actions | code |
|---|---|
| `Post`, `Store`, `Posted` | `uthread_create` on another kthread: the new uthread's vruntime and the lock, each store of `RBTreeInsert`, the rest of `add_to_cfs_runqueue` and the unlock |
| `Pick` | `sched_find_best_uthread` and the switch |
| `Finish`, `Preempt`, `Yield` | the three ways in which `uthread_schedule` finds its current uthread |
| `Look`, `Top`, `Down`, `Answer` | `get_rightmost`, a read at a time, and `update_vruntime_to_max` |
| `AddCurrent` | `add_to_runqueue` of the current uthread |

What the scheduler itself does under the lock is one step: nobody reads its
queue without the lock meanwhile. That a walk which has met a rotation half done
goes on in what later stores made of it is part of the model.

What may be said of the walk has to be put with care. It need not find the
maximum (section 5); and while an insertion is under way the
torn tree may not lead to the least uthread either, so that nothing is said of
it then. `YieldsToSomebody` therefore speaks of the next pick, and
`WalkMeetsUthreads` of the nodes the walk reads.

### CfsAccounting

The time between two schedules of a kthread is any number up to `MaxCharge`.
Only a uthread on `main()`'s kthread can create, since `uthread_create` on any
other reads through a null `master_thread` (section 5). So a new uthread takes
its vruntime from `main()`'s own, and `SpreadBounded` and `NeverRefunded` are
about `main()`'s kthread. On the others, where uthreads are posted from outside,
neither holds (section 5).

### GtKthread

A kthread bears the number of the processor it is made for (`cpuid`). What the
machine is like is part of the initial state: any APIC id for each processor,
equal ones included, and any set of processors that are online and allowed.

| actions | code |
|---|---|
| `Prepare` | `kthread_init` up to `sched_yield`, with `sched_setaffinity`, whose failure nobody notices |
| `Register` | the rest: the APIC id of the processor it is on, and its slot |
| `Clone` | one turn of the loop of `gtthread_app_init`, or its `exit(0)` |
| `StartCount`, `Count`, `Judge` | the wait at `yield_again`, a slot at a time, with its assert |
| `LookUp`, `EnterLoop` | the head of `gtthread_app_start`, with its assert |
| `Create`, `FindNext`, `Post` | `uthread_create` into `ksched_find_target`, a slot at a time, and out of it |
| `Migrate` | the kernel moves a kthread that is not bound to one processor |

Only the program on `main()`'s kthread creates here, for the reason given above:
any other dies before it chooses a target. So `last_ugroup_kthread`, which is
read before `ksched_lock` is taken and written under it (`gt_kthread.c:208`,
`:216`), has one reader and writer.

### GtMatrix

What a program may rely on is `UthreadPool`, and `GtMatrix` is a program that
relies on it: each of its scheduling steps is a step of the pool, together with
what `main()` or `uthread_mulmat` does there. An access to the arguments of a
uthread is a step; a row of the product is one.


## 3. What TLC checks

| run | instance | distinct states | shows |
|---|---|---|---|
| `SchedSafety` | 2 kthreads, 2 uthreads and `main()`; `main()` and one uthread create, `main()` and the other one yield; allocations may fail; `sa_mask` empty | 1 070 481 | types; one place for each uthread; the count; exit last; locks out of handlers' reach; contexts resumable or about to be saved by the only kthread that could pick them; frames piled up only by `SIGUSR1`s taken on the way out of a handler; a slice always timed for uthreads that create nobody; `main()`'s queue drained; nobody revived; `UthreadPool` implemented |
| `SchedLive` | 2 kthreads, 1 yielding uthread, any `sa_mask` | 19 313 | it completes and `gtthread_app_exit` returns, unless a kthread has derailed |
| `Spinlock` | 4 kthreads | 405 | mutual exclusion, `Mutex` implemented, somebody always enters |
| `Runqueue` | 4 uthreads with vruntimes that tie and change, or every tree of up to 7, and up to 10 filled behind those | 43 247 | `FairQueue` implemented, ties included; the red-black rules, parent pointers, `node`, the caches and the queries agree |
| `YieldRace` | a uthread that yields and four more, posted and picked in any order, two of the vruntimes tied | 738 434 | the walk of `gt_yield` reads uthreads' nodes only, and who yields lets somebody else go first, whatever the walk went through |
| `AccountingFair` | 2 kthreads, `main()` and 3 uthreads, charges up to 2, vruntimes up to 6 | 1 143 535 | bounded spread, no refund, slices that arm the timer |
| `UthreadStart` | 3 kthreads start 4 uthreads | 68 480 | nobody dies, one stack each, the handler given back, each start ends |
| `Kthreads` | 3 configured processors on 4 slots, any APIC ids, any of them not to be used; then 5 uthreads of 2 groups | 186 108 | `gtthread_app_init` returns only when all are ready, and on a proper machine does; groups dealt out evenly |

Two further configurations pass: `SchedAlone` (one kthread and two uthreads
share a processor with `main()` and complete) and `AccountingSlices` (below).
Four more runs end in a counterexample on purpose: they are about things the
comments say and the code does not do (section 5).

### Bounds

* Two kthreads are enough for every interaction of the scheduler: all are
  between one kthread and itself or one other, a creator and its target, and
  one of the two is `main()`'s, which alone has a master thread. Two uthreads
  and `main()` let one kthread have one running, one queued and one arriving.
  The depth of handlers has no bound in the model. Stacks stop
  growing because one `SIGUSR1` is sent for each uthread created and no more; with
  two uthreads some have more than four frames. `SchedSafety` leaves `sa_mask` empty,
  with which a handler can be interrupted most often; `SchedLive` tries every
  value, since what is blocked may be waited for. The theorems hold for any.
* `AccountingFair`: the spread is bounded by `MaxCharge` plus the number of
  others less one; with four uthreads and charges of 2 the bound is 4, and 6 is
  far enough for it to be reached and, by a wrong version, exceeded.
  `MaxVruntime` is a guard on charging and yielding and bounds nothing else;
  the theorems hold for any value of it. (`AccountingSlices.cfg` checks `SliceArmed` for up
  to seven uthreads, where the period outgrows `SCHEDULER_MIN_LATENCY_USEC`;
  the theorem covers all up to 5000.)
* `Runqueue`, many uthreads: up to seven (`AnyOrder`) come and go in every order, which
  makes the trees three and four levels deep; ten, filled in order, are needed
  before `RBDeleteFixUp` climbs and has work left to do at the next level. A
  version that stops after one climb passes with nine uthreads and fails with
  ten.
* `Runqueue`, few uthreads: four with three vruntimes give all patterns of ties
  around a minimum that leaves.
* `YieldRace`: the yielder's walk meets at most one insertion at a time, and may
  meet the next before it ends. With four uthreads besides the yielder one
  insertion rotates at the top, twice if the newcomer is an inner grandchild, and
  the next recolours; the theorems cover rotations anywhere.
* `UthreadStart`: three kthreads, so that one may be in `uthread_init` while
  another waits for the lock and the third runs on a uthread's stack; four
  uthreads, so that a kthread starts one from the stack of another.
* `Kthreads`: three kthreads, so that one may register while another is moved
  or overwritten and `main()` counts; four slots, so that there is one hole, at
  any place, which the search for a target steps over; five uthreads, so that a
  group can go round all three kthreads with one of the other group in between.
  `MaxUthreads` bounds nothing else, and the theorems hold for any value.

Deadlock is not checked where the program may stop: in `GtSched` when all
kthreads have ended, in the accounting at its bound, in `YieldRace` and
`UthreadInit` when all has been done, in `GtKthread` when `main()` has created
all it will. It is checked for `Spinlock` and `Runqueue`.

### Fairness

`GtSched` (`FairSpec`) assumes

* of the kernel, that it keeps every kthread running: weak fairness of what the
  library's code does next (`Schedule`, the handler, `AddNew`, `Notify`, the
  loops);
* of the lock, strong fairness of taking it: there is no queue, so a kthread
  that spins gets it only if it is free again and again and the bus is not
  unfair for ever. `GtSpinlock` proves no more than that somebody gets in;
* of code that a signal may interrupt, strong fairness: a slice is at least a
  millisecond, and the instructions before `do_not_disturb` is raised are few;
* of the program, that a uthread's function returns and `main()` calls
  `gtthread_app_exit`, if they are given the processor again and again
  (`Complete`). A program that violates this may of course hang.

Nothing is assumed of signals: they may be late for ever. `UthreadInit` and
`GtSpinlock` assume weak fairness of each kthread's steps past the lock only.
`GtKthread` assumes weak fairness of each kthread's start-up, of `main()`'s and
of the search for a target: the kernel keeps them running, and `clone` answers.
The program need never create, and the kernel need never move anybody.
"Derailed" in the liveness properties names the states the findings lead to: a
kthread that is lost or dead, or has quit with uthreads on its queue. Liveness
outside of those states is what the code can claim.


## 4. What is proved

For every value of the constants that satisfies the assumptions. The
assumptions only say that names differ (`Nil` is no kthread, `main()`'s uthread
is none that may be created, nor `tree->nil` or `tree->root` a uthread), that
the uthreads are finitely many, that vruntimes are natural numbers, for
`YieldRace` that a yielder's vruntime may become one past anybody else's, for
`GtKthread` that there is at least one processor and one slot, and for
`CfsAccounting` that there are at most 5000 uthreads, as a slice would be 0
with more, and that a charge may be at least one microsecond.

| module | theorems |
|---|---|
| `GtSchedProofs` | `SchedTypeOK`, `SchedLiveInOnePlace`, `SchedCountIsLive`, `SchedExitWaitsForAll`, `SchedLockHolderUndisturbed`; of contexts `SchedResumableContext`, `SchedPreemptible`, `SchedHandlersNest`, `SchedNoJumpWithoutEnv`, `SchedMainDrained`; of the pool `SchedNeverRevived`, `SchedImplementsPool` |
| `RedBlackTreeProofs` | `InsertFixUpDone` |
| `RedBlackWalkProofs` | `DeleteFixUpDone`, `DeleteSound`, `InsertJoins`, `NeighbourIs`, `ExactQueryIs`, `EnumerateIs`, `DestroyIs` |
| `CfsRunqueueProofs` | `RunqueueInvariant`, `RunqueueTypes`, `CachesStayRight`, `NodesStayValid`, `ParentsStayRight`, `RulesHold`, `QueriesStayRight`, `QueueIsFair`; of `gt_yield`'s walk `RaceInvariant`, `RaceKeepsRunqueue`, `WalkStaysOnUthreads`, `YieldReachesSomebody` |
| `GtSpinlockProofs` | `SpinTypeOK`, `SpinMutualExclusion`, `SpinWordIsHeld`, `SpinImplementsMutex` |
| `CfsAccountingProofs` | `AccountingTypeOK`, `SpreadIsBounded`, `NothingIsRefunded`, `SlicesAreArmed` |
| `UthreadInitProofs` | `StartTypeOK`, `StartKillsNobody`, `StartGivesOneStackEach`, `StartGivesHandlerBack` |
| `GtKthreadProofs` | `KthreadsTypeOK`, `KthreadsReady`, `GroupsSpread` |

* **GtSched.** `LiveInOnePlace` is not inductive: a signal in the wrong place
  could find a uthread both in hand and queued. `IInv` adds where
  `do_not_disturb` is raised and where a kthread has a current uthread or one
  on its way (`PcInv`), that a run-queue lock is held exactly in the critical
  sections (`LockInv`), and that no two places hold one uthread (`PlaceInv`). It
  also has what stacks look like, in use or saved (`StackInv`): which frames may
  lie on which, and which signals are blocked over them. Without that `Return`
  could put a kthread back at any place, and `HandlersNest` is a part of it.
  `CountInv` follows along each step from how the set of living uthreads
  changes (`LiveStep`); that `gtthread_app_exit` returns last (`ExitInv`)
  follows from the count, since nobody can create once all are gone.
* **Contexts** (second part of `GtSchedProofs`). A queued uthread is queued before its
  context is saved, and may have been saved with any mask, so what is said of
  queues depends on what is said of stacks and of timers. `CInv` adds three parts
  to `IInv`. `ReadyInv`: the state and context of a uthread fit the place it is
  in, but for the one its own kthread is about to save. `SliceInv`: where uthread
  code runs or is about to, `SIGVTALRM` is open and, for those that
  create nobody, the timer is set. `HomeInv`: `main()`'s uthread stays with
  `main()`'s kthread, so that as long as `kthread_env` there is not filled the
  queue is not empty and nobody jumps through it.
* **The pool** (its third part). `StepForms` goes through the steps once
  and says what each does to the five variables the pool is read from; all but
  eight forms collapse to a stutter. The refinement and `NeverRevived` then
  need eight cases and no code.
* **GtSpinlock.** `Inv` is `TypeOK /\ MutualExclusion /\ WordIsHeld`: the word
  is 1 exactly while somebody holds the lock, so an exchange that returns 0
  finds nobody in. The refinement maps `Exchange` that wins to `Acquire`,
  `Clear` to `Release`, the rest to stutters.
* **CfsAccounting.** The spread is not inductive, because one uthread far behind
  says nothing of why it may be. What is inductive is that the vruntimes above
  the least one plus a charge have no gap (`NoGap`): only a yield reaches there,
  and it goes one past a uthread that is queued. That needs `LeastHeld`, the
  uthread a kthread holds is still a least one when it is charged, which needs
  `MasterThere`, new ones start where `main()`'s uthread is, on the same
  kthread. Without gaps, n uthreads reach at most n - 2 beyond a charge
  (`GaplessSpread`, by counting). `Timed` carries the period between the two
  reads of `num_threads`.
* **The tree.** A red-black tree is commonly defined by recursion, and proofs
  about it go by structural induction, which the installed provers cannot apply.
  So a tree is described by a numbering: `pos` numbers its nodes from left to right, and the nodes below `n` are those
  numbered from `lo[n]` to `hi[n]`. Then "`t` is one binary tree with the nodes
  `Q`, without cycles, its parent pointers right" is a conjunction over nodes
  that relates each to its children only (`Shaped`), and so are the black heights
  (`Coloured`, with `bh`). A rotation or a splice changes `lo`, `hi` and `bh` of
  a few nodes, and the proofs say of which. Insertion opens a gap in `pos`
  (`Opened`), removal closes one (`Closed`).
  The loops of both fix-ups go up: after `i` turns the span of the node they are
  at has at least `i` others in it (`Ascending`, `Sinking`), so they end, and
  with the rules restored (`InsertFixUpDone`, `DeleteFixUpDone`). `Sinking` also
  says what becomes of `root`, the local variable with the old top, which the
  loop compares `x` with and sets `x` to.
  That a walk's recursive definition has a value at all follows from a rank that
  goes down with each step (`Recursion`, by the one form of induction that is to
  be had: a set of naturals with 0 and the successor of each member is `Nat`,
  `Induct`): the width of the span for walks to the leaves (`Depth`), the number
  of nodes outside of it for walks to the top (`Height`), the place in order for
  `RBEnumerate` (`Steps`). In memory that is not a tree nothing is said, and nothing is
  claimed.
* **The run queue.** None of its invariants is inductive: nothing in them says
  that the tree is sorted, or why the uthread after the minimum is the next
  minimum. `RunqueueInv` says that there is one numbering that everything agrees
  with: the tree's, along which vruntimes do not fall; the cached minimum is its
  number 1; `num_threads` is its length; each uthread points to its own node or
  to none. `AddFiles` and `RemoveFiles` carry it through the two operations, from
  `InsertJoins` (a newcomer goes behind all that do not come after it) and
  `DeleteSound`. The invariants and the refinement of `FairQueue` then follow from
  what the walks answer in a tree with that numbering, `TreeNodes` included.
* **The walk of `gt_yield`** (last part of `CfsRunqueueProofs`). In the middle
  of an insertion there is no tree, and `Shaped` says nothing. What holds of each
  image is less, and enough (`Passable`): from the top to the right there is
  nothing but the nodes that were in the tree and the newcomer, never the
  sentinel above the top. Every store of `RBTreeInsert` keeps that
  (`HangingWalks`, `PaintWalks`, `RotateWalks`), so that it is carried along the
  loop as a part of `Ascending`, and `InsertJoins` says it of the whole history
  (`Walkable`), with the fact that a top once there stays there. `RaceInv` adds
  to `RunqueueInv` that the images still to come can be walked (`Posting`), that
  the uthread that runs or yields is neither queued nor being added (`Running`),
  that the walk is at a uthread and nobody who waited has left (`Walking`), and
  that the uthread where it ended is queued, or about to be, and ahead of the
  yielder (`Found`); it stays so, since only the scheduler itself takes anybody
  from its queue. At the next pick that uthread is in the tree, and the first of the
  sorted queue is not behind it, so it is not the yielder. On the way each step is
  shown to be one of `CfsRunqueue` or none (`RaceKeepsRunqueue`), so that what is
  proved of the queue holds in the race as well.
* **UthreadInit.** A kthread past the lock is its only holder (`Locked`), so
  `SIGUSR2` has the library's handler exactly between its two `sigaction`s
  (`Handled`), it has an alternate stack only between its two `sigaltstack`s
  (`Stacked`), and a context is on the stack of its own uthread (`Placed`).
* **GtKthread.** That `NumCpus` slots were counted says little by itself: they
  were read one after the other, while kthreads took them and possibly
  overwrote each other. `CountInv`: no more were counted than are taken now.
  `BoundInv`: a slot that is taken is the APIC id of a processor that may be
  used. If `NumCpus` slots are taken then by counting (`FullHouse`) all
  processors may be used and no two share an APIC id; `MapInv` says that on such
  a machine nobody was ever in a foreign slot. For the groups, `SpreadInv` says
  who has had one more: those up to the last target, in the order in which the
  search goes round; `FindInv` that a search under way has skipped nobody.

Only model-checked is liveness (`EveryUthreadCompletes`, `ExitReturns`,
`SomebodyEnters`, `StartsReturn`, `MainGetsOn`), which is out of the prover's
reach: it has no rule for fairness or ENABLED.

In these proofs the tree's memory is what the model makes it: a node bears its
uthread's name, `malloc` in the tree never fails, and no two operations that write one queue
overlap (`GtSchedProofs` has the lock). The one reader that does not take it is
`gt_yield`; its walk sees the stores in program order, which is what x86
guarantees and `gcc -g` leaves alone, and does not say how often the walk may
have to go on: that is liveness.


## 5. Where code and comments disagree

Each of these is a counterexample TLC finds; the first four are listed in
`PROJECT.json` with their lines.

| configuration | property refuted | what happens |
|---|---|---|
| `SchedForeignContext` | `OwnStackContext` | `uthread_schedule` drops `do_not_disturb` before its `siglongjmp` (`gt_uthread.c:204`). A `SIGUSR1` in the gap saves the frames of whoever ran before into the context of the uthread about to run, and what that uthread had saved is gone. |
| `SchedEarlyQuit` | `QuitsOnlyWhenDrained` | `app_exit` is read after the lock under which the queue was seen empty has been dropped (`gt_uthread.c:173`). A uthread queued in between is never run, and `gtthread_app_exit` waits for it for ever. |
| `SchedLostSlice` | `SliceAlwaysTimed` | A slice that ends inside `uthread_create` finds `do_not_disturb` set; the one-shot timer is not set again (`gt_kthread.c:247`), and the creator runs on without one. So it does when `uthread_create` finds no memory for a stack, returns -1 and leaves `do_not_disturb` at 1 (`gt_uthread.c:311-315`): then the signals are dropped until the creator enters the scheduler by itself. |
| `YieldTorn` | `FindsMaximum` | The unlocked walk of `gt_yield` (`gt_uthread.c:152`) meets a rotation half done and misses the rightmost uthread; the yielder goes in before some that were waiting. |

Further disagreements, each shown by the configuration named, with
`MCGtSched`, `MCCfsRunqueue`, `MCCfsAccounting`, `MCGtKthread` or
`MCGtMatrix`:

| configuration | property refuted | what happens |
|---|---|---|
| `SchedNestedCreate` | `CreateFromAnyKthread` | `uthread_create` on a kthread other than `main()`'s reads through a null `master_thread` (`gt_uthread.c:305`), although `gt_pq.h:51-53` speaks of "a uthread_create from any kthread". The same happens on `main()`'s after `gtthread_app_exit`, which sets it to NULL (`gt_kthread.c:446-450`). |
| `SchedUsr1Blocked` | `SignalsReinstalled` | `gt_uthread.c:191` re-installs "the scheduling signal handlers", but only that of `SIGVTALRM`: after a switch made in a handler of `SIGUSR1` that signal stays blocked on the kthread. |
| `SchedMainYields` | `YielderIsRunning` | `main()`'s uthread is RUNNABLE until it has been preempted once; a `gt_yield` before that fails its assertion (`gt_uthread.c:225`). |
| `RunqueueNull` | `AbsentIsNull` | `TreeSuccessor` and `TreePredecessor` are said to return NULL where there is no neighbour (`red_black_tree.c:286-287`, `:321-322`); they return `tree->nil` (`:310`, `:342`), the address of a node. All callers in the library test for `nil`. `RBExactQuery` does answer NULL (`:471`, `:479`). |
| `AccountingSquished` | `NeverSquished` | `get_fair_slice` reads `num_threads` again after `get_fair_period` (`gt_uthread.c:417`): a uthread posted in between makes the slice shorter than `SCHEDULER_MIN_GRANULARITY_USEC`. |
| `AccountingRefund` | `YieldPassesAll` | On a kthread other than `main()`'s the yielder may be ahead of all that are queued; its vruntime falls to one past them (`gt_uthread.c:389`). |
| `KthreadsOffline` | `InitReturns` | `gtthread_app_init` makes a kthread for each configured processor and waits for as many slots (`gt_kthread.c:404`, "yield till other kthreads initialize"). If one is offline or denied to the process its kthread stays unbound, takes the slot of wherever it is, and the wait never ends. |
| `MatrixArguments` | `ProductsComputed` | `gt_matrix.c` declares `uargs` with a place for each uthread (`:145`) and uses one for each band of rows (`:166`). `main()` writes the arguments for the next matrix over those of uthreads that have not begun, or are half way, so that rows of the first matrix stay 0 and rows of the last are added twice. |

Two more were met in reading and need no model: the comments speak of 20 ms and
4 ms where `gt_signal.h:10-11` has 5000 and 1000 microseconds, and what is
logged as the total runtime of a uthread is its vruntime, which begins at
`main()`'s and is moved by yields (`gt_uthread.c:141-144`).


## 6. What is not modelled

* APIC ids of `GT_MAX_CORES` and more, for which `kthread_init` would write past
  the end of `kthread_cpu_map`: what lies there is the linker's choice. For the
  same reason, the mask of `sched_setaffinity`, which is an `int` of which
  `sizeof(unsigned long)` bytes are read, and whose shift is undefined for
  `cpuid` 32 and more; and the log file's name, which `tid_to_filename` hands
  over without a terminator (`gt_kthread.c:117-120`).
* Two creations of one group at once. `ksched_find_target` reads
  `last_ugroup_kthread` before it takes `ksched_lock`, so that two could choose
  the same target; today only `main()`'s kthread gets that far (section 5).
* A kthread that fails to find its context after start-up. It would have to be
  moved off its processor, which on a proper machine it is bound to.
* In `GtMatrix`, additions to one element that two uthreads make at once, and
  the build with `GT_GROUP_SPLIT`.
* `malloc` and `free`. The wrappers of `gt_kthread.h` put a lock around one
  call; the tree calls `malloc` and `free` outside of it, from kthreads the C
  library does not know to be threads. What a torn heap does cannot be
  modelled.
* Integer widths of vruntimes and a clock that goes backward: the charge is
  taken from `0..MaxCharge`.
* The size of stacks: a uthread has 16 KB, and the model does not say how many
  signal frames fit. `HandlersNest` says what it takes for one to be added; for
  a program that goes on creating uthreads it is no bound.
* What else the handlers' `sa_mask`, which is never set, may hold than the two
  scheduling signals. In `uthread_init` it is not set either
  (`gt_uthread.c:54-62`); there it can only block more while the handler of
  `SIGUSR2` runs, which sends no signal and waits for none.
* The printing functions of the tree; the tree's test driver and PHP port; the
  test programs; `parse_times.py`.
* Logging, and gathering of run times for it.


## 7. Plan

Done: the modules of section 2 and the proofs of section 4. Every part of the
library that keeps state the scheduler depends on is modelled, and every safety
property that a passing run checks is proved.

What a further step could be:

1. Composition of `GtSched` with `GtSpinlock` in place of the variable that
   holds the owner. `IsMutex` makes it unnecessary for safety; for liveness it
   would replace the strong fairness of taking the lock by an assumption on the
   bus.
2. Larger instances of `SchedSafety`, with a third kthread. The theorems cover
   them for safety; liveness has been checked with two kthreads only.
3. If `master_thread` were set on every kthread, so that any uthread could
   create: `GtKthread` with several creators, where the unlocked read of
   `last_ugroup_kthread` breaks `GroupSpread`, and `CfsAccounting` with new
   uthreads on every kthread.
