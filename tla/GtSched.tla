------------------------------ MODULE GtSched ------------------------------
(***************************************************************************)
(* The scheduler core of the library (gt_uthread.c, gt_kthread.c,          *)
(* gt_pq.c): kthreads that create, dispatch, preempt and retire uthreads,  *)
(* driven by two signals and guarded by the do_not_disturb flag.           *)
(*                                                                         *)
(* One kthread is one processor executing at pc[k].  A scheduling signal   *)
(* may be taken by a kthread between any two of its steps; a remote        *)
(* kthread may step between any two as well.  Steps that neither another   *)
(* kthread nor a signal handler can tell apart are merged.                 *)
(*                                                                         *)
(* The run queue is a set here and a pick takes any member: which one is   *)
(* the business of CfsRunqueue.tla, and no property below depends on it.   *)
(***************************************************************************)
EXTENDS Integers, FiniteSets, Sequences, SequencesExt

CONSTANTS
  Kthreads,   \* the kernel threads; each is a process with its own timer
  MainK,      \* the kthread that main() runs on
  Uthreads,   \* uthreads that uthread_create may make
  Master,     \* the uthread create_master_uthread makes for main()
  Creators,   \* the uthreads whose code calls uthread_create
  Yielders,   \* the uthreads whose code calls gt_yield
  SaMasks,    \* what the handlers' uninitialised sa_mask may turn out to hold
  Nil         \* NULL

Threads == Uthreads \cup {Master}
Signals == {"VTALRM", "USR1"}

ASSUME SchedAssumption ==
  /\ MainK \in Kthreads
  /\ Master \notin Uthreads
  /\ Nil \notin Threads \cup Kthreads
  /\ IsFiniteSet(Uthreads)
  /\ Creators \subseteq Threads /\ Yielders \subseteq Threads
  /\ SaMasks \subseteq SUBSET Signals

(***************************************************************************)
(* Where a kthread is executing.                                           *)
(*   user       the code of cur[k] (or main() itself)                      *)
(*   enq enqcs notify                inside uthread_create                 *)
(*   yield yielding  gt_yield, before uthread_schedule has stopped the     *)
(*              timer and before it has raised do_not_disturb              *)
(*   handler    ksched_priority, before it has raised do_not_disturb       *)
(*   put requeue requeuecs save pick pickcs empty dispatch                 *)
(*              inside uthread_schedule with do_not_disturb raised         *)
(*   jump       do_not_disturb dropped, siglongjmp to cur[k] not yet made  *)
(*   return     siglongjmp made, the handler it landed in not yet left     *)
(*   idle       the loop of gtthread_app_start or gtthread_app_exit        *)
(*   lastmile   gtthread_app_exit waiting for kthread_cur_uthreads = 0     *)
(*   ended      the kthread has left its loop for good                     *)
(*   lost       siglongjmp has landed in frames that are not the uthread's *)
(*   segv aborted exited  the kthread's process is gone: a null pointer,   *)
(*              a failed assert, exit(0) for want of memory                *)
(***************************************************************************)
InScheduler == {"put", "requeue", "requeuecs", "save", "pick", "pickcs",
                "empty", "dispatch"}
InCreate == {"enq", "enqcs", "notify"}
Landing == {"jump", "return"}
Interruptible == {"user", "yield", "yielding", "handler"} \cup Landing
Stopped == {"ended", "lost", "segv", "aborted", "exited"}
PCs == InScheduler \cup InCreate \cup Interruptible \cup Stopped
         \cup {"idle", "lastmile"}

States == {"NONE", "INIT", "RUNNABLE", "RUNNING", "YIELD", "DONE"}

(***************************************************************************)
(* A context saved by sigsetjmp is the stack of signal frames beneath it:  *)
(* <<>> when uthread_schedule was called outside any handler, else one     *)
(* frame for each handler not yet returned from, with what that handler    *)
(* interrupted and the mask to put back.  A frame taken in "jump" lies on  *)
(* the stack of whoever ran before: a context over one is foreign.         *)
(***************************************************************************)
Frames == [pc : Interruptible, mask : SUBSET Signals]
ASSUME ContextAssumption == Nil \notin Seq(Frames)
Foreign(e) == e # Nil /\ \E i \in DOMAIN e : e[i].pc = "jump"

VARIABLES
  pc,           \* [Kthreads -> PCs]
  cur,          \* krunqueue.cur_uthread
  runq,         \* the uthreads in krunqueue.runqueue
  runqLock,     \* the holder of kthread_runqlock, or Nil
  ustate,       \* uthread_state; "NONE" before it is allocated
  env,          \* uthread_env, or Nil since it was last resumed
  dnd,          \* do_not_disturb
  armed,        \* the kthread's one-shot ITIMER_VIRTUAL is running
  notified,     \* a SIGUSR1 sent to the kthread is not yet taken
  mask,         \* the kthread's signal mask (of VTALRM and USR1)
  kenv,         \* kthread_env has been saved by sigsetjmp
  masterThread, \* master_thread
  frames,       \* the signal frames on the stack the kthread executes on
  obj,          \* u_obj or u_new, while it is being added to a run queue
  tgt,          \* the kthread whose run queue it is added to
  saving,       \* u_obj once it is queued, until sigsetjmp has saved it
  curUthreads,  \* ksched_shared_info.kthread_cur_uthreads
  appExit       \* ksched_shared_info.app_exit

threadVars == <<cur, ustate, env, frames>>
queueVars == <<runq, runqLock, obj, tgt, saving>>
signalVars == <<dnd, armed, notified, mask>>
sharedVars == <<kenv, masterThread, curUthreads, appExit>>
vars == <<pc, threadVars, queueVars, signalVars, sharedVars>>

(***************************************************************************)
(* The state gtthread_app_init leaves: main() runs as the master uthread   *)
(* with its first timer running, the other kthreads enter their loop.      *)
(***************************************************************************)
Init ==
  /\ pc = [k \in Kthreads |-> IF k = MainK THEN "user" ELSE "idle"]
  /\ cur = [k \in Kthreads |-> IF k = MainK THEN Master ELSE Nil]
  /\ runq = [k \in Kthreads |-> {}]
  /\ runqLock = [k \in Kthreads |-> Nil]
  /\ ustate = [u \in Threads |-> IF u = Master THEN "RUNNABLE" ELSE "NONE"]
  /\ env = [u \in Threads |-> Nil]
  /\ dnd = [k \in Kthreads |-> k # MainK]
  /\ armed = [k \in Kthreads |-> k = MainK]
  /\ notified = [k \in Kthreads |-> FALSE]
  /\ mask = [k \in Kthreads |-> {}]
  /\ kenv = [k \in Kthreads |-> FALSE]
  /\ masterThread = [k \in Kthreads |-> IF k = MainK THEN Master ELSE Nil]
  /\ frames = [k \in Kthreads |-> <<>>]
  /\ obj = [k \in Kthreads |-> Nil]
  /\ tgt = [k \in Kthreads |-> k]
  /\ saving = [k \in Kthreads |-> Nil]
  /\ curUthreads = 1
  /\ appExit = FALSE

Goto(k, l) == pc' = [pc EXCEPT ![k] = l]

(* do_not_disturb = 1.  (Mutant: left as it is.) *)
StillDisturbed(k) == UNCHANGED dnd
DoNotDisturb(k) == dnd' = [dnd EXCEPT ![k] = TRUE]

(* kthread_set_vtalrm(0) and do_not_disturb = 1, always together. *)
Quiet(k) ==
  /\ armed' = [armed EXCEPT ![k] = FALSE]
  /\ DoNotDisturb(k)

(* gt_spin_unlock of a run queue.  (Mutant: a path that forgets it.) *)
ForgetUnlock(j) == UNCHANGED runqLock
Unlock(j) == runqLock' = [runqLock EXCEPT ![j] = Nil]

-----------------------------------------------------------------------------
(* uthread_create up to add_to_runqueue.  Either allocation may fail: the  *)
(* first ends the process, the second makes it answer -1 with              *)
(* do_not_disturb left raised.  The new uthread takes its vruntime from    *)
(* master_thread, or through a null pointer if there is none.  j is what   *)
(* ksched_find_target answered.                                            *)
Create(k, u, j) ==
  /\ pc[k] = "user" /\ cur[k] \in Creators
  /\ u \in Uthreads /\ ustate[u] = "NONE"
  /\ DoNotDisturb(k)
  /\ \/ /\ Goto(k, "exited")                      \* no uthread_struct_t
        /\ UNCHANGED <<ustate, obj, tgt, curUthreads>>
     \/ /\ masterThread[k] = Nil
        /\ Goto(k, "segv")
        /\ UNCHANGED <<ustate, obj, tgt, curUthreads>>
     \/ /\ masterThread[k] # Nil                   \* no stack: answer -1
        /\ UNCHANGED <<pc, ustate, obj, tgt, curUthreads>>
     \/ /\ masterThread[k] # Nil
        /\ ustate' = [ustate EXCEPT ![u] = "INIT"]
        /\ curUthreads' = curUthreads + 1
        /\ obj' = [obj EXCEPT ![k] = u]
        /\ tgt' = [tgt EXCEPT ![k] = j]
        /\ Goto(k, "enq")
  /\ UNCHANGED <<cur, env, frames, runq, runqLock, saving, armed, notified,
                 mask, kenv, masterThread, appExit>>

(* add_to_runqueue, gt_spin_lock: from uthread_create or uthread_schedule. *)
AddLock(k) ==
  /\ pc[k] \in {"enq", "requeue"}
  /\ runqLock[tgt[k]] = Nil
  /\ runqLock' = [runqLock EXCEPT ![tgt[k]] = k]
  /\ Goto(k, IF pc[k] = "enq" THEN "enqcs" ELSE "requeuecs")
  /\ UNCHANGED <<runq, obj, tgt, saving, threadVars, signalVars, sharedVars>>

(* add_to_runqueue: the insertion and gt_spin_unlock. *)
Insert(k) ==
  /\ runq' = [runq EXCEPT ![tgt[k]] = @ \cup {obj[k]}]
  /\ Unlock(tgt[k])
  /\ obj' = [obj EXCEPT ![k] = Nil]
  /\ UNCHANGED tgt

AddNew(k) ==
  /\ pc[k] = "enqcs"
  /\ Insert(k)
  /\ Goto(k, "notify")
  /\ UNCHANGED <<saving, threadVars, signalVars, sharedVars>>

(* uthread_schedule's call: u_obj is on the queue, its lock is free, and   *)
(* its context is still to be saved.                                       *)
AddPreempted(k) ==
  /\ pc[k] = "requeuecs"
  /\ Insert(k)
  /\ saving' = [saving EXCEPT ![k] = obj[k]]
  /\ Goto(k, "save")
  /\ UNCHANGED <<threadVars, signalVars, sharedVars>>

(* What sigsetjmp saves.  (Mutant: no sigsetjmp.) *)
NotSaved(k) == Nil
Saved(k) == frames[k]

(* sigsetjmp(uthread_env).  The kthread goes on over the same frames. *)
Save(k) ==
  /\ pc[k] = "save"
  /\ env' = [env EXCEPT ![saving[k]] = Saved(k)]
  /\ saving' = [saving EXCEPT ![k] = Nil]
  /\ Goto(k, "pick")
  /\ UNCHANGED <<cur, ustate, frames, runq, runqLock, obj, tgt, signalVars,
                 sharedVars>>

(* uthread_create: tkill(target, SIGUSR1), then do_not_disturb = 0.  Sent  *)
(* to the kthread itself and not blocked, the signal is taken inside the   *)
(* call, while do_not_disturb is still 1.                                  *)
Notify(k) ==
  LET j == tgt[k]
      lands == /\ pc[j] \notin Stopped
               /\ j # k \/ "USR1" \in mask[k]
  IN /\ pc[k] = "notify"
     /\ notified' = [notified EXCEPT ![j] = @ \/ lands]
     /\ dnd' = [dnd EXCEPT ![k] = FALSE]
     /\ Goto(k, "user")
     /\ UNCHANGED <<armed, mask, threadVars, queueVars, sharedVars>>

-----------------------------------------------------------------------------
(* gt_yield up to the call of uthread_schedule. *)
Yield(k) ==
  /\ pc[k] = "user" /\ cur[k] \in Yielders
  /\ \/ /\ ustate[cur[k]] # "RUNNING"      \* the assert fails
        /\ Goto(k, "aborted")
        /\ UNCHANGED ustate
     \/ /\ ustate[cur[k]] = "RUNNING"
        /\ ustate' = [ustate EXCEPT ![cur[k]] = "YIELD"]
        /\ Goto(k, "yield")
  /\ UNCHANGED <<cur, env, frames, queueVars, signalVars, sharedVars>>

(* uthread_schedule called by gt_yield: kthread_set_vtalrm(0) ...          *)
YieldTimer(k) ==
  /\ pc[k] = "yield"
  /\ armed' = [armed EXCEPT ![k] = FALSE]
  /\ Goto(k, "yielding")
  /\ UNCHANGED <<dnd, notified, mask, threadVars, queueVars, sharedVars>>

(* ... and do_not_disturb = 1.  A signal taken in between brings the       *)
(* uthread back here with its timer running again.                         *)
YieldSchedule(k) ==
  /\ pc[k] = "yielding"
  /\ DoNotDisturb(k)
  /\ Goto(k, "put")
  /\ UNCHANGED <<armed, notified, mask, threadVars, queueVars, sharedVars>>

(* uthread_context_func after uthread_func returns, into uthread_schedule. *)
Finish(k) ==
  /\ pc[k] = "user" /\ cur[k] # Master
  /\ Quiet(k)
  /\ ustate' = [ustate EXCEPT ![cur[k]] = "DONE"]
  /\ Goto(k, "put")
  /\ UNCHANGED <<cur, env, frames, notified, mask, queueVars, sharedVars>>

(* gtthread_app_exit, called by main(), up to its first uthread_schedule. *)
MainExit(k) ==
  /\ pc[k] = "user" /\ cur[k] = Master /\ k = MainK
  /\ Quiet(k)
  /\ appExit' = TRUE
  /\ kenv' = [kenv EXCEPT ![k] = TRUE]
  /\ ustate' = [ustate EXCEPT ![Master] = "DONE"]
  /\ masterThread' = [masterThread EXCEPT ![k] = Nil]
  /\ Goto(k, "put")
  /\ UNCHANGED <<cur, env, frames, notified, mask, curUthreads, queueVars>>

-----------------------------------------------------------------------------
(* The test of uthread_state & UTHREAD_DONE.  (Mutant: dropped.) *)
NeverDone(u) == FALSE
IsDone(u) == ustate[u] = "DONE"

(* kthread_cur_uthreads--.  (Mutant: a finished uthread is not counted.) *)
NotReaped(n) == n
Reaped(n) == n - 1

(* uthread_schedule: a finished uthread leaves the count. *)
PutDone(k) ==
  /\ pc[k] = "put" /\ IsDone(cur[k])
  /\ cur' = [cur EXCEPT ![k] = Nil]
  /\ curUthreads' = Reaped(curUthreads)
  /\ Goto(k, "pick")
  /\ UNCHANGED <<ustate, env, frames, queueVars, signalVars, kenv,
                 masterThread, appExit>>

(* u_obj, the uthread to put away.  (Mutant: read after it is cleared.) *)
ReadAfterClear(k) == cur'[k]
UObj(k) == cur[k]

(* The kthread whose run queue it goes to: its own.  (Mutant: the last     *)
(* target of a uthread_create.)                                            *)
LastTarget(k) == tgt[k]
Home(k) == k

(* uthread_schedule: a preempted or yielding one goes to add_to_runqueue. *)
PutBack(k) ==
  /\ pc[k] = "put" /\ ~IsDone(cur[k])
  /\ cur' = [cur EXCEPT ![k] = Nil]
  /\ ustate' = [ustate EXCEPT ![cur[k]] = "RUNNABLE"]
  /\ obj' = [obj EXCEPT ![k] = UObj(k)]
  /\ tgt' = [tgt EXCEPT ![k] = Home(k)]
  /\ Goto(k, "requeue")
  /\ UNCHANGED <<env, frames, runq, runqLock, saving, signalVars, sharedVars>>

(* sched_find_best_uthread: gt_spin_lock. *)
PickLock(k) ==
  /\ pc[k] = "pick"
  /\ runqLock[k] = Nil
  /\ runqLock' = [runqLock EXCEPT ![k] = k]
  /\ Goto(k, "pickcs")
  /\ UNCHANGED <<runq, obj, tgt, saving, threadVars, signalVars, sharedVars>>

(* The queue without the uthread picked.  (Mutant: not removed.) *)
NotRemoved(q, u) == q
Removed(q, u) == q \ {u}

(* sched_find_best_uthread: get, remove and unlock; cur_uthread is set. *)
Pick(k, u) ==
  /\ pc[k] = "pickcs"
  /\ u \in runq[k]
  /\ runq' = [runq EXCEPT ![k] = Removed(@, u)]
  /\ Unlock(k)
  /\ cur' = [cur EXCEPT ![k] = u]
  /\ Goto(k, "dispatch")
  /\ UNCHANGED <<ustate, env, frames, obj, tgt, saving, signalVars,
                 sharedVars>>

(* No best uthread.  (Mutant: a stale min makes it miss those there are.) *)
MissesSome(k) == TRUE
NoBest(k) == runq[k] = {}

(* sched_find_best_uthread answers NULL. *)
PickNothing(k) ==
  /\ pc[k] = "pickcs"
  /\ NoBest(k)
  /\ Unlock(k)
  /\ Goto(k, "empty")
  /\ UNCHANGED <<runq, obj, tgt, saving, threadVars, signalVars, sharedVars>>

(* Only now is app_exit read; siglongjmp to kthread_env, off any handler,  *)
(* and the loop of gtthread_app_start or gtthread_app_exit tests           *)
(* KTHREAD_DONE.                                                           *)
QuitOrIdle(k) ==
  /\ pc[k] = "empty"
  /\ Goto(k, IF ~kenv[k] THEN "lost"
             ELSE IF ~appExit THEN "idle"
             ELSE IF k = MainK THEN "lastmile" ELSE "ended")
  /\ frames' = [frames EXCEPT ![k] = <<>>]
  /\ UNCHANGED <<cur, ustate, env, queueVars, signalVars, sharedVars>>

(* An iteration of either loop: sigsetjmp, then uthread_schedule, which    *)
(* finds no current uthread to put away.                                   *)
IdleLoop(k) ==
  /\ pc[k] = "idle"
  /\ kenv' = [kenv EXCEPT ![k] = TRUE]
  /\ Quiet(k)
  /\ Goto(k, "pick")
  /\ UNCHANGED <<notified, mask, masterThread, curUthreads, appExit,
                 threadVars, queueVars>>

(* What gtthread_app_exit waits for.  (Mutant: only for its own queue.) *)
OwnQueueEmpty == runq[MainK] = {}
AllReaped == curUthreads = 0

(* gtthread_app_exit: the wait for kthread_cur_uthreads to reach 0. *)
LastMile(k) ==
  /\ pc[k] = "lastmile"
  /\ AllReaped
  /\ Goto(k, "ended")
  /\ UNCHANGED <<threadVars, queueVars, signalVars, sharedVars>>

(* The mask once kthread_install_sighandler(SIGVTALRM) has unblocked it.   *)
(* (Mutant: the handler is not re-installed.)                              *)
StillBlocked(m) == m
Unblocked(m) == m \ {"VTALRM"}

(* uthread_schedule from uthread_init to do_not_disturb = 0.  uthread_init *)
(* leaves a new uthread with a context at the start of its function.       *)
Dispatch(k) ==
  LET u == cur[k] IN
  /\ pc[k] = "dispatch"
  /\ env' = [env EXCEPT ![u] = IF ustate[u] = "INIT" THEN <<>>
                                             ELSE @]
  /\ ustate' = [ustate EXCEPT ![u] = "RUNNING"]
  /\ mask' = [mask EXCEPT ![k] = Unblocked(@)]
  /\ armed' = [armed EXCEPT ![k] = TRUE]
  /\ dnd' = [dnd EXCEPT ![k] = FALSE]
  /\ Goto(k, "jump")
  /\ UNCHANGED <<cur, frames, notified, queueVars, sharedVars>>

(* siglongjmp(uthread_env): on to the frames that were beneath it then.    *)
(* The mask is not part of it (savesigs is 0).                             *)
Resume(k, e) ==
  \/ /\ e = Nil \/ Foreign(e)
     /\ Goto(k, "lost")
     /\ UNCHANGED frames
  \/ /\ e # Nil /\ ~Foreign(e)
     /\ Goto(k, IF e = <<>> THEN "user" ELSE "return")
     /\ frames' = [frames EXCEPT ![k] = e]

Jump(k) ==
  /\ pc[k] = "jump"
  /\ Resume(k, env[cur[k]])
  /\ env' = [env EXCEPT ![cur[k]] = Nil]
  /\ UNCHANGED <<cur, ustate, signalVars, queueVars, sharedVars>>

(* uthread_schedule and ksched_priority return from where sigsetjmp was    *)
(* called, and sigreturn puts back what the handler had interrupted.       *)
Return(k) ==
  /\ pc[k] = "return"
  /\ LET frame == Last(frames[k])
     IN /\ Goto(k, frame.pc)
        /\ mask' = [mask EXCEPT ![k] = frame.mask]
  /\ frames' = [frames EXCEPT ![k] = Front(@)]
  /\ UNCHANGED <<cur, ustate, env, dnd, armed, notified, queueVars,
                 sharedVars>>

-----------------------------------------------------------------------------
(* The mask while the handler of s runs.  (Mutant: s not blocked.) *)
NotBlocked(m, s) == m
Blocked(m, s) == m \cup {s}

(* The kernel delivers s: a new frame on whatever stack k executes on, and *)
(* s blocked in its handler, with whatever sa_mask sigaction was given:    *)
(* nobody initialises it, so it may well hold the other signal.            *)
(* ksched_priority returns at once under do_not_disturb.                   *)
Interrupt(k, s) ==
  \/ /\ dnd[k]
     /\ UNCHANGED <<pc, mask, frames>>
  \/ /\ ~dnd[k]
     /\ frames' = [frames EXCEPT ![k] =
                      Append(@, [pc |-> pc[k], mask |-> mask[k]])]
     /\ \E also \in SaMasks :
          mask' = [mask EXCEPT ![k] = Blocked(@, s) \cup also]
     /\ Goto(k, "handler")

(* ksched_priority, not disturbed: timer off, do_not_disturb raised, and   *)
(* into uthread_schedule.                                                  *)
HandlerSchedule(k) ==
  /\ pc[k] = "handler"
  /\ Quiet(k)
  /\ Goto(k, "put")
  /\ UNCHANGED <<notified, mask, threadVars, queueVars, sharedVars>>

(* ITIMER_VIRTUAL runs out.  It counts the kthread's own user time, so not *)
(* in the few instructions from kthread_set_vtalrm to the handler's end.   *)
TimerExpire(k) ==
  /\ armed[k] /\ "VTALRM" \notin mask[k]
  /\ pc[k] \notin Stopped \cup Landing
  /\ armed' = [armed EXCEPT ![k] = FALSE]
  /\ Interrupt(k, "VTALRM")
  /\ UNCHANGED <<cur, ustate, env, dnd, notified, queueVars, sharedVars>>

(* A SIGUSR1 sent by uthread_create arrives. *)
TakeNotice(k) ==
  /\ notified[k] /\ "USR1" \notin mask[k]
  /\ pc[k] \notin Stopped
  /\ notified' = [notified EXCEPT ![k] = FALSE]
  /\ Interrupt(k, "USR1")
  /\ UNCHANGED <<cur, ustate, env, dnd, armed, queueVars, sharedVars>>

-----------------------------------------------------------------------------
Schedule(k) ==
  \/ PutDone(k) \/ PutBack(k) \/ AddPreempted(k) \/ Save(k) \/ PickLock(k)
  \/ (\E u \in Threads : Pick(k, u)) \/ PickNothing(k) \/ QuitOrIdle(k)
  \/ Dispatch(k) \/ Jump(k) \/ Return(k)

Run(k) ==
  \/ \E u \in Uthreads, j \in Kthreads : Create(k, u, j)
  \/ AddLock(k) \/ AddNew(k) \/ Notify(k) \/ HandlerSchedule(k)
  \/ Yield(k) \/ YieldTimer(k) \/ YieldSchedule(k) \/ Finish(k)
  \/ MainExit(k) \/ IdleLoop(k) \/ LastMile(k)

Next == \E k \in Kthreads : Schedule(k) \/ Run(k)
                              \/ TimerExpire(k) \/ TakeNotice(k)

Spec == Init /\ [][Next]_vars

(***************************************************************************)
(* Fairness.  A kthread is a process the kernel keeps running: whatever    *)
(* the library's code does next it does eventually (weak fairness).  The   *)
(* run-queue lock is a test-and-set: a spinning kthread gets it only if it *)
(* is free infinitely often and the bus is not unfair for ever (strong     *)
(* fairness).  Code that a signal may interrupt gets ahead if it is        *)
(* brought back again and again, because a slice is at least a             *)
(* millisecond (strong fairness): that is the few instructions before      *)
(* do_not_disturb is raised, and, of the program, that a uthread returns   *)
(* and main() calls gtthread_app_exit.  Nothing is assumed about signals:  *)
(* they may be delayed for ever.                                           *)
(***************************************************************************)
EndSlice(u) == \E k \in Kthreads :
  cur[k] = u /\ mask[k] # Signals /\ HandlerSchedule(k)
GiveUp(u) == \E k \in Kthreads :
  cur[k] = u /\ (YieldTimer(k) \/ YieldSchedule(k))
Complete(u) == \E k \in Kthreads : cur[k] = u /\ (Finish(k) \/ MainExit(k))

Fairness ==
  /\ \A k \in Kthreads :
       /\ WF_vars(Schedule(k) \/ HandlerSchedule(k))
       /\ WF_vars(AddNew(k) \/ Notify(k) \/ IdleLoop(k) \/ LastMile(k))
       /\ SF_vars(AddLock(k) \/ PickLock(k))
  /\ \A u \in Threads : SF_vars(EndSlice(u)) /\ SF_vars(Complete(u))
  /\ \A u \in Yielders : SF_vars(GiveUp(u))

FairSpec == Spec /\ Fairness

-----------------------------------------------------------------------------
Typed ==
  /\ pc \in [Kthreads -> PCs]
  /\ cur \in [Kthreads -> Threads \cup {Nil}]
  /\ runq \in [Kthreads -> SUBSET Threads]
  /\ runqLock \in [Kthreads -> Kthreads \cup {Nil}]
  /\ ustate \in [Threads -> States]
  /\ env \in [Threads -> Seq(Frames) \cup {Nil}]
  /\ frames \in [Kthreads -> Seq(Frames)]
  /\ dnd \in [Kthreads -> BOOLEAN]
  /\ armed \in [Kthreads -> BOOLEAN]
  /\ notified \in [Kthreads -> BOOLEAN]
  /\ mask \in [Kthreads -> SUBSET Signals]
  /\ kenv \in [Kthreads -> BOOLEAN]
  /\ masterThread \in [Kthreads -> Threads \cup {Nil}]
  /\ obj \in [Kthreads -> Threads \cup {Nil}]
  /\ tgt \in [Kthreads -> Kthreads]
  /\ saving \in [Kthreads -> Threads \cup {Nil}]
  /\ appExit \in BOOLEAN
  /\ curUthreads \in Int

TypeOK == Typed /\ curUthreads \in 0..Cardinality(Threads)

(* Where uthread u is: on a run queue, current, or on its way to a queue. *)
Places(u) == {p \in {"runq", "cur", "obj"} \X Kthreads :
                \/ p[1] = "runq" /\ u \in runq[p[2]]
                \/ p[1] = "cur" /\ u = cur[p[2]]
                \/ p[1] = "obj" /\ u = obj[p[2]]}

(***************************************************************************)
(* A uthread is never lost and never duplicated: from the moment it is     *)
(* created until the scheduler has seen it DONE it is in exactly one       *)
(* place, whatever signals interrupt the moves between run queue and       *)
(* cur_uthread; before and after that it is nowhere.                       *)
(***************************************************************************)
LiveInOnePlace == \A u \in Threads :
  /\ \A p, q \in Places(u) : p = q
  /\ ustate[u] = "NONE" => Places(u) = {}
  /\ ustate[u] \notin {"NONE", "DONE"} => Places(u) # {}

(* kthread_cur_uthreads, which gtthread_app_exit waits on, is the number   *)
(* of uthreads created and not yet seen DONE by a scheduler.               *)
CountIsLive == curUthreads = Cardinality({u \in Threads : Places(u) # {}})

(* gtthread_app_exit returns to main() only when every uthread ever        *)
(* created is DONE: none is queued, running or on its way to a queue.      *)
ExitWaitsForAll == pc[MainK] = "ended" =>
  \A u \in Threads : Places(u) = {} /\ ustate[u] \in {"NONE", "DONE"}

(* A kthread holds a run-queue lock only inside add_to_runqueue or         *)
(* sched_find_best_uthread and with do_not_disturb raised: a signal        *)
(* handler that then wants the same lock would spin on its own kthread for *)
(* ever, and would walk a half-changed tree.                               *)
LockHolderUndisturbed == \A j, k \in Kthreads :
  runqLock[j] = k =>
    /\ dnd[k]
    /\ \/ pc[k] \in {"enqcs", "requeuecs"} /\ tgt[k] = j
       \/ pc[k] = "pickcs" /\ j = k

(* siglongjmp(kthread_env) is never reached before a sigsetjmp has filled  *)
(* it: main()'s own kthread, which enters no loop until gtthread_app_exit, *)
(* always finds at least its master uthread in its queue.                  *)
NoJumpWithoutEnv == \A k \in Kthreads : pc[k] = "empty" => kenv[k]

(* What a scheduler may pick can be resumed: a queued uthread is either    *)
(* fresh, and uthread_init will make its context, or RUNNABLE with a       *)
(* context saved since it was last resumed.  It is queued before it is     *)
(* saved, the lock free in between: then the kthread that has yet to save  *)
(* it is the queue's own, and nobody else may take from that queue.        *)
ResumableContext == \A k \in Kthreads : \A u \in runq[k] :
  \/ ustate[u] = "INIT" /\ env[u] = Nil
  \/ ustate[u] = "RUNNABLE" /\ env[u] # Nil
  \/ ustate[u] = "RUNNABLE" /\ pc[k] = "save" /\ saving[k] = u

(* No uthread that calls only gt_yield runs past its slice: whenever its   *)
(* own code runs it can be interrupted, its timer is set and SIGVTALRM is  *)
(* not blocked.  Creators can lose a timer, see SliceAlwaysTimed.          *)
Preemptible == \A k \in Kthreads :
  pc[k] = "user" /\ cur[k] \notin Creators =>
    ~dnd[k] /\ armed[k] /\ "VTALRM" \notin mask[k]

(* How signal frames pile up on a stack, 16 KB for a uthread.  Code outside *)
(* the handlers is only ever at the bottom, and an invocation of           *)
(* ksched_priority that interrupted another before it was undisturbed is   *)
(* never so interrupted itself.  So a stack of more than two frames has    *)
(* borne a SIGUSR1 that came after a siglongjmp and before the end of the  *)
(* handler it landed in, at least one for any two frames more.             *)
NestsInTurn(s) == \A i \in 1..(Len(s) - 1) :
  /\ s[i + 1].pc \in {"handler"} \cup Landing
  /\ s[i].pc = "handler" => s[i + 1].pc \in Landing

HandlersNest ==
  /\ \A k \in Kthreads : NestsInTurn(frames[k])
  /\ \A u \in Threads : env[u] # Nil => NestsInTurn(env[u])

(* When main()'s kthread leaves the loop of gtthread_app_exit to wait for  *)
(* the others it has run every uthread of its own queue, and has none in   *)
(* hand: nobody else would ever run them.                                  *)
MainDrained == pc[MainK] \in {"lastmile", "ended"} =>
  runq[MainK] = {} /\ cur[MainK] = Nil

(* A uthread that has finished is never brought back: no step changes its  *)
(* state again or puts it on a run queue, a kthread or a way to a queue,   *)
(* although gtthread_app_exit marks main()'s uthread DONE from outside.    *)
NeverRevived ==
  [][\A u \in Threads : ustate[u] = "DONE" =>
       ustate'[u] = "DONE" /\ Places(u)' \subseteq Places(u)]_vars

(* The abstract pool.  A uthread on its way to a queue is already there;   *)
(* one that has set itself DONE has left its kthread.                      *)
Pool == INSTANCE UthreadPool WITH
  ready <- [k \in Kthreads |->
              runq[k] \cup {obj[j] : j \in {i \in Kthreads :
                                              tgt[i] = k /\ obj[i] # Nil}}],
  running <- [k \in Kthreads |->
                IF cur[k] = Nil THEN Nil
                ELSE IF ustate[cur[k]] = "DONE" THEN Nil ELSE cur[k]],
  done <- {u \in Threads : ustate[u] = "DONE"},
  returned <- pc[MainK] = "ended"

(* The scheduler with its signals, locks and saved contexts does what a    *)
(* pool of uthreads promises: one kthread per uthread for life, at most    *)
(* one uthread per kthread at a time, completion once, exit last.          *)
PoolImplemented == Pool!PoolSpec

(* A kthread has come to grief: it is lost or dead, or it has quit and     *)
(* left uthreads on its queue.  The findings show how.                     *)
Derailed == \E k \in Kthreads :
  \/ pc[k] \in {"lost", "segv", "aborted", "exited"}
  \/ pc[k] = "ended" /\ runq[k] # {}

(* Every uthread that is created is run to its end, unless a kthread has   *)
(* derailed: no lost wake-up, lock or count keeps it waiting for ever.     *)
EveryUthreadCompletes == \A u \in Uthreads :
  (ustate[u] = "INIT") ~> (ustate[u] = "DONE" \/ Derailed)

(* gtthread_app_exit returns, unless a kthread has derailed. *)
ExitReturns == <>(pc[MainK] = "ended" \/ Derailed)

-----------------------------------------------------------------------------
(* What the code's comments say and the scheduler does not do.             *)

(* gt_uthread.h:46, "save user-level thread context": what is saved in a   *)
(* uthread's uthread_env is a context of that uthread, never one on the    *)
(* stack of whoever ran before it.                                         *)
OwnStackContext == \A u \in Threads : ~Foreign(env[u])

(* gt_uthread.c:191, "Re-install the scheduling signal handlers": when a   *)
(* uthread is about to run, both scheduling signals are open.              *)
SignalsReinstalled == \A k \in Kthreads : pc[k] = "jump" => mask[k] = {}

(* gt_uthread.c:192-195: the timer wakes the scheduler up after a          *)
(* uthread's fair slice, so its code never runs with no slice timer.       *)
SliceAlwaysTimed == \A k \in Kthreads : pc[k] = "user" => armed[k]

(* gt_kthread.c:281, "when there are no more uthreads to schedule": a      *)
(* kthread quits only with nothing left on its queue.                      *)
QuitsOnlyWhenDrained == \A k \in Kthreads : pc[k] = "ended" => runq[k] = {}

(* gt_pq.h:48-55, the lock exists "to allow a uthread_create from any      *)
(* kthread": uthread_create does not read through a null master_thread,    *)
(* whichever kthread calls it.                                             *)
CreateFromAnyKthread == \A k \in Kthreads : pc[k] # "segv"

(* gt_uthread.c:225, assert: whoever calls gt_yield is RUNNING.            *)
YielderIsRunning == \A k \in Kthreads : pc[k] # "aborted"
=============================================================================
