--------------------------- MODULE GtSchedProofs ---------------------------
(***************************************************************************)
(* Proofs about GtSched for any kthreads, uthreads, creators and yielders. *)
(*                                                                         *)
(* LiveInOnePlace is not inductive by itself: a signal in the wrong place  *)
(* could find a uthread both in hand and queued.  IInv adds what the code  *)
(* does about it.  PcInv: do_not_disturb is raised wherever a kthread has  *)
(* no current uthread or has one on its way.  LockInv: a run-queue lock is *)
(* held exactly in the critical sections.  PlaceInv: no two places hold    *)
(* the same uthread.  CountInv and ExitInv carry this to the count that    *)
(* gtthread_app_exit waits for.  There is one lemma for each part, with    *)
(* one step for each action; LiveStep is what PlaceInv's lemma tells       *)
(* CountInv's and ExitInv's.                                               *)
(***************************************************************************)
EXTENDS GtSched, FiniteSetTheorems, SequenceTheorems, TLAPS

(* No kthread is interrupted where do_not_disturb matters, and it has a    *)
(* current uthread, or one in transit, exactly where the code does.        *)
Unoccupied == {"requeue", "requeuecs", "save", "pick", "pickcs", "empty",
               "idle", "lastmile", "ended"}
Carrying == {"enq", "enqcs", "requeue", "requeuecs"}
PcInv == \A k \in Kthreads :
  /\ ~dnd[k] => pc[k] \in Interruptible \cup {"lost", "aborted"}
  /\ pc[k] # "lost" => (cur[k] = Nil <=> pc[k] \in Unoccupied)
  /\ obj[k] = Nil <=> pc[k] \notin Carrying

(* What a stack of frames always looks like, saved or in use: a handler's  *)
(* own frame was pushed with that handler's signal blocked, and what       *)
(* uthread code runs under lets SIGVTALRM through.                         *)
Shape(s) ==
  /\ NestsInTurn(s)
  /\ s # <<>> => s[1].pc \notin {"handler", "return"}
  /\ \A i \in 1..Len(s) :
       /\ s[i].pc = "handler" => s[i].mask # {}
       /\ s[i].pc \in {"user", "jump"} => "VTALRM" \notin s[i].mask

(* Who may execute at l with mask m over the frames of s.                  *)
Fits(l, m, s) ==
  /\ l = "handler" => /\ s # <<>> /\ m # {}
                      /\ Last(s).pc = "handler" => m = Signals
  /\ l = "return" => s # <<>>
  /\ l \in {"user", "yield", "yielding"} \cup InCreate => s = <<>>
  /\ l \in {"user", "jump"} \cup InCreate => "VTALRM" \notin m

StackInv ==
  /\ \A k \in Kthreads : Shape(frames[k]) /\ Fits(pc[k], mask[k], frames[k])
  /\ \A u \in Threads : env[u] # Nil => Shape(env[u])

(* A run queue's lock is held by exactly the kthread inside a critical     *)
(* section of that queue.                                                  *)
InCS(k, j) == \/ pc[k] \in {"enqcs", "requeuecs"} /\ tgt[k] = j
              \/ pc[k] = "pickcs" /\ j = k
LockInv == \A j, k \in Kthreads : runqLock[j] = k <=> InCS(k, j)

(* LiveInOnePlace without the set of places. *)
Placed(u) == \E k \in Kthreads : u \in runq[k] \/ u = cur[k] \/ u = obj[k]
PlaceInv ==
  /\ \A j, k \in Kthreads :
       /\ runq[j] \cap runq[k] # {} => j = k
       /\ cur[j] # Nil /\ cur[j] = cur[k] => j = k
       /\ obj[j] # Nil /\ obj[j] = obj[k] => j = k
       /\ cur[j] \notin runq[k] /\ obj[j] \notin runq[k]
       /\ cur[j] # Nil => cur[j] # obj[k]
  /\ \A u \in Threads :
       /\ ustate[u] = "NONE" => ~Placed(u)
       /\ ustate[u] \notin {"NONE", "DONE"} => Placed(u)

LiveSet == {u \in Threads : Placed(u)}
CountInv == curUthreads = Cardinality(LiveSet)

ExitInv == pc[MainK] = "ended" => curUthreads = 0

IInv == Typed /\ PcInv /\ StackInv /\ LockInv /\ PlaceInv /\ CountInv /\ ExitInv

-----------------------------------------------------------------------------
(* A signal is ignored, or adds one frame and blocks itself at least.      *)
LEMMA SignalStep ==
  ASSUME Typed, PcInv, NEW k \in Kthreads, TimerExpire(k) \/ TakeNotice(k)
  PROVE  /\ UNCHANGED <<cur, ustate, env, dnd, queueVars, sharedVars>>
         /\ \/ UNCHANGED <<pc, mask, frames>> /\ dnd[k]
            \/ /\ pc[k] \in Interruptible
               /\ pc' = [pc EXCEPT ![k] = "handler"]
               /\ \E s \in Signals \ mask[k], also \in SUBSET Signals :
                    mask' = [mask EXCEPT ![k] = @ \cup {s} \cup also]
               /\ frames' = [frames EXCEPT ![k] =
                               Append(@, [pc |-> pc[k], mask |-> mask[k]])]
         /\ \A j \in Kthreads \ {k} : armed'[j] = armed[j]
         /\ armed' \in [Kthreads -> BOOLEAN]
         /\ notified' \in [Kthreads -> BOOLEAN]
<1> USE DEF Typed
<1>1. ASSUME NEW s \in Signals, s \notin mask[k], pc[k] \notin Stopped,
             Interrupt(k, s)
      PROVE  \/ UNCHANGED <<pc, mask, frames>> /\ dnd[k]
             \/ /\ pc[k] \in Interruptible
                /\ pc' = [pc EXCEPT ![k] = "handler"]
                /\ \E t \in Signals \ mask[k], also \in SUBSET Signals :
                     mask' = [mask EXCEPT ![k] = @ \cup {t} \cup also]
                /\ frames' = [frames EXCEPT ![k] =
                                Append(@, [pc |-> pc[k], mask |-> mask[k]])]
  <2>1. CASE dnd[k] /\ UNCHANGED <<pc, mask, frames>>
    BY <2>1
  <2>2. CASE ~dnd[k]
    <3>1. pc[k] \in Interruptible
      BY <1>1, <2>2 DEF PcInv, Stopped
    <3>2. PICK also \in SaMasks :
            mask' = [mask EXCEPT ![k] = @ \cup {s} \cup also]
      BY <1>1, <2>2 DEF Interrupt, Blocked
    <3>3. also \in SUBSET Signals
      BY SchedAssumption
    <3>4. /\ pc' = [pc EXCEPT ![k] = "handler"]
          /\ frames' = [frames EXCEPT ![k] =
                          Append(@, [pc |-> pc[k], mask |-> mask[k]])]
      BY <1>1, <2>2 DEF Interrupt, Goto
    <3> QED BY <1>1, <3>1, <3>2, <3>3, <3>4
  <2> QED BY <1>1, <2>1, <2>2 DEF Interrupt
<1>2. CASE TimerExpire(k)
  <2>1. /\ UNCHANGED <<cur, ustate, env, dnd, notified, queueVars, sharedVars>>
        /\ armed' = [armed EXCEPT ![k] = FALSE]
        /\ "VTALRM" \notin mask[k] /\ pc[k] \notin Stopped
        /\ Interrupt(k, "VTALRM")
    BY <1>2 DEF TimerExpire
  <2> QED BY <1>1, <2>1 DEF Signals
<1>3. CASE TakeNotice(k)
  <2>1. /\ UNCHANGED <<cur, ustate, env, dnd, armed, queueVars, sharedVars>>
        /\ notified' = [notified EXCEPT ![k] = FALSE]
        /\ "USR1" \notin mask[k] /\ pc[k] \notin Stopped
        /\ Interrupt(k, "USR1")
    BY <1>3 DEF TakeNotice
  <2> QED BY <1>1, <2>1 DEF Signals
<1> QED BY <1>2, <1>3

(* siglongjmp(uthread_env) lands in what was saved, or is lost.            *)
LEMMA JumpStep ==
  ASSUME Typed, PcInv, NEW k \in Kthreads, Jump(k)
  PROVE  /\ pc[k] = "jump" /\ cur[k] \in Threads /\ cur[k] # Nil
         /\ env[cur[k]] \in Seq(Frames) \cup {Nil}
         /\ UNCHANGED <<cur, ustate, signalVars, queueVars, sharedVars>>
         /\ env' = [env EXCEPT ![cur[k]] = Nil]
         /\ \/ UNCHANGED frames /\ pc' = [pc EXCEPT ![k] = "lost"]
            \/ /\ env[cur[k]] # Nil
               /\ frames' = [frames EXCEPT ![k] = env[cur[k]]]
               /\ \/ env[cur[k]] = <<>> /\ pc' = [pc EXCEPT ![k] = "user"]
                  \/ env[cur[k]] # <<>> /\ pc' = [pc EXCEPT ![k] = "return"]
<1>1. pc[k] = "jump" /\ cur[k] \in Threads /\ cur[k] # Nil
  BY DEF Jump, Typed, PcInv, Unoccupied
<1>2. env[cur[k]] \in Seq(Frames) \cup {Nil}
  BY <1>1 DEF Typed
<1>3. /\ UNCHANGED <<cur, ustate, signalVars, queueVars, sharedVars>>
      /\ env' = [env EXCEPT ![cur[k]] = Nil]
  BY DEF Jump
<1>4. Resume(k, env[cur[k]])
  BY DEF Jump
<1> QED BY <1>1, <1>2, <1>3, <1>4 DEF Resume, Goto

(* The end of a handler takes the topmost frame off a stack that has one.  *)
LEMMA ReturnStep ==
  ASSUME Typed, StackInv, NEW k \in Kthreads, Return(k)
  PROVE  /\ pc[k] = "return" /\ frames[k] # <<>> /\ frames[k] \in Seq(Frames)
         /\ Last(frames[k]) \in Frames /\ Front(frames[k]) \in Seq(Frames)
         /\ Last(frames[k]).pc \in Interruptible
         /\ pc' = [pc EXCEPT ![k] = Last(frames[k]).pc]
         /\ \E l \in Interruptible : pc' = [pc EXCEPT ![k] = l]
         /\ mask' = [mask EXCEPT ![k] = Last(frames[k]).mask]
         /\ frames' = [frames EXCEPT ![k] = Front(frames[k])]
         /\ UNCHANGED <<cur, ustate, env, dnd, armed, notified, queueVars,
                        sharedVars>>
<1>1. pc[k] = "return" /\ frames[k] # <<>> /\ frames[k] \in Seq(Frames)
  BY DEF Return, StackInv, Fits, Typed
<1>2. ASSUME NEW s \in Seq(Frames), s # <<>>
      PROVE  Last(s) \in Frames /\ Front(s) \in Seq(Frames)
  BY <1>2 DEF Last, Front
<1>3. Last(frames[k]) \in Frames /\ Front(frames[k]) \in Seq(Frames)
  BY <1>1, <1>2
<1>4. Last(frames[k]).pc \in Interruptible
  BY <1>3 DEF Frames
<1>5. pc' = [pc EXCEPT ![k] = Last(frames[k]).pc]
  BY DEF Return, Goto
<1> QED BY <1>1, <1>3, <1>4, <1>5 DEF Return

(* Every step keeps every variable in its type.                            *)
LEMMA TypedNext ==
  ASSUME Typed, PcInv, StackInv, [Next]_vars PROVE Typed'
<1> USE DEF Typed, PCs, States, InScheduler, InCreate, Interruptible,
            Landing, Stopped, Goto
<1>1. ASSUME NEW k \in Kthreads, NEW u \in Uthreads, NEW j \in Kthreads,
             Create(k, u, j)
      PROVE Typed'
  <2>1. u \in Threads
    BY DEF Threads
  <2>2. \/ UNCHANGED <<ustate, obj, tgt, curUthreads>>
        \/ /\ ustate' = [ustate EXCEPT ![u] = "INIT"]
           /\ obj' = [obj EXCEPT ![k] = u]
           /\ tgt' = [tgt EXCEPT ![k] = j]
           /\ curUthreads' = curUthreads + 1
    BY <1>1 DEF Create
  <2>3. /\ obj' \in [Kthreads -> Threads \cup {Nil}]
        /\ tgt' \in [Kthreads -> Kthreads]
        /\ ustate' \in [Threads -> States]
        /\ curUthreads' \in Int
    <3>1. CASE UNCHANGED <<ustate, obj, tgt, curUthreads>>
      BY <3>1
    <3>2. CASE /\ ustate' = [ustate EXCEPT ![u] = "INIT"]
               /\ obj' = [obj EXCEPT ![k] = u]
               /\ tgt' = [tgt EXCEPT ![k] = j]
               /\ curUthreads' = curUthreads + 1
      BY <2>1, <3>2
    <3> QED BY <2>2, <3>1, <3>2
  <2>4. pc' = pc \/ \E l \in {"exited", "segv", "enq"} : pc' = [pc EXCEPT ![k] = l]
    BY <1>1 DEF Create
  <2>5. pc' \in [Kthreads -> PCs]
    BY <2>4
  <2> QED BY <1>1, <2>3, <2>5 DEF Create, DoNotDisturb
<1>2. ASSUME NEW k \in Kthreads, AddLock(k)
      PROVE Typed'
  BY <1>2 DEF AddLock, threadVars, signalVars, sharedVars
<1>3. ASSUME NEW k \in Kthreads, AddNew(k)
      PROVE Typed'
  <2>1. obj[k] \in Threads
    BY <1>3 DEF AddNew, PcInv, Carrying
  <2> QED BY <1>3, <2>1 DEF AddNew, Insert, Unlock, threadVars, signalVars, sharedVars
<1>4. ASSUME NEW k \in Kthreads, AddPreempted(k)
      PROVE Typed'
  <2>1. obj[k] \in Threads
    BY <1>4 DEF AddPreempted, PcInv, Carrying
  <2> QED
    BY <1>4, <2>1
    DEF AddPreempted, Insert, Unlock, threadVars, signalVars, sharedVars
<1>5. ASSUME NEW k \in Kthreads, Notify(k)
      PROVE Typed'
  BY <1>5 DEF Notify, threadVars, queueVars, sharedVars
<1>6. ASSUME NEW k \in Kthreads, Yield(k)
      PROVE Typed'
  <2>1. /\ UNCHANGED <<cur, env, frames, queueVars, signalVars, sharedVars>>
        /\ \/ UNCHANGED ustate /\ pc' = [pc EXCEPT ![k] = "aborted"]
           \/ /\ ustate' = [ustate EXCEPT ![cur[k]] = "YIELD"]
              /\ pc' = [pc EXCEPT ![k] = "yield"]
    BY <1>6 DEF Yield
  <2>2. pc' \in [Kthreads -> PCs]
    BY <2>1
  <2>3. ustate' \in [Threads -> States]
    BY <2>1
  <2> QED BY <2>1, <2>2, <2>3 DEF queueVars, signalVars, sharedVars
<1>7. ASSUME NEW k \in Kthreads, YieldTimer(k)
      PROVE Typed'
  BY <1>7 DEF YieldTimer, threadVars, queueVars, sharedVars
<1>8. ASSUME NEW k \in Kthreads, YieldSchedule(k)
      PROVE Typed'
  BY <1>8 DEF YieldSchedule, DoNotDisturb, threadVars, queueVars, sharedVars
<1>9. ASSUME NEW k \in Kthreads, Finish(k)
      PROVE Typed'
  BY <1>9 DEF Finish, Quiet, DoNotDisturb, queueVars, sharedVars
<1>10. ASSUME NEW k \in Kthreads, MainExit(k)
      PROVE Typed'
  BY <1>10 DEF MainExit, Quiet, DoNotDisturb, queueVars
<1>11. ASSUME NEW k \in Kthreads, PutDone(k)
      PROVE Typed'
  BY <1>11 DEF PutDone, IsDone, Reaped, queueVars, signalVars
<1>12. ASSUME NEW k \in Kthreads, PutBack(k)
      PROVE Typed'
  BY <1>12 DEF PutBack, IsDone, UObj, Home, signalVars, sharedVars
<1>13. ASSUME NEW k \in Kthreads, PickLock(k)
      PROVE Typed'
  BY <1>13 DEF PickLock, threadVars, signalVars, sharedVars
<1>14. ASSUME NEW k \in Kthreads, NEW u \in Threads, Pick(k, u)
      PROVE Typed'
  BY <1>14 DEF Pick, Unlock, Removed, signalVars, sharedVars
<1>15. ASSUME NEW k \in Kthreads, PickNothing(k)
      PROVE Typed'
  BY <1>15 DEF PickNothing, Unlock, NoBest, threadVars, signalVars, sharedVars
<1>16. ASSUME NEW k \in Kthreads, QuitOrIdle(k)
      PROVE Typed'
  <2>1. <<>> \in Seq(Frames)
    OBVIOUS
  <2> QED BY <1>16, <2>1 DEF QuitOrIdle, queueVars, signalVars, sharedVars
<1>17. ASSUME NEW k \in Kthreads, IdleLoop(k)
      PROVE Typed'
  BY <1>17 DEF IdleLoop, Quiet, DoNotDisturb, threadVars, queueVars
<1>18. ASSUME NEW k \in Kthreads, LastMile(k)
      PROVE Typed'
  BY <1>18 DEF LastMile, AllReaped, threadVars, queueVars, signalVars,
      sharedVars
<1>19. ASSUME NEW k \in Kthreads, Dispatch(k)
      PROVE Typed'
  <2>1. <<>> \in Seq(Frames)
    OBVIOUS
  <2>2. env' \in [Threads -> Seq(Frames) \cup {Nil}]
    BY <1>19, <2>1 DEF Dispatch
  <2> QED BY <1>19, <2>2 DEF Dispatch, Unblocked, queueVars, sharedVars
<1>20. ASSUME NEW k \in Kthreads, Jump(k)
      PROVE Typed'
  <2>1. /\ env' \in [Threads -> Seq(Frames) \cup {Nil}]
        /\ frames' \in [Kthreads -> Seq(Frames)]
        /\ pc' \in [Kthreads -> PCs]
        /\ UNCHANGED <<cur, ustate, signalVars, queueVars, sharedVars>>
    <3> DEFINE e == env[cur[k]]
    <3>1. /\ cur[k] \in Threads
          /\ UNCHANGED <<cur, ustate, signalVars, queueVars, sharedVars>>
          /\ env' = [env EXCEPT ![cur[k]] = Nil]
          /\ \E l \in {"lost", "user", "return"} : pc' = [pc EXCEPT ![k] = l]
          /\ \/ UNCHANGED frames
             \/ e # Nil /\ frames' = [frames EXCEPT ![k] = e]
      BY <1>20, JumpStep
    <3>2. e \in Seq(Frames) \cup {Nil}
      BY <3>1
    <3> HIDE DEF e
    <3>3. frames' \in [Kthreads -> Seq(Frames)]
      BY <3>1, <3>2
    <3>4. pc' \in [Kthreads -> PCs]
      BY <3>1
    <3> QED BY <3>1, <3>3, <3>4
  <2> QED BY <2>1 DEF signalVars, queueVars, sharedVars
<1>21. ASSUME NEW k \in Kthreads, HandlerSchedule(k)
      PROVE Typed'
  BY <1>21 DEF HandlerSchedule, Quiet, DoNotDisturb, threadVars, queueVars,
      sharedVars
<1>22. ASSUME NEW k \in Kthreads, TimerExpire(k) \/ TakeNotice(k)
      PROVE Typed'
  <2>1. /\ UNCHANGED <<cur, ustate, env, dnd, queueVars, sharedVars>>
        /\ armed' \in [Kthreads -> BOOLEAN]
        /\ notified' \in [Kthreads -> BOOLEAN]
    BY <1>22, SignalStep
  <2>2. /\ pc' \in [Kthreads -> PCs]
        /\ mask' \in [Kthreads -> SUBSET Signals]
        /\ frames' \in [Kthreads -> Seq(Frames)]
    <3>1. CASE UNCHANGED <<pc, mask, frames>>
      BY <3>1
    <3>2. ASSUME pc[k] \in Interruptible,
                 pc' = [pc EXCEPT ![k] = "handler"],
                 NEW s \in Signals, NEW also \in SUBSET Signals,
                 mask' = [mask EXCEPT ![k] = @ \cup {s} \cup also],
                 frames' = [frames EXCEPT ![k] =
                              Append(@, [pc |-> pc[k], mask |-> mask[k]])]
          PROVE  /\ pc' \in [Kthreads -> PCs]
                 /\ mask' \in [Kthreads -> SUBSET Signals]
                 /\ frames' \in [Kthreads -> Seq(Frames)]
      <4> DEFINE f == [pc |-> pc[k], mask |-> mask[k]]
      <4>1. f \in Frames
        BY <3>2 DEF Frames
      <4>2. frames' = [frames EXCEPT ![k] = Append(frames[k], f)]
        BY <3>2
      <4> HIDE DEF f
      <4>3. Append(frames[k], f) \in Seq(Frames)
        BY <4>1
      <4>4. mask[k] \cup {s} \cup also \in SUBSET Signals
        BY <3>2
      <4>5. \A m \in SUBSET Signals :
              [mask EXCEPT ![k] = m] \in [Kthreads -> SUBSET Signals]
        OBVIOUS
      <4>6. mask' \in [Kthreads -> SUBSET Signals]
        BY <3>2, <4>4, <4>5
      <4> QED BY <3>2, <4>2, <4>3, <4>6
    <3>3. \/ UNCHANGED <<pc, mask, frames>>
          \/ /\ pc[k] \in Interruptible
             /\ pc' = [pc EXCEPT ![k] = "handler"]
             /\ \E s \in Signals \ mask[k], also \in SUBSET Signals :
                  mask' = [mask EXCEPT ![k] = @ \cup {s} \cup also]
             /\ frames' = [frames EXCEPT ![k] =
                             Append(@, [pc |-> pc[k], mask |-> mask[k]])]
      BY <1>22, SignalStep
    <3> QED BY <3>1, <3>2, <3>3
  <2> QED BY <2>1, <2>2 DEF queueVars, sharedVars
<1>23. ASSUME NEW k \in Kthreads, Return(k)
      PROVE Typed'
  <2>1. /\ Last(frames[k]).pc \in PCs /\ Last(frames[k]).mask \in SUBSET Signals
        /\ Front(frames[k]) \in Seq(Frames)
    BY <1>23, ReturnStep DEF Frames
  <2>2. /\ pc' \in [Kthreads -> PCs]
        /\ mask' \in [Kthreads -> SUBSET Signals]
        /\ frames' \in [Kthreads -> Seq(Frames)]
        /\ UNCHANGED <<cur, ustate, env, dnd, armed, notified, queueVars,
                       sharedVars>>
    <3>1. /\ pc' = [pc EXCEPT ![k] = Last(frames[k]).pc]
          /\ mask' = [mask EXCEPT ![k] = Last(frames[k]).mask]
          /\ frames' = [frames EXCEPT ![k] = Front(frames[k])]
          /\ UNCHANGED <<cur, ustate, env, dnd, armed, notified, queueVars,
                         sharedVars>>
      BY <1>23, ReturnStep
    <3>2. \A m \in SUBSET Signals :
            [mask EXCEPT ![k] = m] \in [Kthreads -> SUBSET Signals]
      OBVIOUS
    <3> QED BY <2>1, <3>1, <3>2
  <2> QED BY <2>2 DEF queueVars, sharedVars
<1>25. ASSUME NEW k \in Kthreads, Save(k)
      PROVE Typed'
  BY <1>25 DEF Save, Saved, signalVars, sharedVars
<1>24. CASE UNCHANGED vars
  BY <1>24 DEF vars, threadVars, queueVars, signalVars, sharedVars
<1> QED
  BY <1>1, <1>2, <1>3, <1>4, <1>5, <1>6, <1>7, <1>8, <1>9, <1>10, <1>11,
     <1>12, <1>13, <1>14, <1>15, <1>16, <1>17, <1>18, <1>19, <1>20, <1>21,
     <1>22, <1>23, <1>24, <1>25
     DEF Next, Run, Schedule

(* Every step keeps PcInv: one that raises or drops do_not_disturb, or     *)
(* takes or gives up a uthread, goes to a place in the code that says so.  *)
LEMMA PcNext ==
  ASSUME Typed, PcInv, StackInv, [Next]_vars PROVE PcInv'
<1> USE DEF Typed, PcInv, Unoccupied, Carrying, Interruptible, Landing,
            Stopped, Goto
<1>1. ASSUME NEW k \in Kthreads, NEW u \in Uthreads, NEW j \in Kthreads,
             Create(k, u, j)
      PROVE PcInv'
  <2>1. /\ pc[k] = "user" /\ DoNotDisturb(k) /\ UNCHANGED cur
        /\ \/ UNCHANGED obj /\ pc' = pc
           \/ UNCHANGED obj /\ pc' = [pc EXCEPT ![k] = "exited"]
           \/ UNCHANGED obj /\ pc' = [pc EXCEPT ![k] = "segv"]
           \/ obj' = [obj EXCEPT ![k] = u] /\ pc' = [pc EXCEPT ![k] = "enq"]
    BY <1>1 DEF Create
  <2>2. u # Nil
    BY SchedAssumption DEF Threads
  <2> QED BY <2>1, <2>2 DEF DoNotDisturb
<1>2. ASSUME NEW k \in Kthreads, AddLock(k)
      PROVE PcInv'
  BY <1>2 DEF AddLock, threadVars, signalVars, sharedVars
<1>3. ASSUME NEW k \in Kthreads, AddNew(k)
      PROVE PcInv'
  BY <1>3 DEF AddNew, Insert, Unlock, threadVars, signalVars, sharedVars
<1>4. ASSUME NEW k \in Kthreads, AddPreempted(k)
      PROVE PcInv'
  BY <1>4 DEF AddPreempted, Insert, Unlock, threadVars, signalVars, sharedVars
<1>5. ASSUME NEW k \in Kthreads, Notify(k)
      PROVE PcInv'
  BY <1>5 DEF Notify, threadVars, queueVars, sharedVars
<1>6. ASSUME NEW k \in Kthreads, Yield(k)
      PROVE PcInv'
  BY <1>6 DEF Yield, queueVars, signalVars, sharedVars
<1>7. ASSUME NEW k \in Kthreads, YieldTimer(k)
      PROVE PcInv'
  BY <1>7 DEF YieldTimer, threadVars, queueVars, sharedVars
<1>8. ASSUME NEW k \in Kthreads, YieldSchedule(k)
      PROVE PcInv'
  BY <1>8 DEF YieldSchedule, DoNotDisturb, threadVars, queueVars, sharedVars
<1>9. ASSUME NEW k \in Kthreads, Finish(k)
      PROVE PcInv'
  BY <1>9 DEF Finish, Quiet, DoNotDisturb, queueVars, sharedVars
<1>10. ASSUME NEW k \in Kthreads, MainExit(k)
      PROVE PcInv'
  BY <1>10 DEF MainExit, Quiet, DoNotDisturb, queueVars
<1>11. ASSUME NEW k \in Kthreads, PutDone(k)
      PROVE PcInv'
  BY <1>11 DEF PutDone, IsDone, Reaped, queueVars, signalVars
<1>12. ASSUME NEW k \in Kthreads, PutBack(k)
      PROVE PcInv'
  BY <1>12 DEF PutBack, IsDone, UObj, Home, signalVars, sharedVars
<1>13. ASSUME NEW k \in Kthreads, PickLock(k)
      PROVE PcInv'
  BY <1>13 DEF PickLock, threadVars, signalVars, sharedVars
<1>14. ASSUME NEW k \in Kthreads, NEW u \in Threads, Pick(k, u)
      PROVE PcInv'
  BY <1>14, SchedAssumption DEF Pick, Unlock, Removed, signalVars, sharedVars
<1>15. ASSUME NEW k \in Kthreads, PickNothing(k)
      PROVE PcInv'
  BY <1>15 DEF PickNothing, Unlock, NoBest, threadVars, signalVars, sharedVars
<1>16. ASSUME NEW k \in Kthreads, QuitOrIdle(k)
      PROVE PcInv'
  BY <1>16 DEF QuitOrIdle, threadVars, queueVars, signalVars, sharedVars
<1>17. ASSUME NEW k \in Kthreads, IdleLoop(k)
      PROVE PcInv'
  BY <1>17 DEF IdleLoop, Quiet, DoNotDisturb, threadVars, queueVars
<1>18. ASSUME NEW k \in Kthreads, LastMile(k)
      PROVE PcInv'
  BY <1>18 DEF LastMile, AllReaped, threadVars, queueVars, signalVars,
      sharedVars
<1>19. ASSUME NEW k \in Kthreads, Dispatch(k)
      PROVE PcInv'
  BY <1>19 DEF Dispatch, Unblocked, queueVars, sharedVars
<1>20. ASSUME NEW k \in Kthreads, Jump(k)
      PROVE PcInv'
  <2>1. /\ pc[k] = "jump" /\ UNCHANGED <<cur, obj, dnd>>
        /\ \E l \in {"lost", "user", "return"} : pc' = [pc EXCEPT ![k] = l]
    BY <1>20, JumpStep DEF queueVars, signalVars
  <2> QED BY <2>1
<1>21. ASSUME NEW k \in Kthreads, HandlerSchedule(k)
      PROVE PcInv'
  BY <1>21 DEF HandlerSchedule, Quiet, DoNotDisturb, threadVars, queueVars,
      sharedVars
<1>22. ASSUME NEW k \in Kthreads, TimerExpire(k) \/ TakeNotice(k)
      PROVE PcInv'
  <2>1. /\ UNCHANGED <<cur, obj, dnd>>
        /\ \/ pc' = pc
           \/ pc[k] \in Interruptible /\ pc' = [pc EXCEPT ![k] = "handler"]
    BY <1>22, SignalStep DEF queueVars
  <2> QED BY <2>1
<1>23. ASSUME NEW k \in Kthreads, Return(k)
      PROVE PcInv'
  <2>1. /\ pc[k] = "return" /\ UNCHANGED <<cur, obj, dnd>>
        /\ \E l \in Interruptible : pc' = [pc EXCEPT ![k] = l]
    BY <1>23, ReturnStep DEF queueVars
  <2> QED BY <2>1
<1>25. ASSUME NEW k \in Kthreads, Save(k)
      PROVE PcInv'
  BY <1>25 DEF Save, signalVars, sharedVars
<1>24. CASE UNCHANGED vars
  BY <1>24 DEF vars, threadVars, queueVars, signalVars, sharedVars
<1> QED
  BY <1>1, <1>2, <1>3, <1>4, <1>5, <1>6, <1>7, <1>8, <1>9, <1>10, <1>11,
     <1>12, <1>13, <1>14, <1>15, <1>16, <1>17, <1>18, <1>19, <1>20, <1>21,
     <1>22, <1>23, <1>24, <1>25
     DEF Next, Run, Schedule

(* Every step keeps LockInv: a lock is taken on entering a critical        *)
(* section of its queue and given up on leaving it, and nothing else moves *)
(* there.                                                                  *)
LEMMA LockNext ==
  ASSUME Typed, PcInv, StackInv, LockInv, [Next]_vars PROVE LockInv'
<1> USE DEF Typed, LockInv, InCS, Goto
<1>1. ASSUME NEW k \in Kthreads, NEW u \in Uthreads, NEW j \in Kthreads,
             Create(k, u, j)
      PROVE LockInv'
  <2>1. /\ pc[k] = "user" /\ UNCHANGED runqLock
        /\ \/ UNCHANGED tgt /\ pc' = pc
           \/ UNCHANGED tgt /\ pc' = [pc EXCEPT ![k] = "exited"]
           \/ UNCHANGED tgt /\ pc' = [pc EXCEPT ![k] = "segv"]
           \/ tgt' = [tgt EXCEPT ![k] = j] /\ pc' = [pc EXCEPT ![k] = "enq"]
    BY <1>1 DEF Create
  <2> QED BY <2>1
<1>2. ASSUME NEW k \in Kthreads, AddLock(k)
      PROVE LockInv'
  BY <1>2, SchedAssumption DEF AddLock, threadVars, signalVars, sharedVars
<1>3. ASSUME NEW k \in Kthreads, AddNew(k)
      PROVE LockInv'
  BY <1>3, SchedAssumption DEF AddNew, Insert, Unlock, threadVars, signalVars,
      sharedVars
<1>4. ASSUME NEW k \in Kthreads, AddPreempted(k)
      PROVE LockInv'
  BY <1>4, SchedAssumption DEF AddPreempted, Insert, Unlock, threadVars,
      signalVars, sharedVars
<1>5. ASSUME NEW k \in Kthreads, Notify(k)
      PROVE LockInv'
  BY <1>5 DEF Notify, threadVars, queueVars, sharedVars
<1>6. ASSUME NEW k \in Kthreads, Yield(k)
      PROVE LockInv'
  <2>1. /\ pc[k] = "user" /\ UNCHANGED <<tgt, runqLock>>
        /\ \E l \in {"aborted", "yield"} : pc' = [pc EXCEPT ![k] = l]
    BY <1>6 DEF Yield, queueVars
  <2> QED BY <2>1
<1>7. ASSUME NEW k \in Kthreads, YieldTimer(k)
      PROVE LockInv'
  BY <1>7 DEF YieldTimer, threadVars, queueVars, sharedVars
<1>8. ASSUME NEW k \in Kthreads, YieldSchedule(k)
      PROVE LockInv'
  BY <1>8 DEF YieldSchedule, DoNotDisturb, threadVars, queueVars, sharedVars
<1>9. ASSUME NEW k \in Kthreads, Finish(k)
      PROVE LockInv'
  BY <1>9 DEF Finish, Quiet, DoNotDisturb, queueVars, sharedVars
<1>10. ASSUME NEW k \in Kthreads, MainExit(k)
      PROVE LockInv'
  BY <1>10 DEF MainExit, Quiet, DoNotDisturb, queueVars
<1>11. ASSUME NEW k \in Kthreads, PutDone(k)
      PROVE LockInv'
  BY <1>11 DEF PutDone, IsDone, Reaped, queueVars, signalVars
<1>12. ASSUME NEW k \in Kthreads, PutBack(k)
      PROVE LockInv'
  BY <1>12 DEF PutBack, IsDone, UObj, Home, signalVars, sharedVars
<1>13. ASSUME NEW k \in Kthreads, PickLock(k)
      PROVE LockInv'
  BY <1>13, SchedAssumption DEF PickLock, threadVars, signalVars, sharedVars
<1>14. ASSUME NEW k \in Kthreads, NEW u \in Threads, Pick(k, u)
      PROVE LockInv'
  BY <1>14, SchedAssumption DEF Pick, Unlock, Removed, signalVars, sharedVars
<1>15. ASSUME NEW k \in Kthreads, PickNothing(k)
      PROVE LockInv'
  BY <1>15, SchedAssumption DEF PickNothing, Unlock, NoBest, threadVars,
      signalVars, sharedVars
<1>16. ASSUME NEW k \in Kthreads, QuitOrIdle(k)
      PROVE LockInv'
  BY <1>16 DEF QuitOrIdle, queueVars, signalVars, sharedVars
<1>17. ASSUME NEW k \in Kthreads, IdleLoop(k)
      PROVE LockInv'
  BY <1>17 DEF IdleLoop, Quiet, DoNotDisturb, threadVars, queueVars
<1>18. ASSUME NEW k \in Kthreads, LastMile(k)
      PROVE LockInv'
  BY <1>18 DEF LastMile, AllReaped, threadVars, queueVars, signalVars,
      sharedVars
<1>19. ASSUME NEW k \in Kthreads, Dispatch(k)
      PROVE LockInv'
  BY <1>19 DEF Dispatch, Unblocked, queueVars, sharedVars
<1>20. ASSUME NEW k \in Kthreads, Jump(k)
      PROVE LockInv'
  <2>1. /\ pc[k] = "jump" /\ UNCHANGED <<tgt, runqLock>>
        /\ \E l \in {"lost", "user", "return"} : pc' = [pc EXCEPT ![k] = l]
    BY <1>20, JumpStep DEF queueVars
  <2> QED BY <2>1
<1>21. ASSUME NEW k \in Kthreads, HandlerSchedule(k)
      PROVE LockInv'
  BY <1>21 DEF HandlerSchedule, Quiet, DoNotDisturb, threadVars, queueVars,
      sharedVars
<1>22. ASSUME NEW k \in Kthreads, TimerExpire(k) \/ TakeNotice(k)
      PROVE LockInv'
  <2>1. /\ UNCHANGED <<tgt, runqLock>>
        /\ \/ pc' = pc
           \/ pc[k] \in Interruptible /\ pc' = [pc EXCEPT ![k] = "handler"]
    BY <1>22, SignalStep DEF queueVars
  <2> QED BY <2>1 DEF Interruptible, Landing
<1>23. ASSUME NEW k \in Kthreads, Return(k)
      PROVE LockInv'
  <2>1. /\ pc[k] = "return" /\ UNCHANGED <<tgt, runqLock>>
        /\ \E l \in Interruptible : pc' = [pc EXCEPT ![k] = l]
    BY <1>23, ReturnStep DEF queueVars
  <2> QED BY <2>1 DEF Interruptible, Landing
<1>25. ASSUME NEW k \in Kthreads, Save(k)
      PROVE LockInv'
  BY <1>25 DEF Save, signalVars, sharedVars
<1>24. CASE UNCHANGED vars
  BY <1>24 DEF vars, threadVars, queueVars, signalVars, sharedVars
<1> QED
  BY <1>1, <1>2, <1>3, <1>4, <1>5, <1>6, <1>7, <1>8, <1>9, <1>10, <1>11,
     <1>12, <1>13, <1>14, <1>15, <1>16, <1>17, <1>18, <1>19, <1>20, <1>21,
     <1>22, <1>23, <1>24, <1>25
     DEF Next, Run, Schedule

(* A signal's frame keeps the shape when the stack could be interrupted.   *)
LEMMA PushShape ==
  ASSUME NEW s \in Seq(Frames), NEW f \in Frames, Shape(s),
         s = <<>> => f.pc \notin {"handler", "return"},
         s # <<>> => /\ f.pc \in {"handler"} \cup Landing
                     /\ Last(s).pc = "handler" => f.pc \in Landing,
         f.pc = "handler" => f.mask # {},
         f.pc \in {"user", "jump"} => "VTALRM" \notin f.mask
  PROVE  /\ Shape(Append(s, f)) /\ Append(s, f) # <<>>
         /\ Last(Append(s, f)) = f
<1> DEFINE t == Append(s, f)
<1>1. /\ t # <<>> /\ Len(s) \in Nat /\ Len(t) = Len(s) + 1
      /\ t[Len(s) + 1] = f
      /\ \A i \in 1..Len(s) : t[i] = s[i]
  <2>1. ASSUME NEW e \in Seq(Frames)
        PROVE  /\ Append(e, f) # <<>> /\ Len(e) \in Nat
               /\ Len(Append(e, f)) = Len(e) + 1
               /\ Append(e, f)[Len(e) + 1] = f
    OBVIOUS
  <2>2. ASSUME NEW i \in 1..Len(s) PROVE Append(s, f)[i] = s[i]
    OBVIOUS
  <2> QED BY <2>1, <2>2
<1>2. s # <<>> => Last(s) = s[Len(s)] /\ Len(s) >= 1
  BY DEF Last
<1>3. s = <<>> => Len(s) = 0
  OBVIOUS
<1> HIDE DEF t
<1>4. Last(t) = f
  BY <1>1 DEF Last
<1>5. NestsInTurn(t)
  <2> SUFFICES ASSUME NEW i \in 1..(Len(t) - 1)
               PROVE  /\ t[i + 1].pc \in {"handler"} \cup Landing
                      /\ t[i].pc = "handler" => t[i + 1].pc \in Landing
    BY DEF NestsInTurn
  <2>1. CASE i < Len(s)
    <3>1. i \in 1..(Len(s) - 1) /\ i \in 1..Len(s) /\ i + 1 \in 1..Len(s)
      BY <1>1, <2>1
    <3> QED BY <1>1, <3>1 DEF Shape, NestsInTurn
  <2>2. CASE i = Len(s)
    <3>1. s # <<>> /\ i \in 1..Len(s)
      BY <1>1, <1>3, <2>2
    <3> QED BY <1>1, <1>2, <2>2, <3>1
  <2> QED BY <1>1, <2>1, <2>2
<1>6. t[1].pc \notin {"handler", "return"}
  <2>1. CASE s = <<>>
    BY <1>1, <1>3, <2>1
  <2>2. CASE s # <<>>
    BY <1>1, <1>2, <2>2 DEF Shape
  <2> QED BY <2>1, <2>2
<1>7. ASSUME NEW i \in 1..Len(t)
      PROVE  /\ t[i].pc = "handler" => t[i].mask # {}
             /\ t[i].pc \in {"user", "jump"} => "VTALRM" \notin t[i].mask
  <2>1. CASE i \in 1..Len(s)
    BY <1>1, <2>1 DEF Shape
  <2>2. CASE i = Len(s) + 1
    BY <1>1, <2>2
  <2> QED BY <1>1, <2>1, <2>2
<1>8. Shape(t)
  BY <1>5, <1>6, <1>7 DEF Shape
<1> QED BY <1>1, <1>4, <1>8 DEF t

(* The topmost frame comes off, and what it interrupted fits on the rest.  *)
LEMMA PopShape ==
  ASSUME NEW s \in Seq(Frames), s # <<>>, Shape(s)
  PROVE  /\ Shape(Front(s))
         /\ Fits(Last(s).pc, Last(s).mask, Front(s))
<1> DEFINE t == Front(s)
           n == Len(s)
<1>1. /\ n \in Nat /\ n >= 1 /\ t \in Seq(Frames)
      /\ Len(t) = n - 1 /\ \A i \in 1..(n - 1) : t[i] = s[i]
  <2>1. n \in Nat /\ n >= 1
    OBVIOUS
  <2>2. t = SubSeq(s, 1, n - 1)
    BY DEF Front
  <2>3. SubSeq(s, 1, n - 1) \in Seq(Frames) /\ Len(SubSeq(s, 1, n - 1)) = n - 1
    <3>1. 1 \in Int /\ n - 1 \in Int /\ \A i \in 1..(n - 1) : s[i] \in Frames
      BY <2>1
    <3>2. /\ SubSeq(s, 1, n - 1) \in Seq(Frames)
          /\ Len(SubSeq(s, 1, n - 1)) =
               IF 1 <= n - 1 THEN (n - 1) - 1 + 1 ELSE 0
      BY <3>1, SubSeqProperties
    <3> HIDE DEF n
    <3> QED BY <2>1, <3>2
  <2>4. ASSUME NEW i \in 1..(n - 1) PROVE SubSeq(s, 1, n - 1)[i] = s[i]
    BY <2>1
  <2> QED BY <2>1, <2>2, <2>3, <2>4
<1>2. Last(s) = s[n] /\ s[n] \in Frames
  BY DEF Last
<1>3. /\ t = <<>> => n = 1
      /\ t # <<>> => n > 1 /\ Last(t) = s[n - 1]
  <2>1. ASSUME NEW e \in Seq(Frames)
        PROVE  /\ e = <<>> => Len(e) = 0
               /\ e # <<>> => Len(e) > 0 /\ Last(e) = e[Len(e)]
    BY DEF Last
  <2>2. /\ t = <<>> => Len(t) = 0
        /\ t # <<>> => Len(t) > 0 /\ Last(t) = t[Len(t)]
    BY <1>1, <2>1
  <2> HIDE DEF t, n
  <2>3. n > 1 => n - 1 \in 1..(n - 1)
    BY <1>1
  <2> QED BY <1>1, <2>2, <2>3
<1> HIDE DEF t, n
<1>4. /\ \A i \in 1..(n - 1) : /\ s[i + 1].pc \in {"handler"} \cup Landing
                               /\ s[i].pc = "handler" => s[i + 1].pc \in Landing
      /\ s[1].pc \notin {"handler", "return"}
      /\ \A i \in 1..n :
           /\ s[i].pc = "handler" => s[i].mask # {}
           /\ s[i].pc \in {"user", "jump"} => "VTALRM" \notin s[i].mask
  BY DEF Shape, NestsInTurn, n
<1>5. Shape(t)
  <2>1. NestsInTurn(t)
    <3> SUFFICES ASSUME NEW i \in 1..(Len(t) - 1)
                 PROVE  /\ t[i + 1].pc \in {"handler"} \cup Landing
                        /\ t[i].pc = "handler" => t[i + 1].pc \in Landing
      BY DEF NestsInTurn
    <3>1. i \in 1..(n - 1) /\ i + 1 \in 1..(n - 1)
      BY <1>1
    <3> QED BY <1>1, <1>4, <3>1
  <2>2. t # <<>> => t[1].pc \notin {"handler", "return"}
    BY <1>1, <1>3, <1>4
  <2>3. ASSUME NEW i \in 1..Len(t)
        PROVE  /\ t[i].pc = "handler" => t[i].mask # {}
               /\ t[i].pc \in {"user", "jump"} => "VTALRM" \notin t[i].mask
    <3>1. i \in 1..(n - 1) /\ i \in 1..n
      BY <1>1
    <3> QED BY <1>1, <1>4, <3>1
  <2> QED BY <2>1, <2>2, <2>3 DEF Shape
<1>6. Fits(Last(s).pc, Last(s).mask, t)
  <2>1. CASE t = <<>>
    <3>1. n = 1 /\ n \in 1..n
      BY <1>3, <2>1
    <3> QED BY <1>2, <1>4, <2>1, <3>1 DEF Fits, InCreate, Frames, Interruptible, Landing
  <2>2. CASE t # <<>>
    <3>1. n - 1 \in 1..(n - 1) /\ n \in 1..n /\ (n - 1) + 1 = n
      BY <1>1, <1>3, <2>2
    <3>2. /\ s[n].pc \in {"handler"} \cup Landing
          /\ s[n - 1].pc = "handler" => s[n].pc \in Landing
          /\ s[n].pc = "handler" => s[n].mask # {}
          /\ s[n].pc \in {"user", "jump"} => "VTALRM" \notin s[n].mask
      BY <1>4, <3>1
    <3> QED BY <1>2, <1>3, <2>2, <3>2 DEF Fits, InCreate, Landing
  <2> QED BY <2>1, <2>2
<1> QED BY <1>5, <1>6 DEF t

(* Frames are pushed by signals and popped where handlers end; siglongjmp  *)
(* exchanges a stack for another, which sigsetjmp has saved.               *)
LEMMA StackNext ==
  ASSUME Typed, PcInv, StackInv, [Next]_vars PROVE StackInv'
<1>1. /\ frames \in [Kthreads -> Seq(Frames)]
      /\ env \in [Threads -> Seq(Frames) \cup {Nil}]
      /\ mask \in [Kthreads -> SUBSET Signals]
      /\ cur \in [Kthreads -> Threads \cup {Nil}]
      /\ pc \in [Kthreads -> PCs]
  BY DEF Typed
<1>2. Shape(<<>>)
  <2>1. <<>> \in Seq(Frames) /\ Len(<<>>) = 0
    OBVIOUS
  <2> QED BY <2>1 DEF Shape, NestsInTurn
<1> USE DEF Goto
(* What a step of k must leave.                                            *)
<1>3. ASSUME NEW k \in Kthreads,
             \A j \in Kthreads \ {k} :
               pc'[j] = pc[j] /\ mask'[j] = mask[j] /\ frames'[j] = frames[j],
             \A u \in Threads : env'[u] # Nil => Shape(env'[u]),
             Shape(frames'[k]), Fits(pc'[k], mask'[k], frames'[k])
      PROVE  StackInv'
  <2>1. \A j \in Kthreads : Shape(frames'[j]) /\ Fits(pc'[j], mask'[j], frames'[j])
    BY <1>3 DEF StackInv
  <2>2. \A u \in Threads : env'[u] # Nil => Shape(env'[u])
    BY <1>3
  <2> QED BY <2>1, <2>2 DEF StackInv, Shape, NestsInTurn, Fits, Last
(* A step that leaves the frames and the mask alone.                       *)
<1>4. ASSUME NEW k \in Kthreads, UNCHANGED <<env, frames, mask>>,
             NEW l, pc' = pc \/ pc' = [pc EXCEPT ![k] = l],
             Fits(pc[k], mask[k], frames[k]) => Fits(l, mask[k], frames[k])
      PROVE  StackInv'
  <2>1. /\ Shape(frames[k]) /\ Fits(pc[k], mask[k], frames[k])
        /\ \A u \in Threads : env'[u] # Nil => Shape(env'[u])
    BY <1>4 DEF StackInv
  <2>2. Fits(pc'[k], mask'[k], frames'[k])
    BY <1>1, <1>4, <2>1
  <2>3. \A j \in Kthreads \ {k} :
          pc'[j] = pc[j] /\ mask'[j] = mask[j] /\ frames'[j] = frames[j]
    BY <1>1, <1>4
  <2> QED BY <1>3, <1>4, <2>1, <2>2, <2>3
<1> DEFINE Kept == UNCHANGED <<env, frames, mask>>
           Free == InScheduler \cup Stopped \cup {"idle", "lastmile"}
<1>5. ASSUME NEW l \in Free, NEW m, NEW s PROVE Fits(l, m, s)
  BY <1>5 DEF Fits, InScheduler, Stopped, InCreate
<1>6. ASSUME NEW k \in Kthreads, NEW u \in Uthreads, NEW j \in Kthreads,
             Create(k, u, j)
      PROVE  StackInv'
  <2>1. Kept /\ pc[k] = "user"
    BY <1>6 DEF Create
  <2>2. pc' = pc \/ \E l \in {"exited", "segv", "enq"} : pc' = [pc EXCEPT ![k] = l]
    BY <1>6 DEF Create
  <2>3. \A l \in {"exited", "segv", "enq"} :
          Fits(pc[k], mask[k], frames[k]) => Fits(l, mask[k], frames[k])
    BY <2>1 DEF Fits, InCreate
  <2> QED BY <1>4, <2>1, <2>2, <2>3
<1>7. ASSUME NEW k \in Kthreads, AddLock(k) \/ AddNew(k) \/ Notify(k) PROVE StackInv'
  <2>1. Kept /\ \E l \in InCreate \cup {"requeue", "requeuecs", "user"} :
           /\ pc' = [pc EXCEPT ![k] = l]
           /\ pc[k] \in InCreate \/ l \in Free
    BY <1>7 DEF AddLock, AddNew, Notify, threadVars, signalVars, InCreate,
      InScheduler
  <2>2. PICK l \in InCreate \cup {"requeue", "requeuecs", "user"} :
           /\ pc' = [pc EXCEPT ![k] = l]
           /\ pc[k] \in InCreate \/ l \in Free
    BY <2>1
  <2>3. CASE l \in Free
    BY <1>4, <1>5, <2>1, <2>2, <2>3
  <2>4. CASE pc[k] \in InCreate /\ l \in InCreate \cup {"user"}
    <3>1. Fits(pc[k], mask[k], frames[k]) => Fits(l, mask[k], frames[k])
      BY <2>4 DEF Fits, InCreate
    <3> QED BY <1>4, <2>1, <2>2, <3>1
  <2> QED BY <2>2, <2>3, <2>4 DEF InScheduler
<1>8. ASSUME NEW k \in Kthreads, Yield(k) \/ YieldTimer(k) PROVE StackInv'
  <2>1. Kept /\ pc[k] \in {"user", "yield"} /\ \E l \in {"aborted", "yield", "yielding"} :
           pc' = [pc EXCEPT ![k] = l]
    BY <1>8 DEF Yield, YieldTimer, threadVars, signalVars
  <2>2. \A l \in {"aborted", "yield", "yielding"} :
          Fits(pc[k], mask[k], frames[k]) => Fits(l, mask[k], frames[k])
    BY <2>1 DEF Fits, InCreate
  <2> QED BY <1>4, <2>1, <2>2
<1>9. ASSUME NEW k \in Kthreads,
             \/ YieldSchedule(k) \/ Finish(k) \/ MainExit(k) \/ PutDone(k)
             \/ PutBack(k) \/ AddPreempted(k) \/ PickLock(k) \/ PickNothing(k)
             \/ IdleLoop(k) \/ LastMile(k) \/ HandlerSchedule(k)
      PROVE  StackInv'
  <2>1. Kept /\ \E l \in Free : pc' = [pc EXCEPT ![k] = l]
    BY <1>9
    DEF YieldSchedule, Finish, MainExit, PutDone, PutBack, AddPreempted,
        PickLock, PickNothing, IdleLoop, LastMile, HandlerSchedule,
        threadVars, signalVars, InScheduler, Stopped, Goto
  <2> QED BY <1>4, <1>5, <2>1
<1>10. ASSUME NEW k \in Kthreads, NEW u \in Threads, Pick(k, u) PROVE StackInv'
  <2>1. Kept /\ pc' = [pc EXCEPT ![k] = "dispatch"] /\ "dispatch" \in Free
    BY <1>10 DEF Pick, signalVars, InScheduler, Goto
  <2> QED BY <1>4, <1>5, <2>1
<1>11. ASSUME NEW k \in Kthreads, QuitOrIdle(k) PROVE StackInv'
  <2>1. /\ UNCHANGED <<env, mask>> /\ frames' = [frames EXCEPT ![k] = <<>>]
        /\ \E l \in {"lost", "idle", "lastmile", "ended"} :
             pc' = [pc EXCEPT ![k] = l]
    BY <1>11 DEF QuitOrIdle, signalVars, Goto
  <2>2. pc'[k] \in Free /\ frames'[k] = <<>>
    BY <1>1, <2>1 DEF Stopped
  <2>3. /\ \A j \in Kthreads \ {k} :
             pc'[j] = pc[j] /\ mask'[j] = mask[j] /\ frames'[j] = frames[j]
        /\ \A u \in Threads : env'[u] # Nil => Shape(env'[u])
    BY <1>1, <2>1 DEF StackInv
  <2> HIDE DEF Free
  <2> QED BY <1>2, <1>3, <1>5, <2>2, <2>3
<1>12. ASSUME NEW k \in Kthreads, Save(k) PROVE StackInv'
  <2>1. /\ UNCHANGED <<frames, mask>> /\ pc' = [pc EXCEPT ![k] = "pick"]
        /\ env' = [env EXCEPT ![saving[k]] = frames[k]]
    BY <1>12 DEF Save, Saved, signalVars, Goto
  <2>2. \A u \in Threads : env'[u] # Nil => Shape(env'[u])
    BY <1>1, <2>1 DEF StackInv
  <2>3. /\ \A j \in Kthreads \ {k} :
             pc'[j] = pc[j] /\ mask'[j] = mask[j] /\ frames'[j] = frames[j]
        /\ pc'[k] \in Free /\ Shape(frames'[k])
    BY <1>1, <2>1 DEF StackInv, InScheduler
  <2>4. Fits(pc'[k], mask'[k], frames'[k])
    BY <1>5, <2>3
  <2> QED BY <1>3, <2>2, <2>3, <2>4
<1>13. ASSUME NEW k \in Kthreads, Dispatch(k) PROVE StackInv'
  <2>1. /\ UNCHANGED frames /\ pc' = [pc EXCEPT ![k] = "jump"]
        /\ mask' = [mask EXCEPT ![k] = @ \ {"VTALRM"}]
        /\ env' = env \/ env' = [env EXCEPT ![cur[k]] = <<>>]
    <3>1. env' = [env EXCEPT ![cur[k]] =
                    IF ustate[cur[k]] = "INIT" THEN <<>> ELSE @]
      BY <1>13 DEF Dispatch
    <3>2. env' = env \/ env' = [env EXCEPT ![cur[k]] = <<>>]
      BY <1>1, <3>1
    <3> QED BY <1>13, <3>2 DEF Dispatch, Unblocked, Goto
  <2>2. \A u \in Threads : env'[u] # Nil => Shape(env'[u])
    BY <1>1, <1>2, <2>1 DEF StackInv
  <2>3. /\ \A j \in Kthreads \ {k} :
             pc'[j] = pc[j] /\ mask'[j] = mask[j] /\ frames'[j] = frames[j]
        /\ Shape(frames'[k])
        /\ pc'[k] = "jump" /\ "VTALRM" \notin mask'[k]
    BY <1>1, <2>1 DEF StackInv
  <2>4. Fits(pc'[k], mask'[k], frames'[k])
    BY <2>3 DEF Fits, InCreate
  <2> QED BY <1>3, <2>2, <2>3, <2>4
<1>14. ASSUME NEW k \in Kthreads, Jump(k) PROVE StackInv'
  <2> DEFINE e == env[cur[k]]
  <2>1. /\ pc[k] = "jump" /\ cur[k] \in Threads /\ UNCHANGED mask
        /\ env' = [env EXCEPT ![cur[k]] = Nil]
        /\ \/ UNCHANGED frames /\ pc' = [pc EXCEPT ![k] = "lost"]
           \/ /\ e # Nil
              /\ frames' = [frames EXCEPT ![k] = e]
              /\ \/ e = <<>> /\ pc' = [pc EXCEPT ![k] = "user"]
                 \/ e # <<>> /\ pc' = [pc EXCEPT ![k] = "return"]
    BY <1>14, JumpStep DEF signalVars
  <2>2. \A u \in Threads : env'[u] # Nil => Shape(env'[u])
    BY <1>1, <2>1 DEF StackInv
  <2>3. e # Nil => Shape(e)
    BY <2>1 DEF StackInv
  <2>4. \A j \in Kthreads \ {k} :
          pc'[j] = pc[j] /\ mask'[j] = mask[j] /\ frames'[j] = frames[j]
    BY <1>1, <2>1
  <2>5. "VTALRM" \notin mask[k]
    BY <2>1 DEF StackInv, Fits
  <2> HIDE DEF e
  <2>6. Shape(frames'[k]) /\ Fits(pc'[k], mask'[k], frames'[k])
    <3>1. CASE UNCHANGED frames /\ pc' = [pc EXCEPT ![k] = "lost"]
      <4>1. pc'[k] = "lost" /\ Shape(frames'[k])
        BY <1>1, <3>1 DEF StackInv
      <4> QED BY <4>1 DEF Fits, InCreate
    <3>2. CASE /\ e = <<>> /\ e # Nil /\ frames' = [frames EXCEPT ![k] = e]
               /\ pc' = [pc EXCEPT ![k] = "user"]
      <4>1. pc'[k] = "user" /\ frames'[k] = <<>> /\ mask'[k] = mask[k]
        BY <1>1, <2>1, <3>2
      <4> QED BY <1>2, <2>5, <4>1 DEF Fits, InCreate
    <3>3. CASE /\ e # <<>> /\ e # Nil /\ frames' = [frames EXCEPT ![k] = e]
               /\ pc' = [pc EXCEPT ![k] = "return"]
      <4>1. pc'[k] = "return" /\ frames'[k] = e
        BY <1>1, <3>3
      <4> QED BY <2>3, <3>3, <4>1 DEF Fits, InCreate
    <3> QED BY <2>1, <3>1, <3>2, <3>3
  <2> QED BY <1>3, <2>2, <2>4, <2>6
<1>15. ASSUME NEW k \in Kthreads, Return(k) PROVE StackInv'
  <2>1. /\ frames[k] # <<>> /\ frames[k] \in Seq(Frames)
        /\ pc' = [pc EXCEPT ![k] = Last(frames[k]).pc]
        /\ mask' = [mask EXCEPT ![k] = Last(frames[k]).mask]
        /\ frames' = [frames EXCEPT ![k] = Front(frames[k])]
        /\ UNCHANGED env
    BY <1>15, ReturnStep
  <2>2. Shape(Front(frames[k])) /\ Fits(Last(frames[k]).pc, Last(frames[k]).mask,
                                        Front(frames[k]))
    BY <2>1, PopShape DEF StackInv
  <2>3. \A u \in Threads : env'[u] # Nil => Shape(env'[u])
    BY <2>1 DEF StackInv
  <2>4. /\ \A j \in Kthreads \ {k} :
             pc'[j] = pc[j] /\ mask'[j] = mask[j] /\ frames'[j] = frames[j]
        /\ pc'[k] = Last(frames[k]).pc /\ mask'[k] = Last(frames[k]).mask
        /\ frames'[k] = Front(frames[k])
    BY <1>1, <2>1
  <2> QED BY <1>3, <2>2, <2>3, <2>4
<1>16. ASSUME NEW k \in Kthreads, TimerExpire(k) \/ TakeNotice(k) PROVE StackInv'
  <2>1. UNCHANGED env
    BY <1>16, SignalStep
  <2>2. CASE UNCHANGED <<pc, mask, frames>>
    BY <1>4, <1>16, <2>1, <2>2
  <2>3. ASSUME pc[k] \in Interruptible,
               pc' = [pc EXCEPT ![k] = "handler"],
               NEW s \in Signals \ mask[k], NEW also \in SUBSET Signals,
               mask' = [mask EXCEPT ![k] = @ \cup {s} \cup also],
               frames' = [frames EXCEPT ![k] =
                            Append(@, [pc |-> pc[k], mask |-> mask[k]])]
        PROVE  StackInv'
    <3> DEFINE f == [pc |-> pc[k], mask |-> mask[k]]
               t == frames[k]
    <3>1. f \in Frames /\ t \in Seq(Frames) /\ f.pc = pc[k] /\ f.mask = mask[k]
      BY <1>1, <2>3 DEF Frames
    <3>2. Shape(t) /\ Fits(pc[k], mask[k], t)
      BY DEF StackInv
    <3>3. /\ \A j \in Kthreads \ {k} :
               pc'[j] = pc[j] /\ mask'[j] = mask[j] /\ frames'[j] = frames[j]
          /\ pc'[k] = "handler" /\ mask'[k] = mask[k] \cup {s} \cup also
          /\ frames'[k] = Append(t, f)
      BY <1>1, <2>3
    <3> HIDE DEF f, t
    <3>4. mask[k] # Signals
      BY <2>3
    <3>5. /\ t = <<>> => f.pc \notin {"handler", "return"}
          /\ t # <<>> => /\ f.pc \in {"handler"} \cup Landing
                         /\ Last(t).pc = "handler" => f.pc \in Landing
          /\ f.pc = "handler" => f.mask # {}
          /\ f.pc \in {"user", "jump"} => "VTALRM" \notin f.mask
      BY <2>3, <3>1, <3>2, <3>4 DEF Fits, Interruptible, Landing, InCreate
    <3>6. Shape(Append(t, f)) /\ Append(t, f) # <<>> /\ Last(Append(t, f)) = f
      BY <3>1, <3>2, <3>5, PushShape
    <3>7. /\ mask'[k] # {}
          /\ pc[k] = "handler" => mask'[k] = Signals
      <4>1. mask[k] \in SUBSET Signals /\ mask'[k] \subseteq Signals /\ s \in mask'[k]
        BY <1>1, <2>3, <3>3
      <4>2. pc[k] = "handler" => \E r \in Signals : r \in mask[k]
        BY <3>1, <3>5, <4>1
      <4> QED BY <2>3, <3>3, <4>1, <4>2 DEF Signals
    <3>8. Fits(pc'[k], mask'[k], frames'[k])
      BY <3>1, <3>3, <3>6, <3>7 DEF Fits, InCreate
    <3> QED BY <1>3, <2>1, <3>3, <3>6, <3>8 DEF StackInv
  <2>4. \/ UNCHANGED <<pc, mask, frames>>
        \/ /\ pc[k] \in Interruptible
           /\ pc' = [pc EXCEPT ![k] = "handler"]
           /\ \E s \in Signals \ mask[k], also \in SUBSET Signals :
                mask' = [mask EXCEPT ![k] = @ \cup {s} \cup also]
           /\ frames' = [frames EXCEPT ![k] =
                           Append(@, [pc |-> pc[k], mask |-> mask[k]])]
    BY <1>16, SignalStep
  <2> QED BY <2>2, <2>3, <2>4
<1>17. CASE UNCHANGED vars
  BY <1>17 DEF vars, threadVars, signalVars, StackInv, Shape, NestsInTurn, Fits, Last
<1> QED
  BY <1>6, <1>7, <1>8, <1>9, <1>10, <1>11, <1>12, <1>13, <1>14, <1>15, <1>16,
     <1>17
  DEF Next, Run, Schedule

(* What a step does to the live uthreads and to the count: nothing, or one *)
(* more of each, on the part of one that is alive, or one fewer of each.   *)
LiveStep ==
  \/ LiveSet' = LiveSet /\ curUthreads' = curUthreads
  \/ \E u \in Threads : /\ u \notin LiveSet /\ LiveSet # {}
                        /\ LiveSet' = LiveSet \cup {u}
                        /\ curUthreads' = curUthreads + 1
  \/ \E u \in LiveSet : /\ LiveSet' = LiveSet \ {u}
                        /\ curUthreads' = curUthreads - 1

(* A step that only says what its current uthread is doing moves nobody.   *)
LEMMA PlaceState ==
  ASSUME Typed, PlaceInv, NEW k \in Kthreads, cur[k] # Nil,
         NEW s \in States \ {"NONE"},
         ustate' = [ustate EXCEPT ![cur[k]] = s],
         UNCHANGED <<cur, obj, runq, curUthreads>>
  PROVE  PlaceInv' /\ LiveStep
<1>1. \A u : Placed(u)' = Placed(u)
  BY DEF Placed
<1>2. cur[k] \in Threads /\ Placed(cur[k])
  BY DEF Typed, Placed
<1>3. \A u \in Threads : u # cur[k] => ustate'[u] = ustate[u]
  BY DEF Typed
<1>4. ustate'[cur[k]] = s
  BY <1>2 DEF Typed
<1>5. PlaceInv'
  BY <1>1, <1>2, <1>3, <1>4 DEF PlaceInv, States
<1>6. LiveSet' = LiveSet
  BY <1>1 DEF LiveSet
<1> QED BY <1>5, <1>6 DEF LiveStep

(* A step that touches no place, no state and no pc the invariant reads    *)
(* keeps it, and moves nobody.                                             *)
LEMMA PlaceSame ==
  ASSUME PlaceInv, UNCHANGED <<cur, obj, runq, ustate, curUthreads>>
  PROVE  PlaceInv' /\ LiveStep
  BY DEF PlaceInv, Placed, LiveSet, LiveStep

(* Every step keeps PlaceInv, and makes at most one uthread live or not    *)
(* live, counting it: this is where uthread_create, add_to_runqueue,       *)
(* sched_find_best_uthread and uthread_schedule hand a uthread on.         *)
LEMMA PlaceNext ==
  ASSUME Typed, PcInv, PlaceInv, [Next]_vars PROVE PlaceInv' /\ LiveStep
<1> DEFINE G == PlaceInv' /\ LiveStep
<1>1. ASSUME NEW k \in Kthreads, NEW u \in Uthreads, NEW j \in Kthreads,
             Create(k, u, j)
      PROVE G
  <2>0. /\ pc[k] = "user" /\ cur[k] \in Creators /\ ustate[u] = "NONE"
        /\ UNCHANGED <<cur, runq>>
    BY <1>1 DEF Create
  <2>1. CASE UNCHANGED <<ustate, obj, curUthreads>>
    BY <2>0, <2>1, PlaceSame
  <2>2. CASE /\ ustate' = [ustate EXCEPT ![u] = "INIT"]
             /\ curUthreads' = curUthreads + 1
             /\ obj' = [obj EXCEPT ![k] = u]
    <3>1. /\ pc[k] = "user" /\ cur[k] \in Creators /\ ustate[u] = "NONE"
          /\ ustate' = [ustate EXCEPT ![u] = "INIT"]
          /\ curUthreads' = curUthreads + 1
          /\ obj' = [obj EXCEPT ![k] = u]
          /\ UNCHANGED <<cur, runq>>
      BY <2>0, <2>2
    <3>2. u \in Threads /\ u # Nil /\ ~Placed(u)
      BY <3>1, SchedAssumption DEF Threads, PlaceInv
    <3>3. obj[k] = Nil
      BY <3>1 DEF PcInv, Carrying
    <3>4. \A v \in Threads : Placed(v)' <=> (Placed(v) \/ v = u)
      BY <3>1, <3>2, <3>3, SchedAssumption DEF Placed, Typed
    <3>5. PlaceInv'
      <4>1. \A i \in Kthreads : u \notin runq[i] /\ u # cur[i] /\ u # obj[i]
        BY <3>2 DEF Placed
      <4>2. \A v \in Threads : /\ ustate'[v] = "NONE" => ~Placed(v)'
                               /\ ustate'[v] \notin {"NONE", "DONE"} => Placed(v)'
        BY <3>1, <3>2, <3>4 DEF PlaceInv, Typed
      <4>3. obj'[k] = u /\ \A i \in Kthreads : i # k => obj'[i] = obj[i]
        BY <3>1 DEF Typed
      <4> QED BY <3>1, <4>1, <4>2, <4>3 DEF PlaceInv
    <3>6. LiveSet' = LiveSet \cup {u} /\ u \notin LiveSet
      BY <3>2, <3>4 DEF LiveSet
    <3>7. cur[k] \in LiveSet
      BY <3>1, SchedAssumption DEF LiveSet, Placed
    <3> QED BY <3>1, <3>2, <3>5, <3>6, <3>7 DEF LiveStep
  <2> QED BY <1>1, <2>1, <2>2 DEF Create
<1>2. ASSUME NEW k \in Kthreads, AddNew(k) \/ AddPreempted(k) PROVE G
  <2>1. /\ obj[k] # Nil
        /\ runq' = [runq EXCEPT ![tgt[k]] = @ \cup {obj[k]}]
        /\ obj' = [obj EXCEPT ![k] = Nil]
        /\ UNCHANGED <<cur, ustate, curUthreads>>
    BY <1>2 DEF AddNew, AddPreempted, Insert, PcInv, Carrying, threadVars, sharedVars
  <2>2. obj[k] \in Threads /\ tgt[k] \in Kthreads
    BY <2>1 DEF Typed
  <2>3. \A i \in Kthreads : runq'[i] = IF i = tgt[k] THEN runq[i] \cup {obj[k]} ELSE runq[i]
    BY <2>1 DEF Typed
  <2>4. \A i \in Kthreads : obj'[i] = IF i = k THEN Nil ELSE obj[i]
    BY <2>1 DEF Typed
  <2>5. \A v \in Threads : Placed(v)' <=> Placed(v)
    <3> SUFFICES ASSUME NEW v \in Threads PROVE Placed(v)' <=> Placed(v)
      OBVIOUS
    <3>1. CASE v = obj[k]
      <4>1. v \in runq'[tgt[k]]
        BY <2>2, <2>3, <3>1
      <4> QED BY <2>2, <3>1, <4>1 DEF Placed
    <3>2. CASE v # obj[k]
      <4>1. v # Nil
        BY SchedAssumption
      <4>2. \A i \in Kthreads : /\ v \in runq'[i] <=> v \in runq[i]
                                /\ v = obj'[i] <=> v = obj[i]
        BY <2>3, <2>4, <3>2, <4>1
      <4> QED BY <2>1, <4>2 DEF Placed
    <3> QED BY <3>1, <3>2
  <2>6. PlaceInv'
    <3>1. \A i \in Kthreads : Nil \notin runq[i] /\ Nil \notin runq'[i]
      BY <2>1, <2>2, <2>3, SchedAssumption DEF Typed
    <3>2. \A i \in Kthreads : obj[k] \notin runq[i] /\ obj[k] # cur[i]
      BY <2>1 DEF PlaceInv
    <3>3. \A i \in Kthreads : i # k => obj[i] # obj[k]
      BY <2>1 DEF PlaceInv
    <3> QED BY <2>1, <2>3, <2>4, <2>5, <3>1, <3>2, <3>3 DEF PlaceInv
  <2>7. LiveSet' = LiveSet
    BY <2>5 DEF LiveSet
  <2> QED BY <2>1, <2>6, <2>7 DEF LiveStep
<1>3. ASSUME NEW k \in Kthreads, Yield(k) PROVE G
  <2>1. cur[k] # Nil
    BY <1>3 DEF Yield, PcInv, Unoccupied
  <2>2. CASE ustate[cur[k]] # "RUNNING"
    BY <1>3, <2>2, PlaceSame DEF Yield, queueVars, sharedVars
  <2>3. CASE ustate[cur[k]] = "RUNNING"
    BY <1>3, <2>1, <2>3, PlaceState DEF Yield, queueVars, sharedVars, States
  <2> QED BY <2>2, <2>3
<1>4. ASSUME NEW k \in Kthreads, Finish(k) PROVE G
  <2>1. cur[k] # Nil
    BY <1>4 DEF Finish, PcInv, Unoccupied
  <2> QED BY <1>4, <2>1, PlaceState DEF Finish, queueVars, sharedVars, States
<1>5. ASSUME NEW k \in Kthreads, MainExit(k) PROVE G
  <2>1. cur[k] = Master /\ Master # Nil
    BY <1>5, SchedAssumption DEF MainExit, Threads
  <2> QED BY <1>5, <2>1, PlaceState DEF MainExit, queueVars, States
<1>6. ASSUME NEW k \in Kthreads, PutDone(k) PROVE G
  <2>1. /\ pc[k] = "put" /\ ustate[cur[k]] = "DONE"
        /\ cur' = [cur EXCEPT ![k] = Nil]
        /\ curUthreads' = curUthreads - 1
        /\ UNCHANGED <<ustate, runq, obj>>
    BY <1>6 DEF PutDone, IsDone, Reaped, queueVars
  <2>2. cur[k] # Nil /\ cur[k] \in Threads
    <3>1. cur[k] # Nil
      BY <2>1 DEF PcInv, Unoccupied
    <3> QED BY <3>1 DEF Typed
  <2>3. \A i \in Kthreads : cur'[i] = IF i = k THEN Nil ELSE cur[i]
    BY <2>1 DEF Typed
  <2>4. \A v \in Threads : Placed(v)' <=> (Placed(v) /\ v # cur[k])
    <3>1. \A i \in Kthreads : /\ cur[k] \notin runq[i] /\ cur[k] # obj[i]
                              /\ i # k => cur[i] # cur[k]
      BY <2>2 DEF PlaceInv
    <3> QED BY <2>1, <2>2, <2>3, <3>1, SchedAssumption DEF Placed
  <2>5. PlaceInv'
    <3>1. \A i \in Kthreads : Nil \notin runq[i]
      BY SchedAssumption DEF Typed
    <3> QED BY <2>1, <2>3, <2>4, <3>1 DEF PlaceInv
  <2>6. cur[k] \in LiveSet /\ LiveSet' = LiveSet \ {cur[k]}
    BY <2>2, <2>4 DEF LiveSet, Placed
  <2> QED BY <2>1, <2>5, <2>6 DEF LiveStep
<1>7. ASSUME NEW k \in Kthreads, PutBack(k) PROVE G
  <2>1. /\ pc[k] = "put" /\ ustate[cur[k]] # "DONE"
        /\ cur' = [cur EXCEPT ![k] = Nil]
        /\ ustate' = [ustate EXCEPT ![cur[k]] = "RUNNABLE"]
        /\ obj' = [obj EXCEPT ![k] = cur[k]]
        /\ UNCHANGED <<runq, curUthreads>>
    BY <1>7 DEF PutBack, IsDone, UObj, sharedVars
  <2>2. cur[k] # Nil /\ obj[k] = Nil /\ cur[k] \in Threads
    <3>1. cur[k] # Nil /\ obj[k] = Nil
      BY <2>1 DEF PcInv, Unoccupied, Carrying
    <3> QED BY <3>1 DEF Typed
  <2>3. \A i \in Kthreads : /\ cur'[i] = IF i = k THEN Nil ELSE cur[i]
                            /\ obj'[i] = IF i = k THEN cur[k] ELSE obj[i]
    BY <2>1 DEF Typed
  <2>4. \A v \in Threads : Placed(v)' <=> Placed(v)
    BY <2>1, <2>2, <2>3, SchedAssumption DEF Placed
  <2>5. \A v \in Threads : ustate'[v] = IF v = cur[k] THEN "RUNNABLE" ELSE ustate[v]
    BY <2>1 DEF Typed
  <2>6. PlaceInv'
    <3>1. \A i \in Kthreads : Nil \notin runq[i]
      BY SchedAssumption DEF Typed
    <3>2. Placed(cur[k])
      BY DEF Placed
    <3>3. \A i \in Kthreads : /\ cur[k] \notin runq[i] /\ cur[k] # obj[i]
                              /\ i # k => cur[i] # cur[k]
      BY <2>2 DEF PlaceInv
    <3>4. \A v \in Threads : /\ ustate'[v] = "NONE" => ~Placed(v)'
                             /\ ustate'[v] \notin {"NONE", "DONE"} => Placed(v)'
      BY <2>2, <2>4, <2>5, <3>2 DEF PlaceInv
    <3> QED BY <2>1, <2>2, <2>3, <3>1, <3>3, <3>4 DEF PlaceInv
  <2>7. LiveSet' = LiveSet
    BY <2>4 DEF LiveSet
  <2> QED BY <2>1, <2>6, <2>7 DEF LiveStep
<1>8. ASSUME NEW k \in Kthreads, NEW u \in Threads, Pick(k, u) PROVE G
  <2>1. /\ pc[k] = "pickcs" /\ u \in runq[k] /\ cur[k] = Nil /\ u # Nil
        /\ runq' = [runq EXCEPT ![k] = @ \ {u}]
        /\ cur' = [cur EXCEPT ![k] = u]
        /\ UNCHANGED <<ustate, obj, curUthreads>>
    BY <1>8, SchedAssumption DEF Pick, Removed, sharedVars, PcInv, Unoccupied
  <2>2. \A i \in Kthreads : /\ cur'[i] = IF i = k THEN u ELSE cur[i]
                            /\ runq'[i] = IF i = k THEN runq[i] \ {u} ELSE runq[i]
    BY <2>1 DEF Typed
  <2>3. \A v \in Threads : Placed(v)' <=> Placed(v)
    <3> SUFFICES ASSUME NEW v \in Threads PROVE Placed(v)' <=> Placed(v)
      OBVIOUS
    <3>1. CASE v = u
      BY <2>1, <2>2, <3>1 DEF Placed
    <3>2. CASE v # u
      <4>1. v # Nil
        BY SchedAssumption
      <4>2. \A i \in Kthreads : /\ v \in runq'[i] <=> v \in runq[i]
                                /\ v = cur'[i] <=> v = cur[i]
        BY <2>1, <2>2, <3>2, <4>1
      <4> QED BY <2>1, <4>2 DEF Placed
    <3> QED BY <3>1, <3>2
  <2>4. PlaceInv'
    <3>1. \A i \in Kthreads : /\ Nil \notin runq[i]
                              /\ u # cur[i] /\ u # obj[i]
                              /\ i # k => u \notin runq[i]
      BY <2>1, SchedAssumption DEF PlaceInv, Typed
    <3> QED BY <2>1, <2>2, <2>3, <3>1 DEF PlaceInv
  <2>5. LiveSet' = LiveSet
    BY <2>3 DEF LiveSet
  <2> QED BY <2>1, <2>4, <2>5 DEF LiveStep
<1>9. ASSUME NEW k \in Kthreads, Dispatch(k) PROVE G
  <2>1. cur[k] # Nil
    BY <1>9 DEF Dispatch, PcInv, Unoccupied
  <2> QED BY <1>9, <2>1, PlaceState DEF Dispatch, queueVars, sharedVars, States
<1>10. ASSUME NEW k \in Kthreads,
              \/ AddLock(k) \/ Notify(k) \/ YieldTimer(k) \/ YieldSchedule(k)
              \/ PickLock(k) \/ PickNothing(k) \/ QuitOrIdle(k) \/ IdleLoop(k)
              \/ LastMile(k) \/ Jump(k) \/ HandlerSchedule(k)
              \/ TimerExpire(k) \/ TakeNotice(k) \/ Save(k) \/ Return(k)
       PROVE G
  <2>1. UNCHANGED <<cur, obj, runq, ustate, curUthreads>>
    BY <1>10
    DEF AddLock, Notify, YieldTimer, YieldSchedule, PickLock, PickNothing,
        QuitOrIdle, IdleLoop, LastMile, Jump, HandlerSchedule, TimerExpire,
        TakeNotice, Save, Return, threadVars, queueVars, sharedVars
  <2> QED BY <2>1, PlaceSame
<1>11. CASE UNCHANGED vars
  BY <1>11, PlaceSame DEF vars, threadVars, queueVars, sharedVars
<1> QED
  BY <1>1, <1>2, <1>3, <1>4, <1>5, <1>6, <1>7, <1>8, <1>9, <1>10, <1>11
     DEF Next, Run, Schedule


(* The uthreads can be counted.                                            *)
LEMMA ThreadsFinite == IsFiniteSet(Threads)
  BY SchedAssumption, FS_AddElement DEF Threads

(* kthread_cur_uthreads follows the number of live uthreads.               *)
LEMMA CountNext == ASSUME CountInv, LiveStep PROVE CountInv'
<1>1. IsFiniteSet(LiveSet)
  BY ThreadsFinite, FS_Subset DEF LiveSet
<1>2. CASE LiveSet' = LiveSet /\ curUthreads' = curUthreads
  BY <1>2 DEF CountInv
<1>3. ASSUME NEW u \in Threads, u \notin LiveSet, LiveSet' = LiveSet \cup {u},
             curUthreads' = curUthreads + 1
      PROVE CountInv'
  BY <1>1, <1>3, FS_AddElement DEF CountInv
<1>4. ASSUME NEW u \in LiveSet, LiveSet' = LiveSet \ {u},
             curUthreads' = curUthreads - 1
      PROVE CountInv'
  BY <1>1, <1>4, FS_RemoveElement DEF CountInv
<1> QED BY <1>2, <1>3, <1>4 DEF LiveStep

(* kthread_cur_uthreads = 0 says that no uthread is live.                  *)
LEMMA CountZero == ASSUME CountInv PROVE curUthreads = 0 <=> LiveSet = {}
<1>1. IsFiniteSet(LiveSet)
  BY ThreadsFinite, FS_Subset DEF LiveSet
<1> QED BY <1>1, FS_EmptySet DEF CountInv

(* gtthread_app_exit is left only through the wait for the count. *)
Leaves == pc'[MainK] = "ended" =>
  pc[MainK] = "ended" \/ (curUthreads = 0 /\ curUthreads' = 0)

(* No other action takes main()'s kthread to its end.                      *)
LEMMA ExitStep ==
  ASSUME Typed, PcInv, StackInv, [Next]_vars PROVE Leaves
<1> USE DEF Leaves, Goto
<1>1. ASSUME NEW k \in Kthreads, NEW u \in Uthreads, NEW j \in Kthreads,
             Create(k, u, j)
      PROVE Leaves
  <2>1. pc' = pc \/ \E l \in {"exited", "segv", "enq"} : pc' = [pc EXCEPT ![k] = l]
    BY <1>1 DEF Create
  <2> QED BY <2>1, SchedAssumption DEF Typed
<1>2. ASSUME NEW k \in Kthreads, AddLock(k)
      PROVE Leaves
  BY <1>2 DEF AddLock, threadVars, signalVars, sharedVars
<1>3. ASSUME NEW k \in Kthreads, AddNew(k)
      PROVE Leaves
  BY <1>3 DEF AddNew, Insert, Unlock, threadVars, signalVars, sharedVars
<1>4. ASSUME NEW k \in Kthreads, AddPreempted(k)
      PROVE Leaves
  BY <1>4 DEF AddPreempted, Insert, Unlock, threadVars, signalVars, sharedVars
<1>5. ASSUME NEW k \in Kthreads, Notify(k)
      PROVE Leaves
  BY <1>5 DEF Notify, threadVars, queueVars, sharedVars
<1>6. ASSUME NEW k \in Kthreads, Yield(k)
      PROVE Leaves
  <2>1. \E l \in {"aborted", "yield"} : pc' = [pc EXCEPT ![k] = l]
    BY <1>6 DEF Yield
  <2> QED BY <2>1 DEF Typed
<1>7. ASSUME NEW k \in Kthreads, YieldTimer(k)
      PROVE Leaves
  BY <1>7 DEF YieldTimer, threadVars, queueVars, sharedVars
<1>8. ASSUME NEW k \in Kthreads, YieldSchedule(k)
      PROVE Leaves
  BY <1>8 DEF YieldSchedule, DoNotDisturb, threadVars, queueVars, sharedVars
<1>9. ASSUME NEW k \in Kthreads, Finish(k)
      PROVE Leaves
  BY <1>9 DEF Finish, Quiet, DoNotDisturb, queueVars, sharedVars
<1>10. ASSUME NEW k \in Kthreads, MainExit(k)
      PROVE Leaves
  BY <1>10 DEF MainExit, Quiet, DoNotDisturb, queueVars
<1>11. ASSUME NEW k \in Kthreads, PutDone(k)
      PROVE Leaves
  BY <1>11 DEF PutDone, IsDone, Reaped, queueVars, signalVars
<1>12. ASSUME NEW k \in Kthreads, PutBack(k)
      PROVE Leaves
  BY <1>12 DEF PutBack, IsDone, UObj, Home, signalVars, sharedVars
<1>13. ASSUME NEW k \in Kthreads, PickLock(k)
      PROVE Leaves
  BY <1>13 DEF PickLock, threadVars, signalVars, sharedVars
<1>14. ASSUME NEW k \in Kthreads, NEW u \in Threads, Pick(k, u)
      PROVE Leaves
  BY <1>14 DEF Pick, Unlock, Removed, signalVars, sharedVars
<1>15. ASSUME NEW k \in Kthreads, PickNothing(k)
      PROVE Leaves
  BY <1>15 DEF PickNothing, Unlock, NoBest, threadVars, signalVars, sharedVars
<1>16. ASSUME NEW k \in Kthreads, QuitOrIdle(k)
      PROVE Leaves
  BY <1>16 DEF QuitOrIdle, queueVars, signalVars, sharedVars
<1>17. ASSUME NEW k \in Kthreads, IdleLoop(k)
      PROVE Leaves
  BY <1>17 DEF IdleLoop, Quiet, DoNotDisturb, threadVars, queueVars
<1>18. ASSUME NEW k \in Kthreads, LastMile(k)
      PROVE Leaves
  BY <1>18 DEF LastMile, AllReaped, threadVars, queueVars, signalVars,
      sharedVars
<1>19. ASSUME NEW k \in Kthreads, Dispatch(k)
      PROVE Leaves
  BY <1>19 DEF Dispatch, Unblocked, queueVars, sharedVars
<1>20. ASSUME NEW k \in Kthreads, Jump(k)
      PROVE Leaves
  <2>1. \E l \in {"lost", "user", "return"} : pc' = [pc EXCEPT ![k] = l]
    BY <1>20, JumpStep
  <2> QED BY <2>1 DEF Typed
<1>21. ASSUME NEW k \in Kthreads, HandlerSchedule(k)
      PROVE Leaves
  BY <1>21 DEF HandlerSchedule, Quiet, DoNotDisturb, threadVars, queueVars,
      sharedVars
<1>22. ASSUME NEW k \in Kthreads, TimerExpire(k) \/ TakeNotice(k)
      PROVE Leaves
  <2>1. pc' = pc \/ pc' = [pc EXCEPT ![k] = "handler"]
    BY <1>22, SignalStep
  <2> QED BY <2>1, SchedAssumption DEF Typed
<1>23. ASSUME NEW k \in Kthreads, Return(k)
      PROVE Leaves
  <2>1. \E l \in Interruptible : pc' = [pc EXCEPT ![k] = l]
    BY <1>23, ReturnStep
  <2> QED BY <2>1 DEF Interruptible, Landing, Typed
<1>25. ASSUME NEW k \in Kthreads, Save(k)
      PROVE Leaves
  BY <1>25 DEF Save, signalVars, sharedVars
<1>24. CASE UNCHANGED vars
  BY <1>24 DEF vars, threadVars, queueVars, signalVars, sharedVars
<1> QED
  BY <1>1, <1>2, <1>3, <1>4, <1>5, <1>6, <1>7, <1>8, <1>9, <1>10, <1>11,
     <1>12, <1>13, <1>14, <1>15, <1>16, <1>17, <1>18, <1>19, <1>20, <1>21,
     <1>22, <1>23, <1>24, <1>25
     DEF Next, Run, Schedule

(* Once gtthread_app_exit has returned the count stays 0: whoever could    *)
(* create a uthread would itself be live.                                  *)
LEMMA ExitNext ==
  ASSUME CountInv, CountInv', ExitInv, LiveStep, Leaves PROVE ExitInv'
<1> SUFFICES ASSUME pc'[MainK] = "ended", pc[MainK] = "ended"
             PROVE  curUthreads' = 0
  BY DEF ExitInv, Leaves
<1>1. curUthreads = 0 /\ LiveSet = {}
  BY CountZero DEF ExitInv
<1> QED BY <1>1 DEF LiveStep

-----------------------------------------------------------------------------
(* The state gtthread_app_init leaves satisfies the invariant.             *)
LEMMA InitIInv == Init => IInv
<1> SUFFICES ASSUME Init PROVE IInv
  OBVIOUS
<1>1. Typed
  <2>1. Master \in Threads
    BY DEF Threads
  <2>2. <<>> \in Seq(Frames)
    OBVIOUS
  <2>3. pc \in [Kthreads -> PCs]
    BY DEF Init, PCs, Interruptible
  <2>4. ustate \in [Threads -> States]
    BY DEF Init, States
  <2>5. env \in [Threads -> Seq(Frames) \cup {Nil}]
    BY DEF Init
  <2>6. frames \in [Kthreads -> Seq(Frames)]
    BY <2>2 DEF Init
  <2>7. mask \in [Kthreads -> SUBSET Signals] /\ curUthreads \in Int
    BY DEF Init
  <2> QED
    BY <2>1, <2>3, <2>4, <2>5, <2>6, <2>7, SchedAssumption DEF Init, Typed
<1>2. PcInv
  BY SchedAssumption DEF Init, PcInv, Unoccupied, Carrying, Interruptible, Threads
<1>3. LockInv
  BY SchedAssumption DEF Init, LockInv, InCS
<1>4. \A u \in Threads : Placed(u) <=> u = Master
  BY SchedAssumption DEF Init, Placed
<1>5. PlaceInv
  BY <1>4, SchedAssumption DEF Init, PlaceInv
<1>6. LiveSet = {Master}
  BY <1>4 DEF LiveSet, Threads
<1>7. CountInv
  BY <1>6, FS_Singleton DEF CountInv, Init
<1>8. ExitInv
  BY SchedAssumption DEF Init, ExitInv
<1>9. StackInv
  <2>1. <<>> \in Seq(Frames) /\ Len(<<>>) = 0
    OBVIOUS
  <2>2. Shape(<<>>)
    BY <2>1 DEF Shape, NestsInTurn
  <2>3. \A l \in {"user", "idle"} : Fits(l, {}, <<>>)
    BY DEF Fits
  <2> QED BY <2>2, <2>3 DEF Init, StackInv
<1> QED BY <1>1, <1>2, <1>3, <1>5, <1>7, <1>8, <1>9 DEF IInv

(* The invariant is inductive.                                             *)
LEMMA NextIInv == IInv /\ [Next]_vars => IInv'
<1> SUFFICES ASSUME IInv, [Next]_vars PROVE IInv'
  OBVIOUS
<1>1. Typed /\ PcInv /\ StackInv /\ LockInv /\ PlaceInv /\ CountInv /\ ExitInv
  BY DEF IInv
<1>2. Typed' /\ PcInv' /\ StackInv' /\ LockInv'
  BY <1>1, TypedNext, PcNext, StackNext, LockNext
<1>3. PlaceInv' /\ LiveStep
  BY <1>1, PlaceNext
<1>4. CountInv'
  BY <1>1, <1>3, CountNext
<1>5. ExitInv'
  BY <1>1, <1>3, <1>4, ExitStep, ExitNext
<1> QED BY <1>2, <1>3, <1>4, <1>5 DEF IInv

(* The inductive invariant holds throughout, for any kthreads, uthreads,   *)
(* creators and yielders: every theorem below follows from it.             *)
THEOREM SchedInvariant == Spec => []IInv
  BY InitIInv, NextIInv, PTL DEF Spec

(* The count is a natural number no larger than the uthreads there are.    *)
LEMMA CountBound ==
  ASSUME CountInv PROVE curUthreads \in 0..Cardinality(Threads)
<1>1. IsFiniteSet(LiveSet) /\ Cardinality(LiveSet) <= Cardinality(Threads)
  BY ThreadsFinite, FS_Subset DEF LiveSet
<1> QED BY <1>1, ThreadsFinite, FS_CardinalityType DEF CountInv

(* The variables keep their types, and kthread_cur_uthreads is never       *)
(* negative: no uthread is seen DONE twice.                                *)
THEOREM SchedTypeOK == Spec => []TypeOK
<1>1. IInv => TypeOK
  BY CountBound DEF IInv, TypeOK
<1> QED BY <1>1, SchedInvariant, PTL

(* The set of places of the property, in the invariant's words.            *)
LEMMA PlacesEmpty ==
  ASSUME NEW u \in Threads PROVE Places(u) = {} <=> ~Placed(u)
<1>1. ASSUME NEW k \in Kthreads, u \in runq[k] PROVE Places(u) # {}
  <2>1. <<"runq", k>> \in Places(u)
    BY <1>1 DEF Places
  <2> QED BY <2>1
<1>2. ASSUME NEW k \in Kthreads, u = cur[k] PROVE Places(u) # {}
  <2>1. <<"cur", k>> \in Places(u)
    BY <1>2 DEF Places
  <2> QED BY <2>1
<1>3. ASSUME NEW k \in Kthreads, u = obj[k] PROVE Places(u) # {}
  <2>1. <<"obj", k>> \in Places(u)
    BY <1>3 DEF Places
  <2> QED BY <2>1
<1>4. ~Placed(u) => Places(u) = {}
  BY DEF Places, Placed
<1> QED BY <1>1, <1>2, <1>3, <1>4 DEF Placed

(* No uthread is ever lost or duplicated between uthread_create, the run   *)
(* queues, cur_uthread and the scheduler that sees it DONE.                *)
THEOREM SchedLiveInOnePlace == Spec => []LiveInOnePlace
<1>1. IInv => LiveInOnePlace
  <2> SUFFICES ASSUME IInv, NEW u \in Threads
               PROVE  /\ \A p, q \in Places(u) : p = q
                      /\ ustate[u] = "NONE" => Places(u) = {}
                      /\ ustate[u] \notin {"NONE", "DONE"} => Places(u) # {}
    BY DEF LiveInOnePlace
  <2>1. u # Nil
    BY SchedAssumption
  <2>2. ASSUME NEW p \in Places(u), NEW q \in Places(u) PROVE p = q
    <3>1. /\ p \in {"runq", "cur", "obj"} \X Kthreads
          /\ q \in {"runq", "cur", "obj"} \X Kthreads
      BY DEF Places
    <3>2. p[1] = q[1] /\ p[2] = q[2]
      BY <2>1, <3>1 DEF Places, IInv, PlaceInv
    <3> QED BY <3>1, <3>2
  <2> QED BY <2>2, PlacesEmpty DEF IInv, PlaceInv
<1> QED BY <1>1, SchedInvariant, PTL

(* The live uthreads of the invariant are those that have a place.         *)
LEMMA LiveSetPlaces == LiveSet = {u \in Threads : Places(u) # {}}
  BY PlacesEmpty DEF LiveSet

(* kthread_cur_uthreads is the number of uthreads created and not yet seen *)
(* DONE by uthread_schedule.                                               *)
THEOREM SchedCountIsLive == Spec => []CountIsLive
<1>1. IInv => CountIsLive
  BY LiveSetPlaces DEF IInv, CountInv, CountIsLive
<1> QED BY <1>1, SchedInvariant, PTL

(* gtthread_app_exit returns only when every uthread ever created is DONE. *)
THEOREM SchedExitWaitsForAll == Spec => []ExitWaitsForAll
<1>1. IInv => ExitWaitsForAll
  <2> SUFFICES ASSUME IInv, pc[MainK] = "ended", NEW u \in Threads
               PROVE  Places(u) = {} /\ ustate[u] \in {"NONE", "DONE"}
    BY DEF ExitWaitsForAll
  <2>1. LiveSet = {}
    BY CountZero DEF IInv, ExitInv
  <2>2. ~Placed(u)
    BY <2>1 DEF LiveSet
  <2> QED BY <2>2, PlacesEmpty DEF IInv, PlaceInv
<1> QED BY <1>1, SchedInvariant, PTL

(* A kthread that holds a run-queue lock has do_not_disturb raised and is  *)
(* in the critical section of that queue: its own signal handler can never *)
(* spin on the lock it holds.                                              *)
THEOREM SchedLockHolderUndisturbed == Spec => []LockHolderUndisturbed
<1>1. IInv => LockHolderUndisturbed
  BY DEF IInv, LockInv, InCS, PcInv, Interruptible, Landing,
      LockHolderUndisturbed
<1> QED BY <1>1, SchedInvariant, PTL

-----------------------------------------------------------------------------
(***************************************************************************)
(* Further proofs about GtSched, from the invariant of GtSchedProofs.      *)
(*                                                                         *)
(* ReadyInv: what is queued, or on its way to a queue, has a state and a   *)
(* context that fit, but for one that its kthread is about to save, and    *)
(* nobody but a uthread about to be put away is DONE in a kthread's hands. *)
(* SliceInv: where uthread code runs, or is about to, the timer is set.    *)
(* HomeInv: main()'s uthread never leaves main()'s kthread.                *)
(***************************************************************************)
Resumable(u) == \/ ustate[u] = "INIT" /\ env[u] = Nil
                \/ ustate[u] = "RUNNABLE" /\ env[u] # Nil

ReadyInv ==
  /\ \A k \in Kthreads :
       /\ \A u \in runq[k] : Resumable(u) \/ (pc[k] = "save" /\ u = saving[k])
       /\ pc[k] = "save" =>
            saving[k] \in runq[k] /\ ustate[saving[k]] = "RUNNABLE"
       /\ pc[k] \in {"enq", "enqcs"} =>
            ustate[obj[k]] = "INIT" /\ env[obj[k]] = Nil
       /\ pc[k] \in {"requeue", "requeuecs"} => ustate[obj[k]] = "RUNNABLE"
       /\ pc[k] = "dispatch" => ustate[cur[k]] \in {"INIT", "RUNNABLE"}
       /\ cur[k] # Nil /\ ustate[cur[k]] = "DONE" => pc[k] = "put"
  /\ \A u \in Threads : ustate[u] = "NONE" => env[u] = Nil

SliceInv == \A k \in Kthreads :
  /\ pc[k] \in Landing => ~dnd[k] /\ armed[k]
  /\ pc[k] = "user" /\ cur[k] \notin Creators => ~dnd[k] /\ armed[k]
  /\ pc[k] \in InCreate => cur[k] \in Creators

MasterHome == \/ Master \in runq[MainK] \/ cur[MainK] = Master
              \/ obj[MainK] = Master /\ tgt[MainK] = MainK

HomeInv ==
  /\ \A k \in Kthreads : pc[k] \in {"requeue", "requeuecs"} => tgt[k] = k
  /\ \A k \in Kthreads \ {MainK} :
       masterThread[k] = Nil /\ pc[k] \notin {"enq", "enqcs"}
       /\ (pc[k] # "idle" => kenv[k])
  /\ ~kenv[MainK] => MasterHome /\ pc[MainK] # "idle"
  /\ ustate[Master] = "DONE" => kenv[MainK]
  /\ pc[MainK] = "empty" => kenv[MainK]
  /\ pc[MainK] \in {"empty", "lastmile", "ended"} => runq[MainK] = {}

CInv == IInv /\ ReadyInv /\ SliceInv /\ HomeInv

-----------------------------------------------------------------------------
(* Most steps move no uthread and touch no state or context.  That the one *)
(* about to be saved is on its own kthread's queue is HomeInv's business.  *)
LEMMA ReadyNext == IInv /\ HomeInv /\ ReadyInv /\ [Next]_vars => ReadyInv'
<1> SUFFICES ASSUME IInv, HomeInv, ReadyInv, [Next]_vars PROVE ReadyInv' OBVIOUS
<1>0. Typed /\ PcInv /\ StackInv /\ PlaceInv /\ LockInv
  BY DEF IInv
<1>60. ASSUME NEW k \in Kthreads, TimerExpire(k) \/ TakeNotice(k)
      PROVE  /\ UNCHANGED <<ustate, env, runq, obj, cur, saving>>
             /\ \/ pc' = pc
                \/ pc[k] \in Interruptible /\ pc' = [pc EXCEPT ![k] = "handler"]
  <2>1. UNCHANGED <<cur, ustate, env, dnd, queueVars, sharedVars>>
    BY <1>0, <1>60, SignalStep
  <2>2. \/ pc' = pc
        \/ pc[k] \in Interruptible /\ pc' = [pc EXCEPT ![k] = "handler"]
    BY <1>0, <1>60, SignalStep
  <2> QED BY <2>1, <2>2 DEF queueVars
<1> USE <1>0 DEF Typed, ReadyInv, Resumable, Goto
<1> DEFINE Kept == UNCHANGED <<ustate, env, runq, obj, cur, saving>>
<1>1. ASSUME NEW k \in Kthreads, Kept, NEW l, l # "save",
             pc' = pc \/ pc' = [pc EXCEPT ![k] = l],
             pc' = pc \/ pc[k] \notin {"put", "save"},
             l \in {"enq", "enqcs"} => pc[k] \in {"enq", "enqcs"},
             l \in {"requeue", "requeuecs"} => pc[k] \in {"requeue", "requeuecs"},
             l # "dispatch"
      PROVE  ReadyInv'
  BY <1>1
<1>2. ASSUME NEW k \in Kthreads, PickLock(k) \/ PickNothing(k) PROVE ReadyInv'
  BY <1>1, <1>2 DEF PickLock, PickNothing, threadVars
<1>3. ASSUME NEW k \in Kthreads, QuitOrIdle(k) PROVE ReadyInv'
  <2> DEFINE l == IF ~kenv[k] THEN "lost"
             ELSE IF ~appExit THEN "idle"
             ELSE IF k = MainK THEN "lastmile" ELSE "ended"
  <2>1. l \in {"lost", "idle", "lastmile", "ended"}
    OBVIOUS
  <2>2. pc' = [pc EXCEPT ![k] = l] /\ pc[k] = "empty" /\ Kept
    BY <1>3 DEF QuitOrIdle, threadVars, queueVars
  <2> HIDE DEF l
  <2> QED BY <1>1, <2>1, <2>2
<1>4. ASSUME NEW k \in Kthreads, IdleLoop(k) \/ LastMile(k) PROVE ReadyInv'
  BY <1>1, <1>4 DEF IdleLoop, LastMile, threadVars, queueVars
<1>5. ASSUME NEW k \in Kthreads,
             HandlerSchedule(k) \/ YieldTimer(k) \/ YieldSchedule(k) \/ Notify(k)
      PROVE  ReadyInv'
  BY <1>1, <1>5
  DEF HandlerSchedule, YieldTimer, YieldSchedule, Notify, threadVars, queueVars
<1>6. ASSUME NEW k \in Kthreads, TimerExpire(k) \/ TakeNotice(k) PROVE ReadyInv'
  <2>1. Kept
    BY <1>6, <1>60
  <2>2. pc[k] \in Interruptible => pc[k] \notin {"put", "save"}
    BY DEF Interruptible, Landing
  <2>3. CASE pc' = pc
    BY <1>1, <2>1, <2>3
  <2>4. CASE pc[k] \in Interruptible /\ pc' = [pc EXCEPT ![k] = "handler"]
    BY <1>1, <2>1, <2>2, <2>4
  <2> QED BY <1>6, <1>60, <2>3, <2>4
<1>7. ASSUME NEW k \in Kthreads, AddLock(k) PROVE ReadyInv'
  <2>1. Kept
    BY <1>7 DEF AddLock, threadVars
  <2>2. CASE pc[k] = "enq"
    BY <1>1, <1>7, <2>1, <2>2 DEF AddLock
  <2>3. CASE pc[k] = "requeue"
    BY <1>1, <1>7, <2>1, <2>3 DEF AddLock
  <2> QED BY <1>7, <2>2, <2>3 DEF AddLock
<1>8. ASSUME NEW k \in Kthreads, NEW u \in Uthreads, NEW j \in Kthreads,
             Create(k, u, j)
      PROVE  ReadyInv'
  <2>1. UNCHANGED <<env, runq, cur>> /\ pc[k] = "user" /\ ustate[u] = "NONE"
    BY <1>8 DEF Create
  <2>2. CASE UNCHANGED <<ustate, obj>>
    <3>1. Kept /\ (pc' = pc \/ \E l \in {"exited", "segv"} : pc' = [pc EXCEPT ![k] = l])
      <4>1. env[u] = Nil /\ obj[k] = Nil
        BY <2>1 DEF Threads, PcInv, Carrying
      <4>2. u # Nil
        BY SchedAssumption DEF Threads
      <4>3. obj' # [obj EXCEPT ![k] = u]
        BY <2>2, <4>1, <4>2
      <4> QED BY <1>8, <2>1, <2>2, <4>3 DEF Create
    <3> QED BY <1>1, <2>1, <3>1
  <2>3. CASE /\ ustate' = [ustate EXCEPT ![u] = "INIT"]
             /\ obj' = [obj EXCEPT ![k] = u]
             /\ pc' = [pc EXCEPT ![k] = "enq"]
    <3>1. /\ ustate' = [ustate EXCEPT ![u] = "INIT"]
          /\ obj' = [obj EXCEPT ![k] = u]
          /\ pc' = [pc EXCEPT ![k] = "enq"]
          /\ UNCHANGED saving
      BY <1>8, <2>3 DEF Create
    <3>2. u \in Threads /\ env[u] = Nil
      BY <2>1 DEF Threads
    <3>3. \A i \in Kthreads : u \notin runq[i] /\ u # cur[i] /\ u # obj[i]
      BY <2>1, <3>2 DEF PlaceInv, Placed
    <3>4. \A v \in Threads : v # u => ustate'[v] = ustate[v]
      BY <3>1
    <3>5. \A i \in Kthreads : cur[i] # Nil => ustate'[cur[i]] = ustate[cur[i]]
      BY <3>3, <3>4
    <3>6. \A i \in Kthreads : pc[i] \in {"enq", "enqcs", "requeue", "requeuecs"} =>
             obj[i] \in Threads /\ ustate'[obj[i]] = ustate[obj[i]]
      BY <3>3, <3>4 DEF PcInv, Carrying
    <3>7. \A i \in Kthreads : pc[i] = "dispatch" => cur[i] # Nil
      BY DEF PcInv, Unoccupied
    <3>8. ustate'[u] = "INIT"
      BY <3>1, <3>2
    <3>9. ASSUME NEW i \in Kthreads
          PROVE /\ \A v \in runq'[i] :
                      Resumable(v)' \/ (pc'[i] = "save" /\ v = saving'[i])
                /\ pc'[i] = "save" =>
                      /\ saving'[i] \in runq'[i]
                      /\ ustate'[saving'[i]] = "RUNNABLE"
                /\ pc'[i] \in {"enq", "enqcs"} =>
                      ustate'[obj'[i]] = "INIT" /\ env'[obj'[i]] = Nil
                /\ pc'[i] \in {"requeue", "requeuecs"} => ustate'[obj'[i]] = "RUNNABLE"
                /\ pc'[i] = "dispatch" => ustate'[cur'[i]] \in {"INIT", "RUNNABLE"}
                /\ cur'[i] # Nil /\ ustate'[cur'[i]] = "DONE" => pc'[i] = "put"
      <4>0. \A v \in runq[i] : v \in Threads /\ v # u
        BY <3>3
      <4>1. /\ \A v \in runq'[i] :
                  Resumable(v)' \/ (pc'[i] = "save" /\ v = saving'[i])
            /\ pc'[i] = "save" => /\ saving'[i] \in runq'[i]
                                  /\ ustate'[saving'[i]] = "RUNNABLE"
        BY <2>1, <3>1, <3>4, <4>0
      <4>2. CASE i = k
        BY <2>1, <3>1, <3>2, <3>5, <3>8, <4>1, <4>2
      <4>3. CASE i # k
        BY <2>1, <3>1, <3>5, <3>6, <3>7, <4>1, <4>3
      <4> QED BY <4>2, <4>3
    <3> QED BY <2>1, <3>4, <3>8, <3>9
  <2> QED BY <1>8, <2>2, <2>3 DEF Create
<1>9. ASSUME NEW k \in Kthreads, AddNew(k) PROVE ReadyInv'
  <2>1. /\ UNCHANGED <<ustate, env, cur, saving>> /\ pc[k] = "enqcs"
        /\ pc' = [pc EXCEPT ![k] = "notify"]
        /\ obj' = [obj EXCEPT ![k] = Nil]
        /\ runq' = [runq EXCEPT ![tgt[k]] = @ \cup {obj[k]}]
    BY <1>9 DEF AddNew, Insert, threadVars
  <2>2. Resumable(obj[k])
    BY <2>1
  <2>3. \A i \in Kthreads : \A v \in runq'[i] :
          Resumable(v) \/ (pc'[i] = "save" /\ v = saving[i])
    BY <2>1, <2>2
  <2>4. \A i \in Kthreads : runq[i] \subseteq runq'[i]
    BY <2>1
  <2> QED BY <2>1, <2>3, <2>4
<1>10. ASSUME NEW k \in Kthreads, AddPreempted(k) PROVE ReadyInv'
  <2>1. /\ UNCHANGED <<ustate, env, cur>> /\ pc[k] = "requeuecs"
        /\ pc' = [pc EXCEPT ![k] = "save"]
        /\ obj' = [obj EXCEPT ![k] = Nil]
        /\ saving' = [saving EXCEPT ![k] = obj[k]]
        /\ runq' = [runq EXCEPT ![tgt[k]] = @ \cup {obj[k]}]
    BY <1>10 DEF AddPreempted, Insert, threadVars
  <2>2. obj[k] \in Threads /\ ustate[obj[k]] = "RUNNABLE" /\ tgt[k] = k
    BY <2>1 DEF PcInv, Carrying, HomeInv
  <2>3. /\ runq'[k] = runq[k] \cup {obj[k]} /\ saving'[k] = obj[k]
        /\ pc'[k] = "save"
        /\ \A i \in Kthreads \ {k} :
             runq'[i] = runq[i] /\ saving'[i] = saving[i] /\ pc'[i] = pc[i]
    BY <2>1, <2>2
  <2>4. \A i \in Kthreads : \A v \in runq'[i] :
          Resumable(v)' \/ (pc'[i] = "save" /\ v = saving'[i])
    BY <2>1, <2>3
  <2>5. \A i \in Kthreads : pc'[i] = "save" =>
          saving'[i] \in runq'[i] /\ ustate'[saving'[i]] = "RUNNABLE"
    BY <2>1, <2>2, <2>3
  <2> QED BY <2>1, <2>2, <2>3, <2>4, <2>5
(* sigsetjmp: from here on anybody may resume it.                          *)
<1>23. ASSUME NEW k \in Kthreads, Save(k) PROVE ReadyInv'
  <2> DEFINE w == saving[k]
  <2>1. /\ UNCHANGED <<ustate, cur, runq, obj>> /\ pc[k] = "save"
        /\ pc' = [pc EXCEPT ![k] = "pick"]
        /\ saving' = [saving EXCEPT ![k] = Nil]
        /\ env' = [env EXCEPT ![w] = frames[k]]
    BY <1>23 DEF Save, Saved
  <2>2. w \in runq[k] /\ w \in Threads /\ w # Nil /\ ustate[w] = "RUNNABLE"
    BY <2>1, SchedAssumption
  <2> HIDE DEF w
  <2>3. frames[k] # Nil
    BY ContextAssumption
  <2>4. env'[w] # Nil /\ \A v \in Threads : v # w => env'[v] = env[v]
    BY <2>1, <2>2, <2>3
  <2>5. \A i \in Kthreads : obj[i] # w /\ cur[i] # w /\ (i # k => w \notin runq[i])
    BY <2>2 DEF PlaceInv
  <2>6. pc'[k] = "pick" /\ \A i \in Kthreads \ {k} :
          pc'[i] = pc[i] /\ saving'[i] = saving[i]
    BY <2>1
  <2>7. ASSUME NEW i \in Kthreads, NEW v \in runq'[i]
        PROVE  Resumable(v)' \/ (pc'[i] = "save" /\ v = saving'[i])
    <3>1. v \in Threads /\ v \in runq[i]
      BY <2>1, <2>7
    <3>2. CASE v = w
      BY <2>1, <2>2, <2>4, <3>2
    <3>3. CASE v # w
      <4>1. Resumable(v) \/ (pc[i] = "save" /\ v = saving[i])
        BY <3>1
      <4>2. i = k => Resumable(v)
        BY <3>3, <4>1 DEF w
      <4> QED BY <2>1, <2>4, <2>6, <3>1, <3>3, <4>1, <4>2
    <3> QED BY <3>2, <3>3
  <2>8. \A i \in Kthreads : pc'[i] \in {"enq", "enqcs"} =>
            ustate'[obj'[i]] = "INIT" /\ env'[obj'[i]] = Nil
    BY <2>1, <2>4, <2>5, <2>6 DEF PcInv, Carrying
  <2>9. \A v \in Threads : ustate'[v] = "NONE" => env'[v] = Nil
    BY <2>1, <2>2, <2>4
  <2> QED BY <2>1, <2>6, <2>7, <2>8, <2>9
(* The actions that change the state or context of the current uthread.    *)
<1>11. ASSUME NEW k \in Kthreads, cur[k] # Nil
       PROVE  /\ cur[k] \in Threads
              /\ \A i \in Kthreads :
                   /\ cur[k] \notin runq[i]
                   /\ obj[i] # cur[k]
                   /\ i # k => cur[i] # cur[k]
  BY <1>11 DEF PlaceInv
<1>13. ASSUME NEW k \in Kthreads, pc[k] \in Interruptible \cup {"put", "dispatch"}
       PROVE  cur[k] \in Threads /\ cur[k] # Nil
  <2>1. pc[k] # "lost" /\ pc[k] \notin Unoccupied
    BY <1>13 DEF Unoccupied, Interruptible, Landing
  <2> QED BY <2>1 DEF PcInv
<1>12. ASSUME NEW k \in Kthreads, cur[k] # Nil,
              UNCHANGED <<runq, obj, cur, saving>>,
              \A i \in Kthreads \ {k} : pc'[i] = pc[i],
              pc'[k] \notin InScheduler \cup InCreate \/ pc'[k] = "put",
              \A v \in Threads \ {cur[k]} : ustate'[v] = ustate[v] /\ env'[v] = env[v],
              ustate'[cur[k]] # "NONE",
              ustate'[cur[k]] = "DONE" => pc'[k] = "put"
       PROVE  ReadyInv'
  <2>1. \A i \in Kthreads :
          /\ \A v \in runq'[i] : Resumable(v)' \/ (pc'[i] = "save" /\ v = saving'[i])
          /\ pc'[i] = "save" =>
               saving'[i] \in runq'[i] /\ ustate'[saving'[i]] = "RUNNABLE"
    <3>1. \A i \in Kthreads : \A v \in runq[i] : v \in Threads \ {cur[k]}
      BY <1>11, <1>12
    <3>2. pc[k] # "save" /\ pc'[k] # "save"
      BY <1>12 DEF PcInv, Unoccupied, InScheduler
    <3> QED BY <1>12, <3>1, <3>2
  <2>2. \A i \in Kthreads : pc'[i] \in Carrying => i # k /\ pc'[i] = pc[i] /\ obj[i] \in Threads
    BY <1>12 DEF PcInv, Carrying, InScheduler, InCreate
  <2>3. \A i \in Kthreads : /\ pc'[i] \in {"enq", "enqcs"} =>
                                 ustate'[obj'[i]] = "INIT" /\ env'[obj'[i]] = Nil
                            /\ pc'[i] \in {"requeue", "requeuecs"} =>
                                 ustate'[obj'[i]] = "RUNNABLE"
    BY <1>11, <1>12, <2>2 DEF Carrying
  <2>4. ASSUME NEW i \in Kthreads, pc'[i] = "dispatch"
        PROVE  i # k /\ cur[i] \in Threads
    <3>1. i # k
      BY <1>12, <2>4 DEF InScheduler
    <3>2. pc[i] = "dispatch"
      BY <1>12, <2>4, <3>1
    <3> QED BY <1>13, <3>1, <3>2
  <2>5. \A i \in Kthreads : /\ pc'[i] = "dispatch" =>
                                 ustate'[cur'[i]] \in {"INIT", "RUNNABLE"}
                            /\ cur'[i] # Nil /\ ustate'[cur'[i]] = "DONE" =>
                                 pc'[i] = "put"
    BY <1>11, <1>12, <2>4
  <2>6. ASSUME NEW v \in Threads, ustate'[v] = "NONE" PROVE env'[v] = Nil
    <3>1. v \in Threads \ {cur[k]}
      BY <1>12, <2>6
    <3>2. ustate[v] = "NONE" /\ env'[v] = env[v]
      BY <1>12, <2>6, <3>1
    <3> QED BY <3>2
  <2> QED BY <2>1, <2>3, <2>5, <2>6
<1>15. ASSUME NEW k \in Kthreads, Yield(k) PROVE ReadyInv'
  <2>1. pc[k] = "user" /\ UNCHANGED <<env, runq, obj, cur, saving>>
    BY <1>15 DEF Yield, queueVars
  <2>2. CASE ustate[cur[k]] # "RUNNING"
    <3>1. UNCHANGED ustate /\ pc' = [pc EXCEPT ![k] = "aborted"]
      BY <1>15, <2>2 DEF Yield
    <3> QED BY <1>1, <2>1, <3>1
  <2>3. CASE ustate[cur[k]] = "RUNNING"
    <3>1. /\ ustate' = [ustate EXCEPT ![cur[k]] = "YIELD"]
          /\ pc' = [pc EXCEPT ![k] = "yield"]
      BY <1>15, <2>3 DEF Yield
    <3>2. cur[k] \in Threads /\ cur[k] # Nil
      BY <1>13, <2>1 DEF Interruptible
    <3> QED BY <1>12, <2>1, <3>1, <3>2 DEF InScheduler, InCreate
  <2> QED BY <2>2, <2>3
<1>16. ASSUME NEW k \in Kthreads, Finish(k) \/ MainExit(k) PROVE ReadyInv'
  <2>1. /\ pc[k] = "user" /\ UNCHANGED <<env, runq, obj, cur, saving>>
        /\ ustate' = [ustate EXCEPT ![cur[k]] = "DONE"]
        /\ pc' = [pc EXCEPT ![k] = "put"]
    BY <1>16 DEF Finish, MainExit, queueVars
  <2>2. cur[k] \in Threads /\ cur[k] # Nil
    BY <1>13, <2>1 DEF Interruptible
  <2> QED BY <1>12, <2>1, <2>2
<1>17. ASSUME NEW k \in Kthreads, PutDone(k) PROVE ReadyInv'
  <2>1. /\ UNCHANGED <<ustate, env, runq, obj, saving>>
        /\ pc[k] = "put"
        /\ cur' = [cur EXCEPT ![k] = Nil]
        /\ pc' = [pc EXCEPT ![k] = "pick"]
    BY <1>17 DEF PutDone, queueVars
  <2> QED BY <2>1
<1>18. ASSUME NEW k \in Kthreads, PutBack(k) PROVE ReadyInv'
  <2>1. /\ pc[k] = "put" /\ ustate[cur[k]] # "DONE"
        /\ UNCHANGED <<env, runq, saving>>
        /\ ustate' = [ustate EXCEPT ![cur[k]] = "RUNNABLE"]
        /\ obj' = [obj EXCEPT ![k] = cur[k]]
        /\ cur' = [cur EXCEPT ![k] = Nil]
        /\ pc' = [pc EXCEPT ![k] = "requeue"]
    BY <1>18 DEF PutBack, IsDone, UObj
  <2>2. cur[k] \in Threads /\ cur[k] # Nil
    BY <1>13, <2>1
  <2>3. \A v \in Threads : v # cur[k] => ustate'[v] = ustate[v]
    BY <2>1
  <2>4. ustate'[cur[k]] = "RUNNABLE"
    BY <2>1, <2>2
  <2>5. \A i \in Kthreads :
          /\ \A v \in runq'[i] : Resumable(v)' \/ (pc'[i] = "save" /\ v = saving'[i])
          /\ pc'[i] = "save" =>
               saving'[i] \in runq'[i] /\ ustate'[saving'[i]] = "RUNNABLE"
    <3>1. \A i \in Kthreads : \A v \in runq[i] : v \in Threads /\ v # cur[k]
      BY <1>11, <2>2
    <3> QED BY <2>1, <2>3, <3>1
  <2>6. ASSUME NEW i \in Kthreads, i # k
        PROVE  /\ pc'[i] \in {"enq", "enqcs"} =>
                     ustate'[obj'[i]] = "INIT" /\ env'[obj'[i]] = Nil
               /\ pc'[i] \in {"requeue", "requeuecs"} =>
                     ustate'[obj'[i]] = "RUNNABLE"
               /\ pc'[i] = "dispatch" =>
                     ustate'[cur'[i]] \in {"INIT", "RUNNABLE"}
               /\ cur'[i] # Nil /\ ustate'[cur'[i]] = "DONE" => pc'[i] = "put"
    <3>1. pc'[i] = pc[i] /\ obj'[i] = obj[i] /\ cur'[i] = cur[i]
      BY <2>1, <2>6
    <3>2. obj[i] # cur[k] /\ cur[i] # cur[k]
      BY <1>11, <2>2, <2>6
    <3>3. pc[i] \in Carrying => obj[i] \in Threads
      BY DEF PcInv
    <3>4. pc[i] = "dispatch" => cur[i] \in Threads
      BY <1>13
    <3> QED BY <2>1, <2>3, <3>1, <3>2, <3>3, <3>4 DEF Carrying
  <2>7. pc'[k] = "requeue" /\ obj'[k] = cur[k] /\ cur'[k] = Nil
    BY <2>1
  <2>8. \A v \in Threads : ustate'[v] = "NONE" => env'[v] = Nil
    BY <2>1, <2>3, <2>4
  <2> QED BY <2>4, <2>5, <2>6, <2>7, <2>8
<1>19. ASSUME NEW k \in Kthreads, NEW u \in Threads, Pick(k, u) PROVE ReadyInv'
  <2>1. /\ UNCHANGED <<ustate, env, obj, saving>>
        /\ u \in runq[k] /\ pc[k] = "pickcs"
        /\ runq' = [runq EXCEPT ![k] = @ \ {u}]
        /\ cur' = [cur EXCEPT ![k] = u]
        /\ pc' = [pc EXCEPT ![k] = "dispatch"]
    BY <1>19 DEF Pick, Removed
  <2>2. ustate[u] \in {"INIT", "RUNNABLE"}
    BY <2>1
  <2> QED BY <2>1, <2>2
<1>20. ASSUME NEW k \in Kthreads, Dispatch(k) PROVE ReadyInv'
  <2>1. /\ pc[k] = "dispatch" /\ UNCHANGED <<runq, obj, cur, saving>>
        /\ ustate' = [ustate EXCEPT ![cur[k]] = "RUNNING"]
        /\ pc' = [pc EXCEPT ![k] = "jump"]
        /\ env' = [env EXCEPT ![cur[k]] = IF ustate[cur[k]] = "INIT" THEN <<>>
                                                                 ELSE @]
    BY <1>20 DEF Dispatch, queueVars
  <2>2. cur[k] \in Threads /\ cur[k] # Nil
    BY <1>13, <2>1
  <2> QED BY <1>12, <2>1, <2>2 DEF InScheduler, InCreate
<1>21. ASSUME NEW k \in Kthreads, Jump(k) PROVE ReadyInv'
  <2>1. /\ pc[k] = "jump" /\ UNCHANGED <<ustate, runq, obj, cur, saving>>
        /\ cur[k] \in Threads /\ cur[k] # Nil
        /\ env' = [env EXCEPT ![cur[k]] = Nil]
        /\ \E l \in {"lost", "user", "return"} : pc' = [pc EXCEPT ![k] = l]
    BY <1>21, JumpStep DEF queueVars
  <2>2. ustate[cur[k]] # "NONE" /\ ustate[cur[k]] # "DONE"
    BY <2>1 DEF PlaceInv, Placed
  <2> QED BY <1>12, <2>1, <2>2 DEF InScheduler, InCreate
<1>24. ASSUME NEW k \in Kthreads, Return(k) PROVE ReadyInv'
  <2>1. Kept /\ pc[k] = "return"
        /\ \E l \in Interruptible : pc' = [pc EXCEPT ![k] = l]
    BY <1>24, ReturnStep DEF queueVars
  <2> QED BY <1>1, <2>1 DEF Interruptible, Landing
<1>22. CASE UNCHANGED vars
  BY <1>22 DEF vars, threadVars, queueVars
<1> QED
  BY <1>2, <1>3, <1>4, <1>5, <1>6, <1>7, <1>8, <1>9, <1>10, <1>15, <1>16,
     <1>17, <1>18, <1>19, <1>20, <1>21, <1>22, <1>23, <1>24
  DEF Next, Run, Schedule

-----------------------------------------------------------------------------
-----------------------------------------------------------------------------
(* The timer is set wherever the code of a uthread runs that creates none. *)
LEMMA SliceNext == IInv /\ SliceInv /\ [Next]_vars => SliceInv'
<1> SUFFICES ASSUME IInv, SliceInv, [Next]_vars PROVE SliceInv' OBVIOUS
<1>0. Typed /\ PcInv /\ StackInv
  BY DEF IInv
<1>1. /\ pc \in [Kthreads -> PCs]
      /\ cur \in [Kthreads -> Threads \cup {Nil}]
      /\ dnd \in [Kthreads -> BOOLEAN]
      /\ armed \in [Kthreads -> BOOLEAN]
  BY <1>0 DEF Typed
<1> USE <1>1 DEF Goto
<1> DEFINE Others(k) == \A j \in Kthreads \ {k} :
             /\ pc'[j] = pc[j] /\ dnd'[j] = dnd[j]
             /\ armed'[j] = armed[j] /\ cur'[j] = cur[j]
(* The steps after which k executes no code of a uthread.                  *)
<1>2. ASSUME NEW k \in Kthreads, Others(k),
             pc'[k] \notin {"user"} \cup Landing \cup InCreate
      PROVE  SliceInv'
  BY <1>2 DEF SliceInv
<1>3. ASSUME NEW k \in Kthreads, NEW u \in Uthreads, NEW j \in Kthreads,
             Create(k, u, j)
      PROVE  SliceInv'
  <2>1. /\ UNCHANGED <<armed, cur>>
        /\ pc[k] = "user" /\ cur[k] \in Creators
        /\ dnd' = [dnd EXCEPT ![k] = TRUE]
    BY <1>3 DEF Create, DoNotDisturb
  <2>2. pc' = pc \/ \E l \in {"exited", "segv", "enq"} : pc' = [pc EXCEPT ![k] = l]
    BY <1>3 DEF Create
  <2> QED BY <2>1, <2>2 DEF SliceInv, InCreate, Landing
<1>4. ASSUME NEW k \in Kthreads, AddLock(k) PROVE SliceInv'
  <2>1. UNCHANGED <<armed, cur, dnd>>
    BY <1>4 DEF AddLock, threadVars, signalVars
  <2>2. CASE pc[k] = "enq" /\ pc' = [pc EXCEPT ![k] = "enqcs"]
    BY <2>1, <2>2 DEF SliceInv, InCreate, Landing
  <2>3. CASE pc' = [pc EXCEPT ![k] = "requeuecs"]
    BY <2>1, <2>3 DEF SliceInv, InCreate, Landing
  <2> QED BY <1>4, <2>2, <2>3 DEF AddLock
<1>5. ASSUME NEW k \in Kthreads, AddNew(k) PROVE SliceInv'
  <2>1. /\ UNCHANGED <<armed, cur, dnd>> /\ pc[k] = "enqcs"
        /\ pc' = [pc EXCEPT ![k] = "notify"]
    BY <1>5 DEF AddNew, threadVars, signalVars
  <2> QED BY <2>1 DEF SliceInv, InCreate, Landing
<1>6. ASSUME NEW k \in Kthreads, Notify(k) PROVE SliceInv'
  <2>1. /\ UNCHANGED <<armed, cur>> /\ pc[k] = "notify"
        /\ pc' = [pc EXCEPT ![k] = "user"]
        /\ dnd' = [dnd EXCEPT ![k] = FALSE]
    BY <1>6 DEF Notify, threadVars
  <2> QED BY <2>1 DEF SliceInv, InCreate, Landing
<1>7. ASSUME NEW k \in Kthreads, Yield(k) \/ YieldTimer(k) \/ YieldSchedule(k)
                \/ Finish(k) \/ MainExit(k) \/ PutDone(k) \/ PutBack(k)
                \/ AddPreempted(k) \/ PickLock(k) \/ PickNothing(k)
                \/ IdleLoop(k) \/ LastMile(k) \/ HandlerSchedule(k) \/ Save(k)
      PROVE  SliceInv'
  <2>2. cur' = cur \/ cur' = [cur EXCEPT ![k] = Nil]
    BY <1>7 DEF Yield, YieldTimer, YieldSchedule, Finish, MainExit, PutDone,
      PutBack, AddPreempted, PickLock, PickNothing, IdleLoop, LastMile,
      HandlerSchedule, Save, threadVars
  <2>3. /\ dnd' = dnd \/ dnd' = [dnd EXCEPT ![k] = TRUE]
        /\ armed' = armed \/ armed' = [armed EXCEPT ![k] = FALSE]
    BY <1>7 DEF Yield, YieldTimer, YieldSchedule, Finish, MainExit, PutDone,
      PutBack, AddPreempted, PickLock, PickNothing, IdleLoop, LastMile,
      HandlerSchedule, Save, signalVars, Quiet, DoNotDisturb
  <2>4. \E l : /\ pc' = [pc EXCEPT ![k] = l]
               /\ l \notin {"user"} \cup Landing \cup InCreate
    BY <1>7 DEF Yield, YieldTimer, YieldSchedule, Finish, MainExit, PutDone,
      PutBack, AddPreempted, PickLock, PickNothing, IdleLoop, LastMile,
      HandlerSchedule, Save, InCreate, Landing
  <2> QED BY <1>2, <2>2, <2>3, <2>4
<1>8. ASSUME NEW k \in Kthreads, QuitOrIdle(k) PROVE SliceInv'
  <2>1. UNCHANGED <<armed, cur, dnd>>
    BY <1>8 DEF QuitOrIdle, threadVars, signalVars
  <2> DEFINE l == IF ~kenv[k] THEN "lost"
             ELSE IF ~appExit THEN "idle"
             ELSE IF k = MainK THEN "lastmile" ELSE "ended"
  <2>2. l \notin {"user"} \cup Landing \cup InCreate
    BY DEF InCreate, Landing
  <2>3. pc' = [pc EXCEPT ![k] = l]
    BY <1>8 DEF QuitOrIdle
  <2> HIDE DEF l
  <2> QED BY <1>2, <2>1, <2>2, <2>3
<1>9. ASSUME NEW k \in Kthreads, NEW u \in Threads, Pick(k, u) PROVE SliceInv'
  <2>1. /\ UNCHANGED <<armed, dnd>>
        /\ cur' = [cur EXCEPT ![k] = u]
        /\ pc' = [pc EXCEPT ![k] = "dispatch"]
    BY <1>9 DEF Pick, signalVars
  <2> QED BY <1>2, <2>1 DEF InCreate, Landing
<1>10. ASSUME NEW k \in Kthreads, Dispatch(k) PROVE SliceInv'
  <2>1. /\ UNCHANGED cur
        /\ pc' = [pc EXCEPT ![k] = "jump"]
        /\ armed' = [armed EXCEPT ![k] = TRUE]
        /\ dnd' = [dnd EXCEPT ![k] = FALSE]
    BY <1>10 DEF Dispatch
  <2> QED BY <2>1 DEF SliceInv, InCreate, Landing
(* From a landing on, nothing raises do_not_disturb or stops the timer.    *)
<1>11. ASSUME NEW k \in Kthreads, Jump(k) \/ Return(k) PROVE SliceInv'
  <2>1. /\ pc[k] \in Landing /\ UNCHANGED <<cur, dnd, armed>>
        /\ \E l \in Interruptible \cup {"lost"} : pc' = [pc EXCEPT ![k] = l]
    BY <1>0, <1>11, JumpStep, ReturnStep DEF signalVars, Landing, Interruptible
  <2>2. ~dnd[k] /\ armed[k]
    BY <2>1 DEF SliceInv
  <2>3. pc'[k] \notin InCreate /\ \A j \in Kthreads \ {k} : pc'[j] = pc[j]
    BY <2>1 DEF Interruptible, Landing, InCreate
  <2> QED BY <2>1, <2>2, <2>3 DEF SliceInv
<1>12. ASSUME NEW k \in Kthreads, TimerExpire(k) \/ TakeNotice(k) PROVE SliceInv'
  <2>1. UNCHANGED <<cur, dnd>> /\ \A j \in Kthreads \ {k} : armed'[j] = armed[j]
    BY <1>0, <1>12, SignalStep
  <2>2. CASE pc' = pc /\ dnd[k]
    BY <2>1, <2>2 DEF SliceInv
  <2>3. CASE pc' = [pc EXCEPT ![k] = "handler"]
    BY <1>2, <2>1, <2>3 DEF InCreate, Landing
  <2>4. (pc' = pc /\ dnd[k]) \/ pc' = [pc EXCEPT ![k] = "handler"]
    BY <1>0, <1>12, SignalStep
  <2> QED BY <2>2, <2>3, <2>4
<1>13. CASE UNCHANGED vars
  BY <1>13 DEF vars, threadVars, signalVars, SliceInv
<1> QED
  BY <1>3, <1>4, <1>5, <1>6, <1>7, <1>8, <1>9, <1>10, <1>11, <1>12, <1>13
  DEF Next, Run, Schedule

-----------------------------------------------------------------------------
(* main()'s uthread stays with main()'s kthread until it is DONE, so that  *)
(* this kthread always finds something to run before its kthread_env is    *)
(* saved; and no other kthread fills main()'s queue with anything but new  *)
(* uthreads, which only main()'s kthread creates.                          *)
LEMMA HomeNext == IInv /\ HomeInv /\ [Next]_vars => HomeInv'
<1> SUFFICES ASSUME IInv, HomeInv, [Next]_vars PROVE HomeInv' OBVIOUS
<1>0. Typed /\ PcInv /\ StackInv
  BY DEF IInv
<1>1. /\ pc \in [Kthreads -> PCs]
      /\ cur \in [Kthreads -> Threads \cup {Nil}]
      /\ obj \in [Kthreads -> Threads \cup {Nil}]
      /\ tgt \in [Kthreads -> Kthreads]
      /\ runq \in [Kthreads -> SUBSET Threads]
      /\ ustate \in [Threads -> States]
      /\ kenv \in [Kthreads -> BOOLEAN]
      /\ masterThread \in [Kthreads -> Threads \cup {Nil}]
      /\ MainK \in Kthreads /\ Master \in Threads /\ Master # Nil
  BY <1>0, SchedAssumption DEF Typed, Threads
<1> USE <1>1 DEF Goto, HomeInv, MasterHome
<1> DEFINE Kept == UNCHANGED <<cur, obj, tgt, runq, ustate, kenv, masterThread>>
(* A step that only moves k.                                               *)
<1>2. ASSUME NEW k \in Kthreads, Kept, NEW l,
             pc' = pc \/ pc' = [pc EXCEPT ![k] = l],
             l \in {"requeue", "requeuecs"} => pc[k] \in {"requeue", "requeuecs"},
             l \in {"enq", "enqcs"} => pc[k] \in {"enq", "enqcs"},
             l # "idle" \/ kenv[k],
             l \in {"empty", "lastmile", "ended"} =>
               pc[k] \in {"empty", "lastmile", "ended"},
             l = "empty" => pc[k] = "empty",
             pc[k] # "idle"
      PROVE  HomeInv'
  BY <1>2
<1>3. ASSUME NEW k \in Kthreads, NEW u \in Uthreads, NEW j \in Kthreads,
             Create(k, u, j)
      PROVE  HomeInv'
  <2>1. UNCHANGED <<cur, runq, kenv, masterThread>> /\ pc[k] = "user"
    BY <1>3 DEF Create
  <2>2. CASE UNCHANGED <<ustate, obj, tgt>>
    <3>1. u # Nil /\ obj[k] = Nil
      BY <1>0, <2>1, SchedAssumption DEF Threads, PcInv, Carrying
    <3>2. obj' # [obj EXCEPT ![k] = u]
      BY <2>2, <3>1
    <3>3. pc' = pc \/ \E l \in {"exited", "segv"} : pc' = [pc EXCEPT ![k] = l]
      BY <1>3, <3>2 DEF Create
    <3> QED BY <1>2, <2>1, <2>2, <3>3
  <2>3. CASE /\ masterThread[k] # Nil
             /\ ustate' = [ustate EXCEPT ![u] = "INIT"]
             /\ obj' = [obj EXCEPT ![k] = u]
             /\ tgt' = [tgt EXCEPT ![k] = j]
             /\ pc' = [pc EXCEPT ![k] = "enq"]
    <3>1. /\ ustate' = [ustate EXCEPT ![u] = "INIT"]
          /\ obj' = [obj EXCEPT ![k] = u]
          /\ tgt' = [tgt EXCEPT ![k] = j]
          /\ pc' = [pc EXCEPT ![k] = "enq"]
      BY <2>3
    <3>2. k = MainK
      BY <2>3
    <3>3. obj[k] = Nil
      BY <1>0, <2>1 DEF PcInv, Carrying
    <3>4. u # Master
      BY SchedAssumption
    <3>5. ustate'[Master] = ustate[Master]
      BY <3>1, <3>4
    <3> QED BY <2>1, <3>1, <3>2, <3>3, <3>5
  <2> QED BY <1>3, <2>2, <2>3 DEF Create
<1>4. ASSUME NEW k \in Kthreads, AddLock(k) PROVE HomeInv'
  <2>1. Kept /\ pc[k] \in {"enq", "requeue"}
    BY <1>4 DEF AddLock, threadVars, sharedVars
  <2>2. CASE pc[k] = "enq" /\ pc' = [pc EXCEPT ![k] = "enqcs"]
    BY <1>2, <2>1, <2>2
  <2>3. CASE pc[k] = "requeue" /\ pc' = [pc EXCEPT ![k] = "requeuecs"]
    BY <1>2, <2>1, <2>3
  <2> QED BY <1>4, <2>2, <2>3 DEF AddLock
(* A uthread joins a run queue: main()'s kthread's own doing, if it is     *)
(* main()'s.                                                               *)
<1>5. ASSUME NEW k \in Kthreads, NEW l \in {"notify", "save"},
             pc[k] \in {"enqcs", "requeuecs"},
             UNCHANGED <<cur, tgt, ustate, kenv, masterThread>>,
             pc' = [pc EXCEPT ![k] = l], Insert(k)
      PROVE  HomeInv'
  <2>1. /\ runq' = [runq EXCEPT ![tgt[k]] = @ \cup {obj[k]}]
        /\ obj' = [obj EXCEPT ![k] = Nil]
    BY <1>5 DEF Insert
  <2>2. k # MainK => tgt[k] # MainK
    BY <1>5
  <2>3. MasterHome => MasterHome'
    <3>1. CASE Master \in runq[MainK]
      BY <1>5, <2>1, <3>1
    <3>2. CASE cur[MainK] = Master
      BY <1>5, <3>2
    <3>3. CASE obj[MainK] = Master /\ tgt[MainK] = MainK
      <4>1. CASE k = MainK
        BY <1>5, <2>1, <3>3, <4>1
      <4>2. CASE k # MainK
        BY <1>5, <2>1, <3>3, <4>2
      <4> QED BY <4>1, <4>2
    <3> QED BY <3>1, <3>2, <3>3
  <2>4. pc'[MainK] \in {"empty", "lastmile", "ended"} => runq'[MainK] = {}
    <3>1. CASE k = MainK
      BY <1>5, <3>1
    <3>2. CASE k # MainK
      BY <1>5, <2>1, <2>2, <3>2
    <3> QED BY <3>1, <3>2
  <2> HIDE DEF MasterHome
  <2> QED BY <1>5, <2>3, <2>4
<1>6. ASSUME NEW k \in Kthreads, AddNew(k) \/ AddPreempted(k) PROVE HomeInv'
  <2>1. /\ UNCHANGED <<cur, tgt, ustate, kenv, masterThread>> /\ Insert(k)
        /\ pc[k] \in {"enqcs", "requeuecs"}
        /\ pc' = [pc EXCEPT ![k] = "notify"] \/ pc' = [pc EXCEPT ![k] = "save"]
    BY <1>6 DEF AddNew, AddPreempted, Insert, threadVars, sharedVars
  <2> QED BY <1>5, <2>1
<1>7. ASSUME NEW k \in Kthreads, Notify(k) \/ YieldTimer(k) \/ YieldSchedule(k)
                \/ HandlerSchedule(k) \/ PickLock(k) \/ Save(k)
      PROVE  HomeInv'
  <2>1. Kept /\ pc[k] # "idle"
    BY <1>7 DEF Notify, YieldTimer, YieldSchedule, HandlerSchedule, PickLock,
      Save, threadVars, queueVars, sharedVars
  <2>2. \E l \in {"user", "yielding", "put", "pickcs", "pick"} :
          pc' = [pc EXCEPT ![k] = l]
    BY <1>7 DEF Notify, YieldTimer, YieldSchedule, HandlerSchedule, PickLock, Save
  <2> QED BY <1>2, <2>1, <2>2
<1>8. ASSUME NEW k \in Kthreads, PickNothing(k) PROVE HomeInv'
  <2>1. /\ Kept /\ pc[k] = "pickcs" /\ runq[k] = {}
        /\ pc' = [pc EXCEPT ![k] = "empty"]
    BY <1>8 DEF PickNothing, NoBest, threadVars, sharedVars
  <2>2. cur[k] = Nil /\ obj[k] = Nil
    BY <1>0, <2>1 DEF PcInv, Unoccupied, Carrying
  <2>3. k = MainK => kenv[MainK]
    BY <2>1, <2>2
  <2> QED BY <2>1, <2>3
<1>9. ASSUME NEW k \in Kthreads, QuitOrIdle(k) PROVE HomeInv'
  <2>1. Kept /\ pc[k] = "empty"
    BY <1>9 DEF QuitOrIdle, threadVars, queueVars, sharedVars
  <2>2. pc' = [pc EXCEPT ![k] = IF ~kenv[k] THEN "lost"
             ELSE IF ~appExit THEN "idle"
             ELSE IF k = MainK THEN "lastmile" ELSE "ended"]
    BY <1>9 DEF QuitOrIdle
  <2>3. kenv[k]
    BY <2>1
  <2>4. \E l \in {"idle", "lastmile", "ended"} : pc' = [pc EXCEPT ![k] = l]
    BY <2>2, <2>3
  <2> QED BY <1>2, <2>1, <2>3, <2>4
<1>10. ASSUME NEW k \in Kthreads, IdleLoop(k) PROVE HomeInv'
  <2>1. /\ UNCHANGED <<cur, obj, tgt, runq, ustate, masterThread>>
        /\ pc[k] = "idle" /\ pc' = [pc EXCEPT ![k] = "pick"]
        /\ kenv' = [kenv EXCEPT ![k] = TRUE]
    BY <1>10 DEF IdleLoop, threadVars, queueVars
  <2> QED BY <2>1
<1>11. ASSUME NEW k \in Kthreads, LastMile(k) PROVE HomeInv'
  <2>1. /\ Kept /\ pc[k] = "lastmile" /\ pc' = [pc EXCEPT ![k] = "ended"]
    BY <1>11 DEF LastMile, threadVars, queueVars, sharedVars
  <2> QED BY <1>2, <2>1
<1>12. ASSUME NEW k \in Kthreads, TimerExpire(k) \/ TakeNotice(k) PROVE HomeInv'
  <2>1. Kept
    BY <1>0, <1>12, SignalStep DEF queueVars, sharedVars
  <2>2. CASE pc' = pc
    BY <2>1, <2>2
  <2>3. CASE pc[k] \in Interruptible /\ pc' = [pc EXCEPT ![k] = "handler"]
    <3>1. pc[k] # "idle"
      BY <2>3 DEF Interruptible, Landing
    <3> QED BY <1>2, <2>1, <2>3, <3>1
  <2>4. \/ pc' = pc
        \/ pc[k] \in Interruptible /\ pc' = [pc EXCEPT ![k] = "handler"]
    BY <1>0, <1>12, SignalStep
  <2> QED BY <2>2, <2>3, <2>4
<1>13. ASSUME NEW k \in Kthreads, Yield(k) PROVE HomeInv'
  <2>1. UNCHANGED <<cur, obj, tgt, runq, kenv, masterThread>> /\ pc[k] = "user"
    BY <1>13 DEF Yield, queueVars, sharedVars
  <2>2. cur[k] \in Threads
    BY <1>0, <2>1 DEF PcInv, Unoccupied
  <2>3. \/ UNCHANGED ustate /\ pc' = [pc EXCEPT ![k] = "aborted"]
        \/ /\ ustate' = [ustate EXCEPT ![cur[k]] = "YIELD"]
           /\ pc' = [pc EXCEPT ![k] = "yield"]
    BY <1>13 DEF Yield
  <2>4. ustate'[Master] = "DONE" => ustate[Master] = "DONE"
    BY <2>2, <2>3
  <2> QED BY <2>1, <2>3, <2>4
<1>14. ASSUME NEW k \in Kthreads, Finish(k) PROVE HomeInv'
  <2>1. /\ UNCHANGED <<cur, obj, tgt, runq, kenv, masterThread>>
        /\ pc[k] = "user" /\ cur[k] # Master
        /\ ustate' = [ustate EXCEPT ![cur[k]] = "DONE"]
        /\ pc' = [pc EXCEPT ![k] = "put"]
    BY <1>14 DEF Finish, queueVars, sharedVars
  <2>2. ustate'[Master] = ustate[Master]
    BY <2>1
  <2> QED BY <2>1, <2>2
<1>15. ASSUME NEW k \in Kthreads, MainExit(k) PROVE HomeInv'
  <2>1. /\ UNCHANGED <<cur, obj, tgt, runq>>
        /\ pc[k] = "user" /\ k = MainK
        /\ kenv' = [kenv EXCEPT ![k] = TRUE]
        /\ masterThread' = [masterThread EXCEPT ![k] = Nil]
        /\ pc' = [pc EXCEPT ![k] = "put"]
    BY <1>15 DEF MainExit, queueVars
  <2> QED BY <2>1
<1>16. ASSUME NEW k \in Kthreads, PutDone(k) PROVE HomeInv'
  <2>1. /\ UNCHANGED <<obj, tgt, runq, ustate, kenv, masterThread>>
        /\ pc[k] = "put" /\ ustate[cur[k]] = "DONE"
        /\ cur' = [cur EXCEPT ![k] = Nil]
        /\ pc' = [pc EXCEPT ![k] = "pick"]
    BY <1>16 DEF PutDone, IsDone, queueVars
  <2>2. CASE cur[k] = Master
    BY <2>1, <2>2
  <2>3. CASE cur[k] # Master
    BY <2>1, <2>3
  <2> QED BY <2>2, <2>3
<1>17. ASSUME NEW k \in Kthreads, PutBack(k) PROVE HomeInv'
  <2>1. /\ UNCHANGED <<runq, kenv, masterThread>>
        /\ pc[k] = "put" /\ ustate[cur[k]] # "DONE"
        /\ ustate' = [ustate EXCEPT ![cur[k]] = "RUNNABLE"]
        /\ obj' = [obj EXCEPT ![k] = cur[k]]
        /\ tgt' = [tgt EXCEPT ![k] = k]
        /\ cur' = [cur EXCEPT ![k] = Nil]
        /\ pc' = [pc EXCEPT ![k] = "requeue"]
    BY <1>17 DEF PutBack, IsDone, UObj, Home, sharedVars
  <2>2. obj[k] = Nil
    BY <1>0, <2>1 DEF PcInv, Carrying
  <2>3. MasterHome => MasterHome'
    <3>1. CASE k = MainK
      BY <2>1, <2>2, <3>1
    <3>2. CASE k # MainK
      BY <2>1, <3>2
    <3> QED BY <3>1, <3>2
  <2>4. ustate'[Master] = "DONE" => ustate[Master] = "DONE"
    BY <2>1
  <2> HIDE DEF MasterHome
  <2> QED BY <2>1, <2>3, <2>4
<1>18. ASSUME NEW k \in Kthreads, NEW u \in Threads, Pick(k, u) PROVE HomeInv'
  <2>1. /\ UNCHANGED <<obj, tgt, ustate, kenv, masterThread>>
        /\ pc[k] = "pickcs" /\ u \in runq[k]
        /\ runq' = [runq EXCEPT ![k] = @ \ {u}]
        /\ cur' = [cur EXCEPT ![k] = u]
        /\ pc' = [pc EXCEPT ![k] = "dispatch"]
    BY <1>18 DEF Pick, Removed, sharedVars
  <2>2. cur[k] = Nil
    BY <1>0, <2>1 DEF PcInv, Unoccupied
  <2>3. MasterHome => MasterHome'
    BY <2>1, <2>2
  <2> HIDE DEF MasterHome
  <2> QED BY <2>1, <2>3
<1>19. ASSUME NEW k \in Kthreads, Dispatch(k) PROVE HomeInv'
  <2>1. /\ UNCHANGED <<cur, obj, tgt, runq, kenv, masterThread>>
        /\ pc[k] = "dispatch"
        /\ ustate' = [ustate EXCEPT ![cur[k]] = "RUNNING"]
        /\ pc' = [pc EXCEPT ![k] = "jump"]
    BY <1>19 DEF Dispatch, queueVars, sharedVars
  <2>2. ustate'[Master] = "DONE" => ustate[Master] = "DONE"
    BY <2>1
  <2> QED BY <2>1, <2>2
<1>20. ASSUME NEW k \in Kthreads, Jump(k) \/ Return(k) PROVE HomeInv'
  <2>1. /\ pc[k] \in Landing /\ Kept
        /\ \E l \in Interruptible \cup {"lost"} : pc' = [pc EXCEPT ![k] = l]
    BY <1>0, <1>20, JumpStep, ReturnStep
    DEF queueVars, sharedVars, Landing, Interruptible
  <2> QED BY <1>2, <2>1 DEF Interruptible, Landing
<1>21. CASE UNCHANGED vars
  BY <1>21 DEF vars, threadVars, queueVars, sharedVars
<1> QED
  BY <1>3, <1>4, <1>6, <1>7, <1>8, <1>9, <1>10, <1>11, <1>12, <1>13, <1>14,
     <1>15, <1>16, <1>17, <1>18, <1>19, <1>20, <1>21
  DEF Next, Run, Schedule

-----------------------------------------------------------------------------
(* The first state: main() runs as the master uthread, nothing is queued.  *)
LEMMA InitCInv == Init => CInv
<1> SUFFICES ASSUME Init PROVE CInv OBVIOUS
<1>1. IInv
  BY InitIInv
<1>2. Master \in Threads /\ Master # Nil /\ MainK \in Kthreads
  BY SchedAssumption DEF Threads
<1>3. ReadyInv
  BY <1>2 DEF Init, ReadyInv
<1>5. SliceInv
  BY <1>2 DEF Init, SliceInv, InCreate, Landing
<1>6. HomeInv
  BY <1>2 DEF Init, HomeInv, MasterHome
<1> QED BY <1>1, <1>3, <1>5, <1>6 DEF CInv

LEMMA NextCInv == CInv /\ [Next]_vars => CInv'
  BY NextIInv, ReadyNext, SliceNext, HomeNext DEF CInv

THEOREM SchedContextInvariant == Spec => []CInv
<1> QED BY InitCInv, NextCInv, PTL DEF Spec

(* What a scheduler may pick can be resumed: it is new, or RUNNABLE with   *)
(* the context sigsetjmp saved since siglongjmp last used one.  The one    *)
(* exception, queued and not yet saved, is on the queue of the kthread     *)
(* that is about to save it, and only that kthread takes from the queue.   *)
THEOREM SchedResumableContext == Spec => []ResumableContext
<1>1. CInv => ResumableContext
  <2> SUFFICES ASSUME CInv, NEW k \in Kthreads, NEW u \in runq[k]
               PROVE  \/ ustate[u] = "INIT" /\ env[u] = Nil
                      \/ ustate[u] = "RUNNABLE" /\ env[u] # Nil
                      \/ ustate[u] = "RUNNABLE" /\ pc[k] = "save" /\ saving[k] = u
    BY DEF ResumableContext
  <2>1. Resumable(u) \/ (pc[k] = "save" /\ u = saving[k])
    BY DEF CInv, ReadyInv
  <2>2. pc[k] = "save" => ustate[saving[k]] = "RUNNABLE"
    BY DEF CInv, ReadyInv
  <2> QED BY <2>1, <2>2 DEF Resumable
<1> QED BY <1>1, SchedContextInvariant, PTL

(* A uthread that creates none never runs its own code with its timer off, *)
(* SIGVTALRM blocked or do_not_disturb raised.                             *)
THEOREM SchedPreemptible == Spec => []Preemptible
<1>1. CInv => Preemptible
  BY DEF CInv, IInv, StackInv, Fits, SliceInv, Preemptible
<1> QED BY <1>1, SchedContextInvariant, PTL

(* However high the signal frames pile up on a stack, in use or saved, a   *)
(* handler lies only on code outside any handler, on one handler not yet   *)
(* undisturbed, or on one that a siglongjmp has left or landed in.         *)
THEOREM SchedHandlersNest == Spec => []HandlersNest
<1>1. IInv => HandlersNest
  BY DEF IInv, StackInv, Shape, HandlersNest
<1> QED BY <1>1, SchedInvariant, PTL

(* siglongjmp(kthread_env) never comes before sigsetjmp(kthread_env).      *)
THEOREM SchedNoJumpWithoutEnv == Spec => []NoJumpWithoutEnv
<1>1. CInv => NoJumpWithoutEnv
  <2> SUFFICES ASSUME CInv, NEW k \in Kthreads, pc[k] = "empty" PROVE kenv[k]
    BY DEF NoJumpWithoutEnv
  <2> QED BY DEF CInv, HomeInv
<1> QED BY <1>1, SchedContextInvariant, PTL

(* main()'s kthread leaves its loop with nothing left to run.              *)
THEOREM SchedMainDrained == Spec => []MainDrained
<1>1. CInv => MainDrained
  BY SchedAssumption DEF CInv, HomeInv, IInv, PcInv, Unoccupied, MainDrained
<1> QED BY <1>1, SchedContextInvariant, PTL

-----------------------------------------------------------------------------
(***************************************************************************)
(* GtSched implements UthreadPool, and a finished uthread stays finished.  *)
(*                                                                         *)
(* StepForms sums up each step by what it does to the five variables that  *)
(* the pool's state is read from, and to whether gtthread_app_exit has     *)
(* returned: every step but LastMile, Create, PutBack, Pick and those that *)
(* set a uthread DONE is a stutter of the pool.                            *)
(***************************************************************************)
Returns == pc[MainK] = "ended"
StaysIn == Returns' = Returns

(* Nothing the pool can see.                                               *)
Silent == UNCHANGED <<runq, obj, tgt, cur, ustate>> /\ StaysIn

Quits == /\ UNCHANGED <<runq, obj, tgt, cur, ustate>>
         /\ Returns' /\ curUthreads = 0

Spawns(k, u, j) ==
  /\ u \in Threads /\ ustate[u] = "NONE" /\ obj[k] = Nil
  /\ ustate' = [ustate EXCEPT ![u] = "INIT"]
  /\ obj' = [obj EXCEPT ![k] = u]
  /\ tgt' = [tgt EXCEPT ![k] = j]
  /\ UNCHANGED <<runq, cur>> /\ StaysIn

Queues(k) ==
  /\ obj[k] # Nil
  /\ runq' = [runq EXCEPT ![tgt[k]] = @ \cup {obj[k]}]
  /\ obj' = [obj EXCEPT ![k] = Nil]
  /\ UNCHANGED <<tgt, cur, ustate>> /\ StaysIn

(* From here on k's current uthread is in hand and not DONE before.        *)
Becomes(k, s) ==
  /\ cur[k] # Nil /\ ustate[cur[k]] # "DONE"
  /\ ustate' = [ustate EXCEPT ![cur[k]] = s]
  /\ UNCHANGED <<runq, obj, tgt, cur>> /\ StaysIn

Drops(k) ==
  /\ cur[k] # Nil /\ ustate[cur[k]] = "DONE"
  /\ cur' = [cur EXCEPT ![k] = Nil]
  /\ UNCHANGED <<runq, obj, tgt, ustate>> /\ StaysIn

PutsBack(k) ==
  /\ cur[k] # Nil /\ ustate[cur[k]] # "DONE" /\ obj[k] = Nil
  /\ ustate' = [ustate EXCEPT ![cur[k]] = "RUNNABLE"]
  /\ obj' = [obj EXCEPT ![k] = cur[k]]
  /\ tgt' = [tgt EXCEPT ![k] = k]
  /\ cur' = [cur EXCEPT ![k] = Nil]
  /\ UNCHANGED runq /\ StaysIn

Takes(k, u) ==
  /\ cur[k] = Nil /\ u \in runq[k]
  /\ runq' = [runq EXCEPT ![k] = @ \ {u}]
  /\ cur' = [cur EXCEPT ![k] = u]
  /\ UNCHANGED <<obj, tgt, ustate>> /\ StaysIn

Forms ==
  \/ Silent \/ Quits
  \/ \E k \in Kthreads :
       \/ \E u \in Uthreads, j \in Kthreads : Spawns(k, u, j)
       \/ Queues(k) \/ Drops(k) \/ PutsBack(k)
       \/ \E s \in States \ {"NONE"} : Becomes(k, s)
       \/ \E u \in Threads : Takes(k, u)

-----------------------------------------------------------------------------
(* Every step has one of the forms.                                        *)
LEMMA StepForms == CInv /\ [Next]_vars => Forms
<1> SUFFICES ASSUME CInv, [Next]_vars PROVE Forms OBVIOUS
<1>0. Typed /\ PcInv /\ StackInv /\ ReadyInv
  BY DEF CInv, IInv
<1>1. /\ pc \in [Kthreads -> PCs]
      /\ cur \in [Kthreads -> Threads \cup {Nil}]
      /\ env \in [Threads -> Seq(Frames) \cup {Nil}]
  BY <1>0 DEF Typed
<1> USE <1>1 DEF Goto, Forms
<1> DEFINE Still == UNCHANGED <<runq, obj, tgt, cur, ustate>>
<1>2. ASSUME NEW k \in Kthreads, pc[k] # "ended", NEW l, l # "ended" \/ k # MainK,
             pc' = [pc EXCEPT ![k] = l]
      PROVE  StaysIn
  BY <1>2 DEF StaysIn, Returns
<1>3. ASSUME pc' = pc PROVE StaysIn
  BY <1>3 DEF StaysIn, Returns
<1>4. ASSUME NEW k \in Kthreads, pc[k] \in Interruptible \cup {"put", "dispatch"}
      PROVE  /\ cur[k] \in Threads /\ cur[k] # Nil /\ obj[k] = Nil
             /\ pc[k] # "ended"
             /\ pc[k] # "put" => ustate[cur[k]] # "DONE"
  <2>1. pc[k] # "lost" /\ pc[k] # "ended" /\ pc[k] \notin Unoccupied
        /\ pc[k] \notin Carrying
    BY <1>4 DEF Unoccupied, Interruptible, Landing, Carrying
  <2>2. cur[k] \in Threads /\ cur[k] # Nil /\ obj[k] = Nil
    BY <1>0, <2>1 DEF PcInv
  <2> QED BY <1>0, <2>1, <2>2 DEF ReadyInv
<1>5. ASSUME NEW k \in Kthreads, NEW u \in Uthreads, NEW j \in Kthreads,
             Create(k, u, j)
      PROVE  Forms
  <2>1. UNCHANGED <<runq, cur>> /\ pc[k] = "user" /\ ustate[u] = "NONE"
    BY <1>5 DEF Create
  <2>2. obj[k] = Nil /\ u \in Threads
    BY <1>4, <2>1 DEF Interruptible, Threads
  <2>3. CASE /\ UNCHANGED <<ustate, obj, tgt>>
             /\ pc' = pc \/ \E l \in {"exited", "segv"} : pc' = [pc EXCEPT ![k] = l]
    BY <1>2, <1>3, <2>1, <2>3 DEF Silent
  <2>4. CASE /\ ustate' = [ustate EXCEPT ![u] = "INIT"]
             /\ obj' = [obj EXCEPT ![k] = u]
             /\ tgt' = [tgt EXCEPT ![k] = j]
             /\ pc' = [pc EXCEPT ![k] = "enq"]
    <3>1. Spawns(k, u, j)
      BY <1>2, <2>1, <2>2, <2>4 DEF Spawns
    <3> QED BY <3>1
  <2> QED BY <1>5, <2>3, <2>4 DEF Create
<1>6. ASSUME NEW k \in Kthreads, AddLock(k) \/ Notify(k) \/ YieldTimer(k)
                \/ YieldSchedule(k) \/ HandlerSchedule(k) \/ PickLock(k)
                \/ PickNothing(k) \/ IdleLoop(k) \/ Save(k)
      PROVE  Silent
  <2>1. Still
    BY <1>6 DEF AddLock, Notify, YieldTimer, YieldSchedule, HandlerSchedule,
      PickLock, PickNothing, IdleLoop, Save, threadVars, queueVars
  <2>2. pc[k] # "ended" /\ \E l : l # "ended" /\ pc' = [pc EXCEPT ![k] = l]
    BY <1>6 DEF AddLock, Notify, YieldTimer, YieldSchedule, HandlerSchedule,
      PickLock, PickNothing, IdleLoop, Save
  <2> QED BY <1>2, <2>1, <2>2 DEF Silent
<1>7. ASSUME NEW k \in Kthreads, AddNew(k) \/ AddPreempted(k) PROVE Queues(k)
  <2>1. /\ UNCHANGED <<tgt, cur, ustate>> /\ Insert(k)
        /\ pc[k] \in {"enqcs", "requeuecs"}
        /\ \E l \in {"notify", "save"} : pc' = [pc EXCEPT ![k] = l]
    BY <1>7 DEF AddNew, AddPreempted, Insert, threadVars
  <2>2. obj[k] # Nil
    BY <1>0, <2>1 DEF PcInv, Carrying
  <2>3. StaysIn
    BY <1>2, <2>1
  <2> QED BY <2>1, <2>2, <2>3 DEF Queues, Insert
<1>8. ASSUME NEW k \in Kthreads, Yield(k) PROVE Forms
  <2>1. pc[k] = "user" /\ UNCHANGED <<runq, obj, tgt, cur>>
    BY <1>8 DEF Yield, queueVars
  <2>2. CASE UNCHANGED ustate /\ pc' = [pc EXCEPT ![k] = "aborted"]
    BY <1>2, <2>1, <2>2 DEF Silent
  <2>3. CASE /\ ustate' = [ustate EXCEPT ![cur[k]] = "YIELD"]
             /\ pc' = [pc EXCEPT ![k] = "yield"]
    <3>1. Becomes(k, "YIELD")
      BY <1>2, <1>4, <2>1, <2>3 DEF Becomes, Interruptible
    <3> QED BY <3>1 DEF States
  <2> QED BY <1>8, <2>2, <2>3 DEF Yield
<1>9. ASSUME NEW k \in Kthreads, Finish(k) \/ MainExit(k) PROVE Forms
  <2>1. pc[k] = "user" /\ UNCHANGED <<runq, obj, tgt, cur>>
    BY <1>9 DEF Finish, MainExit, queueVars
  <2>2. /\ ustate' = [ustate EXCEPT ![cur[k]] = "DONE"]
        /\ pc' = [pc EXCEPT ![k] = "put"]
    BY <1>9 DEF Finish, MainExit
  <2>3. Becomes(k, "DONE")
    BY <1>2, <1>4, <2>1, <2>2 DEF Becomes, Interruptible
  <2> QED BY <2>3 DEF States
<1>10. ASSUME NEW k \in Kthreads, PutDone(k) PROVE Drops(k)
  <2>1. /\ UNCHANGED <<runq, obj, tgt, ustate>>
        /\ pc[k] = "put" /\ ustate[cur[k]] = "DONE"
        /\ cur' = [cur EXCEPT ![k] = Nil]
        /\ pc' = [pc EXCEPT ![k] = "pick"]
    BY <1>10 DEF PutDone, IsDone, queueVars
  <2> QED BY <1>2, <1>4, <2>1 DEF Drops
<1>11. ASSUME NEW k \in Kthreads, PutBack(k) PROVE PutsBack(k)
  <2>1. /\ UNCHANGED runq
        /\ pc[k] = "put" /\ ustate[cur[k]] # "DONE"
        /\ ustate' = [ustate EXCEPT ![cur[k]] = "RUNNABLE"]
        /\ obj' = [obj EXCEPT ![k] = cur[k]]
        /\ tgt' = [tgt EXCEPT ![k] = k]
        /\ cur' = [cur EXCEPT ![k] = Nil]
        /\ pc' = [pc EXCEPT ![k] = "requeue"]
    BY <1>11 DEF PutBack, IsDone, UObj, Home
  <2> QED BY <1>2, <1>4, <2>1 DEF PutsBack
<1>12. ASSUME NEW k \in Kthreads, NEW u \in Threads, Pick(k, u) PROVE Takes(k, u)
  <2>1. /\ UNCHANGED <<obj, tgt, ustate>>
        /\ pc[k] = "pickcs" /\ u \in runq[k]
        /\ runq' = [runq EXCEPT ![k] = @ \ {u}]
        /\ cur' = [cur EXCEPT ![k] = u]
        /\ pc' = [pc EXCEPT ![k] = "dispatch"]
    BY <1>12 DEF Pick, Removed
  <2>2. cur[k] = Nil
    BY <1>0, <2>1 DEF PcInv, Unoccupied
  <2> QED BY <1>2, <2>1, <2>2 DEF Takes
<1>13. ASSUME NEW k \in Kthreads, QuitOrIdle(k) PROVE Silent
  <2>1. Still /\ pc[k] = "empty"
    BY <1>13 DEF QuitOrIdle, threadVars, queueVars
  <2>2. \E l : (l # "ended" \/ k # MainK) /\ pc' = [pc EXCEPT ![k] = l]
    BY <1>13 DEF QuitOrIdle
  <2> QED BY <1>2, <2>1, <2>2 DEF Silent
<1>14. ASSUME NEW k \in Kthreads, LastMile(k) PROVE Forms
  <2>1. Still /\ curUthreads = 0 /\ pc[k] = "lastmile"
        /\ pc' = [pc EXCEPT ![k] = "ended"]
    BY <1>14 DEF LastMile, AllReaped, threadVars, queueVars
  <2>2. CASE k = MainK
    BY <2>1, <2>2 DEF Quits, Returns
  <2>3. CASE k # MainK
    BY <1>2, <2>1, <2>3 DEF Silent
  <2> QED BY <2>2, <2>3
<1>15. ASSUME NEW k \in Kthreads, Dispatch(k) PROVE Forms
  <2>1. /\ UNCHANGED <<runq, obj, tgt, cur>> /\ pc[k] = "dispatch"
        /\ ustate' = [ustate EXCEPT ![cur[k]] = "RUNNING"]
        /\ pc' = [pc EXCEPT ![k] = "jump"]
    BY <1>15 DEF Dispatch, queueVars
  <2>2. Becomes(k, "RUNNING")
    BY <1>2, <1>4, <2>1 DEF Becomes
  <2> QED BY <2>2 DEF States
<1>16. ASSUME NEW k \in Kthreads, Jump(k) \/ Return(k) PROVE Silent
  <2>1. /\ pc[k] \in Landing /\ Still
        /\ \E l \in Interruptible \cup {"lost"} : pc' = [pc EXCEPT ![k] = l]
    BY <1>0, <1>16, JumpStep, ReturnStep DEF queueVars, Landing, Interruptible
  <2> QED BY <1>2, <2>1 DEF Interruptible, Landing, Silent
<1>17. ASSUME NEW k \in Kthreads, TimerExpire(k) \/ TakeNotice(k) PROVE Silent
  <2>1. Still
    BY <1>0, <1>17, SignalStep DEF queueVars
  <2>2. CASE pc' = pc
    BY <1>3, <2>1, <2>2 DEF Silent
  <2>3. CASE pc[k] \in Interruptible /\ pc' = [pc EXCEPT ![k] = "handler"]
    BY <1>2, <2>1, <2>3 DEF Silent, Interruptible, Landing
  <2>4. \/ pc' = pc
        \/ pc[k] \in Interruptible /\ pc' = [pc EXCEPT ![k] = "handler"]
    BY <1>0, <1>17, SignalStep
  <2> QED BY <2>2, <2>3, <2>4
<1>18. ASSUME UNCHANGED vars PROVE Silent
  BY <1>3, <1>18 DEF vars, threadVars, queueVars, Silent
<1> QED
  BY <1>5, <1>6, <1>7, <1>8, <1>9, <1>10, <1>11, <1>12, <1>13, <1>14, <1>15,
     <1>16, <1>17, <1>18
  DEF Next, Run, Schedule

-----------------------------------------------------------------------------
(* A DONE uthread is at most in the hands of the scheduler about to drop   *)
(* it.                                                                     *)
LEMMA DoneNowhereElse ==
  ASSUME CInv, NEW u \in Threads, ustate[u] = "DONE", NEW k \in Kthreads
  PROVE  u \notin runq[k] /\ u # obj[k]
<1>1. u \notin runq[k]
  BY DEF CInv, ReadyInv, Resumable
<1>2. obj[k] # Nil => pc[k] \in Carrying
  BY DEF CInv, IInv, PcInv
<1>3. u # Nil
  BY SchedAssumption
<1>4. pc[k] \in Carrying => ustate[obj[k]] # "DONE"
  BY DEF CInv, ReadyInv, Carrying
<1> QED BY <1>1, <1>2, <1>3, <1>4

(* A finished uthread is never brought back.                               *)
THEOREM SchedNeverRevived == Spec => NeverRevived
<1>1. ASSUME CInv, [Next]_vars, NEW u \in Threads, ustate[u] = "DONE"
      PROVE  ustate'[u] = "DONE" /\ Places(u)' \subseteq Places(u)
  <2>1. Typed /\ u # Nil
    BY <1>1, SchedAssumption DEF CInv, IInv
  <2>2. \A k \in Kthreads : u \notin runq[k] /\ u # obj[k]
    BY <1>1, DoneNowhereElse
  <2> USE <1>1, <2>1, <2>2 DEF Typed
  <2> DEFINE G == /\ ustate'[u] = "DONE"
                  /\ \A k \in Kthreads :
                       /\ u \notin runq'[k] /\ u # obj'[k]
                       /\ u = cur'[k] => u = cur[k]
  <2>3. ASSUME Silent \/ Quits PROVE G
    BY <2>3 DEF Silent, Quits
  <2>4. ASSUME NEW k \in Kthreads, NEW v \in Uthreads, NEW j \in Kthreads,
               Spawns(k, v, j)
        PROVE  G
    <3>1. v # u
      BY <2>4 DEF Spawns
    <3> QED BY <2>4, <3>1 DEF Spawns
  <2>5. ASSUME NEW k \in Kthreads, Queues(k) PROVE G
    BY <2>5 DEF Queues
  <2>6. ASSUME NEW k \in Kthreads, Drops(k) PROVE G
    BY <2>6 DEF Drops
  <2>7. ASSUME NEW k \in Kthreads, PutsBack(k) PROVE G
    <3>1. cur[k] # u
      BY <2>7 DEF PutsBack
    <3> QED BY <2>7, <3>1 DEF PutsBack
  <2>8. ASSUME NEW k \in Kthreads, NEW s \in States, Becomes(k, s) PROVE G
    <3>1. cur[k] # u
      BY <2>8 DEF Becomes
    <3> QED BY <2>8, <3>1 DEF Becomes
  <2>9. ASSUME NEW k \in Kthreads, NEW v \in Threads, Takes(k, v) PROVE G
    <3>1. v # u
      BY <2>9 DEF Takes
    <3> QED BY <2>9, <3>1 DEF Takes
  <2>10. G
    <3>1. Forms
      BY StepForms
    <3> HIDE DEF G
    <3> QED BY <2>3, <2>4, <2>5, <2>6, <2>7, <2>8, <2>9, <3>1 DEF Forms
  <2> QED BY <2>10 DEF Places
<1>2. CInv /\ [Next]_vars =>
        [\A u \in Threads : ustate[u] = "DONE" =>
           ustate'[u] = "DONE" /\ Places(u)' \subseteq Places(u)]_vars
  BY <1>1
<1> QED BY <1>2, SchedContextInvariant, PTL DEF Spec, NeverRevived

-----------------------------------------------------------------------------
(* The pool that the refinement mapping of GtSched shows.                  *)
InTransit(k) == {obj[j] : j \in {i \in Kthreads : tgt[i] = k /\ obj[i] # Nil}}
Ready == [k \in Kthreads |-> runq[k] \cup InTransit(k)]
Running == [k \in Kthreads |-> IF cur[k] = Nil THEN Nil
                               ELSE IF ustate[cur[k]] = "DONE" THEN Nil ELSE cur[k]]
Done == {u \in Threads : ustate[u] = "DONE"}

LEMMA InitPool == Init => Pool!PoolInit
<1> SUFFICES ASSUME Init PROVE Pool!PoolInit OBVIOUS
<1>1. Master \in Threads /\ Master # Nil
  BY SchedAssumption DEF Threads
<1>2. Ready = [k \in Kthreads |-> {}]
  <2>1. \A k \in Kthreads : InTransit(k) = {} /\ runq[k] = {}
    BY DEF Init, InTransit
  <2> QED BY <2>1 DEF Ready
<1>3. Running = [k \in Kthreads |-> IF k = MainK THEN Master ELSE Nil]
  BY <1>1 DEF Init, Running
<1>4. Done = {} /\ (pc[MainK] = "ended") = FALSE
  BY SchedAssumption DEF Init, Done
<1> QED BY <1>2, <1>3, <1>4 DEF Pool!PoolInit, Ready, Running, Done, InTransit

(* Who is ready on k, and whom k runs.                                     *)
Waits(x, k) == \/ x \in runq[k]
               \/ \E j \in Kthreads : tgt[j] = k /\ obj[j] # Nil /\ x = obj[j]
LEMMA ReadyIs == \A k \in Kthreads : \A x : x \in Ready[k] <=> Waits(x, k)
  BY DEF Ready, InTransit, Waits

LEMMA SameReady ==
  ASSUME \A k \in Kthreads : \A x : Waits(x, k)' <=> Waits(x, k)
  PROVE  Ready' = Ready
<1>1. \A k \in Kthreads : runq'[k] \cup InTransit(k)' = runq[k] \cup InTransit(k)
  BY DEF InTransit, Waits
<1> QED BY <1>1 DEF Ready

LEMMA SameRunning ==
  ASSUME \A k \in Kthreads : Running'[k] = Running[k] PROVE Running' = Running
  BY DEF Running

(* Every step of the scheduler is a step of the pool, or none.             *)
LEMMA NextPool == CInv /\ [Next]_vars =>
  \/ UNCHANGED <<Ready, Running, Done, Returns>>
  \/ Pool!PoolNext
<1> SUFFICES ASSUME CInv, [Next]_vars
             PROVE  \/ UNCHANGED <<Ready, Running, Done, Returns>>
                    \/ Pool!PoolNext
  OBVIOUS
<1> DEFINE G == \/ UNCHANGED <<Ready, Running, Done, Returns>>
                \/ Pool!PoolNext
<1>0. /\ Typed /\ PlaceInv /\ ReadyInv
      /\ Nil \notin Threads
  BY SchedAssumption DEF CInv, IInv
<1>1. /\ cur \in [Kthreads -> Threads \cup {Nil}]
      /\ obj \in [Kthreads -> Threads \cup {Nil}]
      /\ tgt \in [Kthreads -> Kthreads]
      /\ runq \in [Kthreads -> SUBSET Threads]
      /\ ustate \in [Threads -> States]
  BY <1>0 DEF Typed
<1>2. ASSUME UNCHANGED <<runq, obj, tgt>> PROVE Ready' = Ready
  BY <1>2, SameReady DEF Waits
<1>3. ASSUME UNCHANGED <<cur, ustate>> PROVE Running' = Running /\ Done' = Done
  BY <1>3 DEF Running, Done
<1>4. ASSUME Silent PROVE G
  BY <1>2, <1>3, <1>4 DEF Silent, StaysIn
(* The wait of gtthread_app_exit is over.                                  *)
<1>5. ASSUME Quits PROVE G
  <2>1. \A u \in Threads : ~Placed(u)
    BY <1>5, CountZero DEF Quits, CInv, IInv, LiveSet
  <2>2. \A k \in Kthreads : runq[k] = {} /\ cur[k] = Nil /\ obj[k] = Nil
    BY <1>1, <2>1 DEF Placed
  <2>3. \A k \in Kthreads : Ready[k] = {} /\ Running[k] = Nil
    BY <2>2 DEF Ready, InTransit, Running
  <2>4. Ready' = Ready /\ Running' = Running /\ Done' = Done
    BY <1>2, <1>3, <1>5 DEF Quits
  <2>5. Returns' = TRUE
    BY <1>5 DEF Quits, Returns
  <2>6. Pool!Alive = {}
    BY <2>3 DEF Pool!Alive, Ready, InTransit, Running
  <2> QED BY <2>4, <2>5, <2>6
    DEF Pool!PoolNext, Pool!Return, Ready, InTransit, Running, Done, Returns
<1>6. ASSUME NEW k \in Kthreads, Queues(k) PROVE G
  <2>1. /\ runq' = [runq EXCEPT ![tgt[k]] = @ \cup {obj[k]}]
        /\ obj' = [obj EXCEPT ![k] = Nil] /\ tgt' = tgt /\ obj[k] # Nil
    BY <1>6 DEF Queues
  <2>2. ASSUME NEW i \in Kthreads, NEW x PROVE Waits(x, i)' <=> Waits(x, i)
    <3>1. \A j \in Kthreads : j # k => obj'[j] = obj[j]
      BY <1>1, <2>1
    <3>2. obj'[k] = Nil /\ tgt[k] \in Kthreads
      BY <1>1, <2>1
    <3>3. x \in runq'[i] <=> x \in runq[i] \/ (i = tgt[k] /\ x = obj[k])
      BY <1>1, <2>1
    <3> QED BY <2>1, <3>1, <3>2, <3>3 DEF Waits
  <2>3. Ready' = Ready
    BY <2>2, SameReady
  <2> QED BY <1>3, <1>6, <2>3 DEF Queues, StaysIn
<1>7. ASSUME NEW k \in Kthreads, Drops(k) PROVE G
  <2>1. \A i \in Kthreads : Running'[i] = Running[i]
    BY <1>1, <1>7 DEF Drops, Running
  <2>2. Done' = Done
    BY <1>7 DEF Drops, Done
  <2> QED BY <1>2, <1>7, <2>1, <2>2, SameRunning DEF Drops, StaysIn
<1>8. ASSUME NEW k \in Kthreads, NEW s \in States, Becomes(k, s), s # "DONE"
      PROVE  G
  <2>1. /\ cur[k] \in Threads /\ ustate[cur[k]] # "DONE"
        /\ ustate' = [ustate EXCEPT ![cur[k]] = s] /\ cur' = cur
    BY <1>1, <1>8 DEF Becomes
  <2>2. \A u \in Threads : ustate'[u] = "DONE" <=> ustate[u] = "DONE"
    BY <1>1, <1>8, <2>1
  <2>3. \A i \in Kthreads : Running'[i] = Running[i]
    BY <1>1, <2>1, <2>2 DEF Running
  <2>4. Done' = Done
    BY <2>2 DEF Done
  <2> QED BY <1>2, <1>8, <2>3, <2>4, SameRunning DEF Becomes, StaysIn
(* A uthread completes.                                                    *)
<1>9. ASSUME NEW k \in Kthreads, Becomes(k, "DONE") PROVE G
  <2>1. /\ cur[k] \in Threads /\ cur[k] # Nil /\ ustate[cur[k]] # "DONE"
        /\ ustate' = [ustate EXCEPT ![cur[k]] = "DONE"] /\ cur' = cur
    BY <1>1, <1>9 DEF Becomes
  <2>2. Ready' = Ready /\ Returns' = Returns
    BY <1>2, <1>9 DEF Becomes, StaysIn
  <2>3. Running[k] = cur[k]
    BY <2>1 DEF Running
  <2>4. Running' = [Running EXCEPT ![k] = Nil]
    <3>1. \A i \in Kthreads : i # k /\ cur[i] # Nil => ustate'[cur[i]] = ustate[cur[i]]
      BY <1>0, <1>1, <2>1 DEF PlaceInv
    <3>2. Running'[k] = Nil
      BY <1>1, <2>1 DEF Running
    <3>3. \A i \in Kthreads : i # k => Running'[i] = Running[i]
      BY <2>1, <3>1 DEF Running
    <3> QED BY <3>2, <3>3 DEF Running
  <2>5. Done' = Done \cup {cur[k]}
    BY <1>1, <2>1 DEF Done
  <2>6. Pool!Complete(k)
    BY <2>1, <2>2, <2>3, <2>4, <2>5
    DEF Pool!Complete, Ready, InTransit, Running, Done, Returns
  <2> QED BY <2>6 DEF Pool!PoolNext
(* A uthread is created for j.                                             *)
<1>10. ASSUME NEW k \in Kthreads, NEW u \in Uthreads, NEW j \in Kthreads,
              Spawns(k, u, j)
       PROVE  G
  <2>1. /\ u \in Threads /\ u # Nil /\ ustate[u] = "NONE" /\ obj[k] = Nil
        /\ ustate' = [ustate EXCEPT ![u] = "INIT"]
        /\ obj' = [obj EXCEPT ![k] = u]
        /\ tgt' = [tgt EXCEPT ![k] = j]
        /\ runq' = runq /\ cur' = cur
    BY <1>0, <1>10 DEF Spawns
  <2>2. \A i \in Kthreads : u \notin runq[i] /\ u # cur[i] /\ u # obj[i]
    BY <1>0, <2>1 DEF PlaceInv, Placed
  <2>3. Done' = Done /\ u \notin Done
    BY <1>1, <2>1 DEF Done
  <2>4. \A i \in Kthreads : Running'[i] = Running[i]
    BY <1>1, <2>1, <2>2 DEF Running
  <2>5. ASSUME NEW i \in Kthreads, NEW x
        PROVE  Waits(x, i)' <=> Waits(x, i) \/ (i = j /\ x = u)
    <3>1. \A l \in Kthreads : l # k => obj'[l] = obj[l] /\ tgt'[l] = tgt[l]
      BY <1>1, <2>1
    <3>2. obj'[k] = u /\ tgt'[k] = j
      BY <1>1, <2>1
    <3> QED BY <2>1, <3>1, <3>2 DEF Waits
  <2>6. Ready' = [Ready EXCEPT ![j] = @ \cup {u}]
    <3>1. ASSUME NEW i \in Kthreads, NEW x
          PROVE  x \in Ready'[i] <=> x \in Ready[i] \/ (i = j /\ x = u)
      <4>1. (x \in Ready[i] <=> Waits(x, i))'
        BY DEF Ready, InTransit, Waits
      <4> QED BY <2>5, <4>1, ReadyIs
    <3>2. \A i \in Kthreads :
            runq'[i] \cup InTransit(i)' = IF i = j THEN Ready[i] \cup {u} ELSE Ready[i]
      BY <3>1 DEF Ready
    <3> QED BY <3>2 DEF Ready
  <2>7. u \notin Pool!Alive \cup Done
    <3>1. \A i \in Kthreads : u \notin Ready[i]
      BY <2>1, <2>2, ReadyIs DEF Waits
    <3>2. \A i \in Kthreads : u # Running[i]
      BY <2>1, <2>2 DEF Running
    <3> DEFINE A == UNION {Ready[i] : i \in Kthreads}
    <3> DEFINE B == {Running[i] : i \in Kthreads}
    <3>3. Pool!Alive = A \cup (B \ {Nil})
      BY DEF Pool!Alive, Ready, InTransit, Running
    <3>4. u \notin A
      BY <3>1
    <3>5. u \notin B
      BY <3>2
    <3> HIDE DEF A, B
    <3>6. u \notin Pool!Alive
      BY <3>3, <3>4, <3>5
    <3> QED BY <2>3, <3>6
  <2>8. Returns' = Returns
    BY <1>10 DEF Spawns, StaysIn
  <2>9. Pool!Spawn(u, j)
    BY <2>3, <2>4, <2>6, <2>7, <2>8, SameRunning
    DEF Pool!Spawn, Ready, InTransit, Running, Done, Returns
  <2> QED BY <2>1, <2>9 DEF Pool!PoolNext
(* A uthread is preempted or yields.                                       *)
<1>11. ASSUME NEW k \in Kthreads, PutsBack(k) PROVE G
  <2> DEFINE u == cur[k]
  <2>1. /\ u \in Threads /\ u # Nil /\ ustate[u] # "DONE" /\ obj[k] = Nil
        /\ ustate' = [ustate EXCEPT ![u] = "RUNNABLE"]
        /\ obj' = [obj EXCEPT ![k] = u]
        /\ tgt' = [tgt EXCEPT ![k] = k]
        /\ cur' = [cur EXCEPT ![k] = Nil]
        /\ runq' = runq
    BY <1>1, <1>11 DEF PutsBack
  <2>2. Running[k] = u
    BY <2>1 DEF Running
  <2>3. \A v \in Threads : ustate'[v] = "DONE" <=> ustate[v] = "DONE"
    BY <1>1, <2>1
  <2>4. Done' = Done
    BY <2>3 DEF Done
  <2>5. Running' = [Running EXCEPT ![k] = Nil]
    <3>1. \A i \in Kthreads : i # k => cur'[i] = cur[i]
      BY <1>1, <2>1
    <3>2. \A i \in Kthreads : i # k => Running'[i] = Running[i]
      BY <1>1, <2>3, <3>1 DEF Running
    <3>3. Running'[k] = Nil
      BY <1>1, <2>1 DEF Running
    <3> QED BY <3>2, <3>3 DEF Running
  <2> HIDE DEF u
  <2>6. ASSUME NEW i \in Kthreads, NEW x
        PROVE  Waits(x, i)' <=> Waits(x, i) \/ (i = k /\ x = u)
    <3>1. \A l \in Kthreads : l # k => obj'[l] = obj[l] /\ tgt'[l] = tgt[l]
      BY <1>1, <2>1
    <3>2. obj'[k] = u /\ tgt'[k] = k
      BY <1>1, <2>1
    <3> QED BY <2>1, <3>1, <3>2 DEF Waits
  <2>7. Ready' = [Ready EXCEPT ![k] = @ \cup {u}]
    <3>1. ASSUME NEW i \in Kthreads, NEW x
          PROVE  x \in Ready'[i] <=> x \in Ready[i] \/ (i = k /\ x = u)
      <4>1. (x \in Ready[i] <=> Waits(x, i))'
        BY DEF Ready, InTransit, Waits
      <4> QED BY <2>6, <4>1, ReadyIs
    <3>2. \A i \in Kthreads :
            runq'[i] \cup InTransit(i)' = IF i = k THEN Ready[i] \cup {u} ELSE Ready[i]
      BY <3>1 DEF Ready
    <3> QED BY <3>2 DEF Ready
  <2>8. Returns' = Returns
    BY <1>11 DEF PutsBack, StaysIn
  <2>9. Pool!Stop(k)
    BY <2>1, <2>2, <2>4, <2>5, <2>7, <2>8
    DEF Pool!Stop, Ready, InTransit, Running, Done, Returns
  <2> QED BY <2>9 DEF Pool!PoolNext
(* A uthread is dispatched.                                                *)
<1>12. ASSUME NEW k \in Kthreads, NEW u \in Threads, Takes(k, u) PROVE G
  <2>1. /\ cur[k] = Nil /\ u \in runq[k] /\ u # Nil
        /\ runq' = [runq EXCEPT ![k] = @ \ {u}]
        /\ cur' = [cur EXCEPT ![k] = u]
        /\ obj' = obj /\ tgt' = tgt /\ ustate' = ustate
    BY <1>0, <1>12 DEF Takes
  <2>2. ustate[u] # "DONE"
    BY <1>0, <2>1 DEF ReadyInv, Resumable
  <2>3. \A i \in Kthreads : u # obj[i]
    BY <1>0, <2>1 DEF PlaceInv
  <2>4. Running[k] = Nil /\ Done' = Done
    BY <2>1 DEF Running, Done
  <2>5. Running' = [Running EXCEPT ![k] = u]
    <3>1. Running'[k] = u
      BY <1>1, <2>1, <2>2 DEF Running
    <3>2. \A i \in Kthreads : i # k => Running'[i] = Running[i]
      BY <1>1, <2>1 DEF Running
    <3> QED BY <3>1, <3>2 DEF Running
  <2>6. ASSUME NEW i \in Kthreads, NEW x
        PROVE  Waits(x, i)' <=> Waits(x, i) /\ ~(i = k /\ x = u)
    <3>1. x \in runq'[i] <=> x \in runq[i] /\ ~(i = k /\ x = u)
      BY <1>1, <2>1
    <3> QED BY <2>1, <2>3, <3>1 DEF Waits
  <2>7. Ready' = [Ready EXCEPT ![k] = @ \ {u}]
    <3>1. ASSUME NEW i \in Kthreads, NEW x
          PROVE  x \in Ready'[i] <=> x \in Ready[i] /\ ~(i = k /\ x = u)
      <4>1. (x \in Ready[i] <=> Waits(x, i))'
        BY DEF Ready, InTransit, Waits
      <4> QED BY <2>6, <4>1, ReadyIs
    <3>2. \A i \in Kthreads :
            runq'[i] \cup InTransit(i)' = IF i = k THEN Ready[i] \ {u} ELSE Ready[i]
      BY <3>1 DEF Ready
    <3> QED BY <3>2 DEF Ready
  <2>8. u \in Ready[k]
    BY <2>1, ReadyIs DEF Waits
  <2>9. Returns' = Returns
    BY <1>12 DEF Takes, StaysIn
  <2>10. Pool!Start(u, k)
    BY <2>4, <2>5, <2>7, <2>8, <2>9
    DEF Pool!Start, Ready, InTransit, Running, Done, Returns
  <2> QED BY <2>10 DEF Pool!PoolNext
<1>13. Forms
  BY StepForms
<1> HIDE DEF G
<1>14. G
  BY <1>4, <1>5, <1>6, <1>7, <1>8, <1>9, <1>10, <1>11, <1>12, <1>13 DEF Forms
<1> QED BY <1>14 DEF G

(* The scheduler implements the pool of uthreads.                          *)
THEOREM SchedImplementsPool == Spec => PoolImplemented
<1>1. CInv /\ [Next]_vars => [Pool!PoolNext]_(Pool!poolVars)
  BY NextPool DEF Pool!poolVars, Ready, InTransit, Running, Done, Returns
<1> QED
  BY <1>1, InitPool, SchedContextInvariant, PTL
  DEF Spec, PoolImplemented, Pool!PoolSpec
=============================================================================
