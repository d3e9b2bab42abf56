---------------------------- MODULE UthreadInit ----------------------------
(***************************************************************************)
(* How a new uthread gets its stack and its first context: uthread_init    *)
(* sends its own kthread a SIGUSR2 whose handler, uthread_context_func,    *)
(* saves where it is, on the alternate stack that is the uthread's.  Each  *)
(* kthread is a process with its own signal mask and alternate stack; the  *)
(* table of signal handlers is one for all of them (CLONE_SIGHAND), and    *)
(* uthread_init changes it and changes it back under uthread_init_lock.    *)
(* A SIGUSR2 without a handler kills the kthread it is sent to.            *)
(***************************************************************************)
EXTENDS FiniteSets

CONSTANTS
  Kthreads,
  Uthreads,     \* the uthreads that are started, each on one kthread
  Own,          \* the stack a kthread was created with
  Nil           \* no uthread, no stack, no context

ASSUME NamesAssumption ==
  Own \notin Uthreads /\ Nil \notin Uthreads \cup Kthreads \cup {Own}

VARIABLES
  handler,      \* "default" or "context", what a SIGUSR2 does
  oldact,       \* [Kthreads -> ...] the handler that was there before
  initLock,     \* uthread_init_lock: a kthread or Nil
  pc,           \* [Kthreads -> Places]
  new,          \* [Kthreads -> Uthreads \cup {Nil}] u_new
  stack,        \* [Kthreads -> Uthreads \cup {Own}] the stack it runs on
  altstack,     \* [Kthreads -> Uthreads \cup {Nil}] the alternate stack
  oldstack,     \* [Kthreads -> Uthreads \cup {Nil}]
  blocked,      \* [Kthreads -> BOOLEAN] SIGUSR2 is in the mask
  env,          \* [Uthreads -> ...] the stack its saved context is on
  home          \* [Uthreads -> Kthreads \cup {Nil}] where it was started

vars == <<handler, oldact, initLock, pc, new, stack, altstack, oldstack,
          blocked, env, home>>

Places == {"run", "lock", "sigaction", "sigaltstack", "unblock", "tkill",
           "block", "revert", "restore", "unlock", "failed", "killed"}

Init ==
  /\ handler = "default"
  /\ oldact = [k \in Kthreads |-> "default"]
  /\ initLock = Nil
  /\ pc = [k \in Kthreads |-> "run"]
  /\ new = [k \in Kthreads |-> Nil]
  /\ stack = [k \in Kthreads |-> Own]
  /\ altstack = [k \in Kthreads |-> Nil]
  /\ oldstack = [k \in Kthreads |-> Nil]
  /\ blocked \in [Kthreads -> BOOLEAN]
  /\ env = [u \in Uthreads |-> Nil]
  /\ home = [u \in Uthreads |-> Nil]

At(k, place) == pc[k] = place
Goto(k, place) == pc' = [pc EXCEPT ![k] = place]

(* uthread_schedule of kthread k has picked u, which is new. *)
Start(k, u) ==
  /\ At(k, "run") /\ home[u] = Nil
  /\ home' = [home EXCEPT ![u] = k]
  /\ new' = [new EXCEPT ![k] = u]
  /\ Goto(k, "lock")
  /\ UNCHANGED <<handler, oldact, initLock, stack, altstack, oldstack,
                 blocked, env>>

(* It has picked one that was started before. *)
Resume(k, u) ==
  /\ At(k, "run") /\ home[u] = k /\ stack[k] # u
  /\ stack' = [stack EXCEPT ![k] = env[u]]
  /\ UNCHANGED <<handler, oldact, initLock, pc, new, altstack, oldstack,
                 blocked, env, home>>

(* gt_spin_lock(&uthread_init_lock).  (Mutant: without.) *)
Anyway == TRUE
Unlocked == initLock = Nil
Lock(k) ==
  /\ At(k, "lock") /\ Unlocked
  /\ initLock' = k
  /\ Goto(k, "sigaction")
  /\ UNCHANGED <<handler, oldact, new, stack, altstack, oldstack, blocked,
                 env, home>>

(* sigaction(SIGUSR2, &act, &oldact).  Nobody sets the sa_mask of act: it  *)
(* blocks what it will while the handler runs, and nothing below depends   *)
(* on it.                                                                  *)
Sigaction(k) ==
  /\ At(k, "sigaction")
  /\ oldact' = [oldact EXCEPT ![k] = handler]
  /\ handler' = "context"
  /\ Goto(k, "sigaltstack")
  /\ UNCHANGED <<initLock, new, stack, altstack, oldstack, blocked, env, home>>

(* sigaltstack(&u_new->uthread_stack, &oldstack), which the kernel refuses *)
(* to a process that runs on its alternate stack.  uthread_init then       *)
(* returns -1, with the lock, and uthread_schedule exits.                  *)
Sigaltstack(k) ==
  /\ At(k, "sigaltstack")
  /\ IF stack[k] = altstack[k]
     THEN Goto(k, "failed") /\ UNCHANGED <<altstack, oldstack>>
     ELSE /\ oldstack' = [oldstack EXCEPT ![k] = altstack[k]]
          /\ altstack' = [altstack EXCEPT ![k] = new[k]]
          /\ Goto(k, "unblock")
  /\ UNCHANGED <<handler, oldact, initLock, new, stack, blocked, env, home>>

Unblock(k) ==
  /\ At(k, "unblock")
  /\ blocked' = [blocked EXCEPT ![k] = FALSE]
  /\ Goto(k, "tkill")
  /\ UNCHANGED <<handler, oldact, initLock, new, stack, altstack, oldstack,
                 env, home>>

(* tkill(k, SIGUSR2), which returns when the handler has: the sigsetjmp of *)
(* uthread_context_func is made on the alternate stack.  (Mutant: without  *)
(* SA_ONSTACK, on the stack that was in use.)                              *)
CallersStack(k) == stack[k]
HandlerStack(k) == altstack[k]
Tkill(k) ==
  /\ At(k, "tkill")
  /\ \/ /\ blocked[k]
        /\ Goto(k, "block") /\ UNCHANGED env
     \/ /\ ~blocked[k] /\ handler = "context"
        /\ env' = [env EXCEPT ![new[k]] = HandlerStack(k)]
        /\ Goto(k, "block")
     \/ /\ ~blocked[k] /\ handler = "default"
        /\ Goto(k, "killed") /\ UNCHANGED env
  /\ UNCHANGED <<handler, oldact, initLock, new, stack, altstack, oldstack,
                 blocked, home>>

Block(k) ==
  /\ At(k, "block")
  /\ blocked' = [blocked EXCEPT ![k] = TRUE]
  /\ Goto(k, "revert")
  /\ UNCHANGED <<handler, oldact, initLock, new, stack, altstack, oldstack,
                 env, home>>

(* sigaction(SIGUSR2, &oldact, NULL).  (Mutant: to its own handler.) *)
Again(k) == "context"
Before(k) == oldact[k]
Revert(k) ==
  /\ At(k, "revert")
  /\ handler' = Before(k)
  /\ Goto(k, "restore")
  /\ UNCHANGED <<oldact, initLock, new, stack, altstack, oldstack, blocked,
                 env, home>>

(* sigaltstack(&oldstack, NULL).  (Mutant: forgotten.) *)
NotRestored(k) == altstack[k]
Restored(k) == oldstack[k]
Restore(k) ==
  /\ At(k, "restore")
  /\ altstack' = [altstack EXCEPT ![k] = Restored(k)]
  /\ Goto(k, "unlock")
  /\ UNCHANGED <<handler, oldact, initLock, new, stack, oldstack, blocked,
                 env, home>>

(* gt_spin_unlock, and uthread_schedule jumps into the new uthread. *)
Unlock(k) ==
  /\ At(k, "unlock")
  /\ initLock' = Nil
  /\ stack' = [stack EXCEPT ![k] = env[new[k]]]
  /\ new' = [new EXCEPT ![k] = Nil]
  /\ Goto(k, "run")
  /\ UNCHANGED <<handler, oldact, altstack, oldstack, blocked, env, home>>

Step(k) ==
  \/ Lock(k) \/ Sigaction(k) \/ Sigaltstack(k) \/ Unblock(k) \/ Tkill(k)
  \/ Block(k) \/ Revert(k) \/ Restore(k) \/ Unlock(k)
Next == \E k \in Kthreads :
  Step(k) \/ \E u \in Uthreads : Start(k, u) \/ Resume(k, u)
Spec == Init /\ [][Next]_vars

(* A kthread that is in uthread_init goes on, unless it waits for the lock.*)
FairSpec == Spec /\ \A k \in Kthreads : WF_vars(Step(k))

-----------------------------------------------------------------------------
TypeOK ==
  /\ handler \in {"default", "context"}
  /\ oldact \in [Kthreads -> {"default", "context"}]
  /\ initLock \in Kthreads \cup {Nil}
  /\ pc \in [Kthreads -> Places]
  /\ new \in [Kthreads -> Uthreads \cup {Nil}]
  /\ stack \in [Kthreads -> Uthreads \cup {Own}]
  /\ altstack \in [Kthreads -> Uthreads \cup {Nil}]
  /\ oldstack \in [Kthreads -> Uthreads \cup {Nil}]
  /\ blocked \in [Kthreads -> BOOLEAN]
  /\ env \in [Uthreads -> Uthreads \cup {Nil}]
  /\ home \in [Uthreads -> Kthreads \cup {Nil}]

(* The start-up of a uthread kills no kthread and is never refused: when   *)
(* SIGUSR2 is sent the handler another kthread has put in place or taken   *)
(* away is the right one, and no kthread is on its alternate stack when it *)
(* asks for the next.                                                      *)
NobodyDies == \A k \in Kthreads : pc[k] \notin {"failed", "killed"}

(* No two contexts share a stack, a uthread has one before it is run, and  *)
(* a kthread runs on the stack of a uthread it started: two kthreads on    *)
(* one stack would overwrite each other's frames.                          *)
OneStackEach ==
  /\ \A u, w \in Uthreads : env[u] = env[w] /\ env[u] # Nil => u = w
  /\ \A k \in Kthreads : stack[k] \in Uthreads => home[stack[k]] = k
  /\ \A j, k \in Kthreads : stack[j] = stack[k] /\ stack[j] # Own => j = k

(* Outside uthread_init SIGUSR2 is as it was before the library, for all.  *)
HandlerGivenBack == initLock = Nil => handler = "default"

(* A uthread that a kthread has begun to start is running some time later. *)
StartsReturn == \A k \in Kthreads : (pc[k] = "lock") ~> (pc[k] = "run")
=============================================================================
