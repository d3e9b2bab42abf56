------------------------- MODULE UthreadInitProofs -------------------------
(***************************************************************************)
(* uthread_init is safe for any kthreads and uthreads.  What makes it so   *)
(* is that a kthread past the lock is its only holder (Locked), so that    *)
(* SIGUSR2 has the handler of the library exactly between the two          *)
(* sigactions of that kthread (Handled), and that a kthread has an         *)
(* alternate stack only between its two sigaltstacks (Stacked).            *)
(***************************************************************************)
EXTENDS UthreadInit, TLAPS

InInit(k) == pc[k] \notin {"run", "lock"}
Locked == \A k \in Kthreads : InInit(k) <=> initLock = k

Handling(k) == pc[k] \in {"sigaltstack", "unblock", "tkill", "block", "revert"}
Handled ==
  /\ handler = "context" => \E k \in Kthreads : Handling(k)
  /\ \A k \in Kthreads : Handling(k) =>
       handler = "context" /\ oldact[k] = "default"

Stacked == \A k \in Kthreads :
  IF pc[k] \in {"unblock", "tkill", "block", "revert", "restore"}
  THEN altstack[k] = new[k] /\ oldstack[k] = Nil
  ELSE altstack[k] = Nil

(* Each uthread has a context on its own stack as soon as SIGUSR2 has been *)
(* sent for it, and is one kthread's.                                      *)
Placed ==
  /\ \A u \in Uthreads : env[u] \in {u, Nil} /\ (home[u] = Nil => env[u] = Nil)
  /\ \A u \in Uthreads : home[u] # Nil /\ env[u] = Nil => new[home[u]] = u
  /\ \A k \in Kthreads :
       /\ new[k] = Nil <=> pc[k] = "run"
       /\ new[k] # Nil => home[new[k]] = k
       /\ pc[k] \in {"block", "revert", "restore", "unlock"} =>
            env[new[k]] = new[k]
       /\ stack[k] # Own => home[stack[k]] = k
       /\ pc[k] = "tkill" => ~blocked[k]

Inv == TypeOK /\ Locked /\ Handled /\ Stacked /\ Placed /\ NobodyDies

USE NamesAssumption

(* Nobody has been started and nobody is in uthread_init.                  *)
LEMMA InitInv == Init => Inv
BY DEF Init, Inv, TypeOK, Places, Locked, InInit, Handled, Handling, Stacked,
       Placed, NobodyDies

(* No step of a kthread breaks the invariant for it or for another.        *)
LEMMA NextInv == Inv /\ [Next]_vars => Inv'
<1> SUFFICES ASSUME Inv, [Next]_vars PROVE Inv'
  OBVIOUS
<1> USE DEF Inv, TypeOK, Places, Locked, InInit, Handled, Handling, Stacked,
            Placed, NobodyDies, At, Goto
<1>1. ASSUME NEW k \in Kthreads, NEW u \in Uthreads, Start(k, u) PROVE Inv'
  BY <1>1 DEF Start
<1>2. ASSUME NEW k \in Kthreads, NEW u \in Uthreads, Resume(k, u) PROVE Inv'
  BY <1>2 DEF Resume
<1>3. ASSUME NEW k \in Kthreads, Lock(k) PROVE Inv'
  BY <1>3 DEF Lock, Unlocked
<1>4. ASSUME NEW k \in Kthreads, Sigaction(k) PROVE Inv'
  BY <1>4 DEF Sigaction
<1>5. ASSUME NEW k \in Kthreads, Sigaltstack(k) PROVE Inv'
  BY <1>5 DEF Sigaltstack
<1>6. ASSUME NEW k \in Kthreads, Unblock(k) PROVE Inv'
  BY <1>6 DEF Unblock
<1>7. ASSUME NEW k \in Kthreads, Tkill(k) PROVE Inv'
  BY <1>7 DEF Tkill, HandlerStack
<1>8. ASSUME NEW k \in Kthreads, Block(k) PROVE Inv'
  BY <1>8 DEF Block
<1>9. ASSUME NEW k \in Kthreads, Revert(k) PROVE Inv'
  BY <1>9 DEF Revert, Before
<1>10. ASSUME NEW k \in Kthreads, Restore(k) PROVE Inv'
  BY <1>10 DEF Restore, Restored
<1>11. ASSUME NEW k \in Kthreads, Unlock(k) PROVE Inv'
  BY <1>11 DEF Unlock
<1>12. CASE UNCHANGED vars
  BY <1>12 DEF vars
<1> QED
  BY <1>1, <1>2, <1>3, <1>4, <1>5, <1>6, <1>7, <1>8, <1>9, <1>10, <1>11, <1>12
  DEF Next, Step

(* The invariant holds in every state.                                     *)
LEMMA Invariance == Spec => []Inv
BY InitInv, NextInv, PTL DEF Spec

(* Every variable of the start-up of uthreads keeps its type.              *)
THEOREM StartTypeOK == Spec => []TypeOK
BY Invariance, PTL DEF Inv

(* No kthread is killed by a SIGUSR2 without its handler or refused an     *)
(* alternate stack, whatever the others do between the system calls of     *)
(* uthread_init.                                                           *)
THEOREM StartKillsNobody == Spec => []NobodyDies
BY Invariance, PTL DEF Inv

(* Every uthread gets a stack of its own and is run by one kthread.        *)
THEOREM StartGivesOneStackEach == Spec => []OneStackEach
<1>1. Inv => OneStackEach
  BY DEF Inv, TypeOK, Placed, OneStackEach
<1> QED
  BY <1>1, Invariance, PTL

(* When nobody is in uthread_init a SIGUSR2 does what it did before.       *)
THEOREM StartGivesHandlerBack == Spec => []HandlerGivenBack
<1>1. Inv => HandlerGivenBack
  BY DEF Inv, TypeOK, Locked, InInit, Handled, Handling, HandlerGivenBack
<1> QED
  BY <1>1, Invariance, PTL
=============================================================================
