----------------------------- MODULE YieldRace -----------------------------
(***************************************************************************)
(* One kthread's scheduler over its run queue (CfsRunqueue), while         *)
(* uthread_create on main()'s kthread inserts into that queue, under the   *)
(* lock, store by store.  (The stores reach the other processor in program *)
(* order on x86, and gcc -g keeps that order.)  gt_yield looks for the     *)
(* rightmost uthread without the lock (update_vruntime_to_max).            *)
(*                                                                         *)
(* The variables of CfsRunqueue are what the last holder of the lock left. *)
(***************************************************************************)
EXTENDS CfsRunqueue

CONSTANTS
  Yielders      \* the uthreads that may call gt_yield

(* One past the vruntime of any other uthread is one a yielder may have.   *)
ASSUME YieldAssumption ==
  /\ Yielders \subseteq Uthreads
  /\ \A y \in Yielders : \A u \in Uthreads \ {y} :
       \A v \in VruntimeOf[u] : v + 1 \in VruntimeOf[y]

VARIABLES
  stores,       \* the image now in memory and those still to come, or <<>>
  adding,       \* the uthread whose insertion is under way
  pc,           \* where the kthread is: in uthread code ("run"), in gt_yield
                \* ("look", "top", "down"), at the lock ("add", "pick")
  current,      \* the uthread it runs or last ran
  place,        \* the local variable node of get_rightmost
  rightmost,    \* what get_rightmost answered to current
  waiting       \* the uthreads queued when current called gt_yield

raceVars == <<vars, stores, adding, pc, current, place, rightmost, waiting>>

LockFree == stores = <<>>
Memory == IF LockFree THEN tree ELSE Head(stores)
Members == {u \in Uthreads : Queued(u)}

RaceInit ==
  /\ Init
  /\ stores = <<>> /\ adding = Nil
  /\ pc = "pick" /\ current = Nil
  /\ place = NIL /\ rightmost = Nil /\ waiting = {}

-----------------------------------------------------------------------------
(* uthread_create of u on another kthread: its vruntime, and the lock. *)
Post(u) ==
  /\ LockFree /\ u # current
  /\ Charge(u)
  /\ stores' = RBTreeInsert(<<tree>>, vruntime', u)
  /\ adding' = u
  /\ UNCHANGED <<pc, current, place, rightmost, waiting>>

(* One store of its RBTreeInsert, *)
Store ==
  /\ Len(stores) > 1
  /\ stores' = Tail(stores)
  /\ UNCHANGED <<vars, adding, pc, current, place, rightmost, waiting>>

(* and after the last the rest of add_to_cfs_runqueue; the lock is free. *)
Posted ==
  /\ Len(stores) = 1
  /\ Add(adding)
  /\ stores' = <<>> /\ adding' = Nil
  /\ UNCHANGED <<pc, current, place, rightmost, waiting>>

-----------------------------------------------------------------------------
(* sched_find_best_uthread, and the switch to what it answers. *)
Pick ==
  /\ pc = "pick" /\ LockFree
  /\ RemoveBest
  /\ current' = GetBestThread /\ pc' = "run"
  /\ rightmost' = Nil /\ waiting' = {}
  /\ UNCHANGED <<stores, adding, place>>

(* The uthread is done, *)
Finish ==
  /\ pc = "run"
  /\ pc' = "pick" /\ current' = Nil
  /\ UNCHANGED <<vars, stores, adding, place, rightmost, waiting>>

(* or is preempted and charged, *)
Preempt ==
  /\ pc = "run"
  /\ Charge(current)
  /\ pc' = "add"
  /\ UNCHANGED <<stores, adding, current, place, rightmost, waiting>>

(* or calls gt_yield. *)
Yield ==
  /\ pc = "run" /\ current \in Yielders
  /\ pc' = "look" /\ waiting' = Members
  /\ UNCHANGED <<vars, stores, adding, current, place, rightmost>>

(* get_rightmost, a read at a time: is the tree empty,  (Mutant: it does   *)
(* not ask.)                                                               *)
Unasked == FALSE
Empty == Memory.left[ROOT] = NIL
Look ==
  /\ pc = "look"
  /\ pc' = IF Empty THEN "add" ELSE "top"
  /\ UNCHANGED <<vars, stores, adding, current, place, rightmost, waiting>>

(* its top,                                                                *)
Top ==
  /\ pc = "top"
  /\ place' = Memory.left[ROOT]
  /\ pc' = "down"
  /\ UNCHANGED <<vars, stores, adding, current, rightmost, waiting>>

(* and from there right, as far as it goes.                                *)
Down ==
  /\ pc = "down" /\ Memory.right[place] # NIL
  /\ place' = Memory.right[place]
  /\ UNCHANGED <<vars, stores, adding, pc, current, rightmost, waiting>>

(* The yielder's new vruntime.  (Mutant: it keeps its own.) *)
Unmoved(r) == vruntime[current]
OnePast(r) == vruntime[r] + 1

(* The walk is over.  If it never left tree->nil the answer is NULL, and   *)
(* the vruntime stays.                                                     *)
Answer ==
  /\ pc = "down" /\ Memory.right[place] = NIL
  /\ IF place = NIL
     THEN rightmost' = Nil /\ UNCHANGED vruntime
     ELSE /\ rightmost' = Memory.key[place]
          /\ vruntime' = [vruntime EXCEPT ![current] = OnePast(rightmost')]
  /\ pc' = "add"
  /\ UNCHANGED <<tree, node, min, numThreads, stores, adding, current, place, waiting>>

(* add_to_runqueue of the uthread preempted or yielding; nobody reads      *)
(* without the lock meanwhile.                                             *)
AddCurrent ==
  /\ pc = "add" /\ LockFree
  /\ Add(current)
  /\ pc' = "pick"
  /\ UNCHANGED <<stores, adding, current, place, rightmost, waiting>>

RaceNext ==
  \/ (\E u \in Uthreads : Post(u)) \/ Store \/ Posted
  \/ Pick \/ Finish \/ Preempt \/ Yield
  \/ Look \/ Top \/ Down \/ Answer \/ AddCurrent
RaceSpec == RaceInit /\ [][RaceNext]_raceVars

-----------------------------------------------------------------------------
(* The walk of gt_yield is never at nil, and never at a node that is not   *)
(* the tree's own or the newcomer's, whatever stores it meets half done:   *)
(* so get_rightmost may read the node's key, and ends at a uthread that is *)
(* queued or about to be.                                                  *)
WalkMeetsUthreads ==
  /\ pc = "down" => place \in (Members \cup {adding}) \ {Nil}
  /\ rightmost # Nil => rightmost \in Members \cup {adding}

(* A uthread that yields is not picked again at once when somebody was     *)
(* waiting, or was come across, whatever the walk went through: behind the *)
(* uthread where it ended the yielder goes, and that one is still queued.  *)
YieldsToSomebody ==
  pc = "pick" /\ LockFree /\ (waiting # {} \/ rightmost # Nil) =>
    GetBestThread # current

(* gt_uthread.c:382-384: the vruntime found is the "maximum of all         *)
(* threads", at least of those queued before gt_yield.  Refuted: in the    *)
(* middle of a rotation on the right spine the walk misses its end.        *)
FindsMaximum ==
  rightmost # Nil => \A u \in waiting : vruntime[u] < vruntime[current]
=============================================================================
