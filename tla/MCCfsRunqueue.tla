--------------------------- MODULE MCCfsRunqueue ---------------------------
(***************************************************************************)
(* CfsRunqueue for TLC: uthreads are numbers.  A few of them come and go   *)
(* with vruntimes that tie and change, always the best first; or many with *)
(* vruntimes of their own, which may also leave by name, make and unmake   *)
(* every shape of tree.                                                    *)
(***************************************************************************)
EXTENDS CfsRunqueue

VARIABLE crowd        \* "few" or "many", for the whole behaviour

MCFew == 1..4
MCMany == 5..14
MCUthreads == MCFew \cup MCMany
MCVruntimeOf == [u \in MCUthreads |-> IF u \in MCFew THEN 1..3 \cup {u} ELSE {u}]
MCAsked == {2, 3, 4, 7, 12}

(* Init, with the vruntimes of uthreads that take part. *)
MCInit ==
  /\ tree = EmptyTree
  /\ node = [u \in Uthreads |-> NIL]
  /\ min = Nil /\ numThreads = 0
  /\ \/ crowd = "many" /\ vruntime = [u \in Uthreads |-> u]
     \/ /\ crowd = "few"
        /\ \E v \in [MCFew -> UNION {VruntimeOf[u] : u \in MCFew}] :
             vruntime = [u \in Uthreads |-> IF u \in MCFew THEN v[u] ELSE u]
        /\ \A u \in MCFew : vruntime[u] \in VruntimeOf[u]

(* Every tree that adding and removing the uthreads of AnyOrder in any     *)
(* order can make.  Further ones are only added behind a full house, which *)
(* makes most of the tree black, so that removals, in any order, have to   *)
(* climb when they restore the rules.                                      *)
AnyOrder == 5..11
Crowd == IF crowd = "few" THEN MCFew ELSE MCMany
Present == {u \in Crowd : Queued(u)}
MayCome(u) == \/ crowd = "few" \/ Present \cup {u} \subseteq AnyOrder
              \/ u \notin AnyOrder /\ Present = 5..(u - 1)

(* Next, for those that take part. *)
MCNext ==
  /\ \/ RemoveBest
     \/ \E u \in Crowd :
          \/ MayCome(u) /\ Add(u)
          \/ RemoveByName(u)
          \/ crowd = "few" /\ Charge(u)
  /\ UNCHANGED crowd
MCSpec == MCInit /\ [][MCNext]_<<vars, crowd>>
=============================================================================
