-------------------------- MODULE MCCfsAccounting --------------------------
(* CfsAccounting for TLC: all uthreads but main()'s are alike. *)
EXTENDS CfsAccounting, TLC

MCOthers == Permutations(Uthreads \ {Main})
=============================================================================
