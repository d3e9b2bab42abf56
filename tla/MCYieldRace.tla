---------------------------- MODULE MCYieldRace ----------------------------
(* YieldRace for TLC: one uthread yields, the others are posted in any     *)
(* order, two of them with the same vruntime.                              *)
EXTENDS YieldRace

MCYielders == {0}
MCUthreads == 0..4
MCVruntimeOf == [u \in MCUthreads |->
  IF u \in MCYielders THEN 2..4 ELSE IF u = 3 THEN {2} ELSE IF u = 4 THEN {3} ELSE {u}]
=============================================================================
