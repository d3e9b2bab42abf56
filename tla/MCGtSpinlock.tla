---------------------------- MODULE MCGtSpinlock ----------------------------
(* GtSpinlock with four kthreads, for TLC. *)
EXTENDS GtSpinlock
CONSTANTS k0, k1, k2, k3
MCKthreads == {k0, k1, k2, k3}
=============================================================================
