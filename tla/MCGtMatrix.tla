----------------------------- MODULE MCGtMatrix -----------------------------
(* GtMatrix for TLC: two matrices of two bands on two kthreads. *)
EXTENDS GtMatrix

CONSTANTS k0, k1
MCKthreads == {k0, k1}
MCSizes == <<2, 4>>
=============================================================================
