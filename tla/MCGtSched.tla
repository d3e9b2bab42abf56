----------------------------- MODULE MCGtSched -----------------------------
(* GtSched with model values, for TLC. *)
EXTENDS GtSched, TLC

CONSTANTS k0, k1, m, u1, u2

MCKthreads == {k0, k1}
MCAlone == {k0}
MCOneUthread == {u1}
MCTwoUthreads == {u1, u2}
MCMasterOnly == {m}
MCFirstOnly == {u1}
MCNobody == {}
MCMasterAndFirst == {m, u1}
MCMasterAndSecond == {m, u2}
MCOwnSignalOnly == {{}}
MCAnyMask == SUBSET Signals
=============================================================================
