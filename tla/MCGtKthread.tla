----------------------------- MODULE MCGtKthread -----------------------------
(* GtKthread for TLC. *)
EXTENDS GtKthread

CONSTANTS g1, g2
MCTwoGroups == {g1, g2}
=============================================================================
