--------------------------- MODULE MCUthreadInit ---------------------------
(* UthreadInit for TLC: the configuration gives all the values. *)
EXTENDS UthreadInit
=============================================================================
