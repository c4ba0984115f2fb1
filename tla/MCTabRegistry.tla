--------------------------- MODULE MCTabRegistry ---------------------------
(***************************************************************************)
(* The instance of TabRegistry for TLC. Descriptors, pids and ptys are     *)
(* model values; their symmetry is not used, since the run has a liveness  *)
(* property.                                                               *)
(***************************************************************************)
EXTENDS TabRegistry
=============================================================================
