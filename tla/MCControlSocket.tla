-------------------------- MODULE MCControlSocket --------------------------
(***************************************************************************)
(* Instances of ControlSocket for TLC. Descriptors are model values whose  *)
(* symmetry the safety runs use.                                           *)
(***************************************************************************)
EXTENDS ControlSocket, TLC

MCSymmetry == Permutations(Fd)
=============================================================================
