---------------------------- MODULE MCTouchGesture ----------------------------
(***************************************************************************)
(* TouchGesture with two addresses for three sessions, so that one is used *)
(* again, two fingers, and positions around the half and the whole line.   *)
(***************************************************************************)
EXTENDS TouchGesture

MCPosX == {0, 3}
MCPosY == {-2, 0, 1}
=============================================================================
