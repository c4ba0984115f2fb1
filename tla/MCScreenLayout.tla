---------------------------- MODULE MCScreenLayout ----------------------------
(***************************************************************************)
(* ScreenLayout on a screen of a few lines: portrait and landscape, two    *)
(* font sizes, a keyboard that leaves some lines, or none in landscape.    *)
(***************************************************************************)
EXTENDS ScreenLayout, TLC

MCScreen == {<<7, 13>>, <<13, 7>>}
MCLineHeight == (1 :> 2 @@ 2 :> 3)
MCCellWidth == (1 :> 1 @@ 2 :> 2)
MCSymmetry == Permutations(Tab)
=============================================================================
