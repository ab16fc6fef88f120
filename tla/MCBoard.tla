------------------------------ MODULE MCBoard -------------------------------
(* The board for TLC: three pieces, two fingers, an upright and a wide      *)
(* window.                                                                 *)
EXTENDS Board, TLC

Symmetry == Permutations(Piece) \cup Permutations(Finger)
=============================================================================
