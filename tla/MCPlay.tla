------------------------------- MODULE MCPlay -------------------------------
(* A tab for TLC: one puzzle of a piece and without reward layers, and one *)
(* of two pieces and two layers.                                           *)
EXTENDS Play, TLC

CONSTANTS p, q, x, y, z

MCPieces == p :> {x} @@ q :> {y, z}
MCLayers == p :> 0 @@ q :> 2

\* Sound for ReportIsRewarded too: it and each action that is fair, Completed(p)
\* and HandlePlayComplete(p, b), say the same when two children change places.
Symmetry == Permutations(Child)
=============================================================================
