---------------------------- MODULE MCAuthoring -----------------------------
(* Authoring for TLC: overlapping requests over the same layers.            *)
EXTENDS Authoring, TLC

Symmetry == Permutations(Puzzle) \cup Permutations(Layer) \cup Permutations(Request)

=============================================================================
