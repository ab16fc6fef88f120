---------------------------- MODULE MCModeration ----------------------------
(* Moderation for TLC: overlapping requests over one puzzle, reviewed up to *)
(* three times.  Puzzles meet only in the list of a notification request,  *)
(* where each item is marked on its own, so one puzzle shows what any of   *)
(* several can go through.                                                 *)
EXTENDS Moderation, TLC

Symmetry == Permutations(Submitter) \cup Permutations(Reader)
=============================================================================
