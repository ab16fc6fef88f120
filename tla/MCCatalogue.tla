---------------------------- MODULE MCCatalogue -----------------------------
(* Catalogue for TLC: three requests that overlap over the rows of one      *)
(* puzzle, and a category that comes and goes.  Requests are alike.        *)
EXTENDS Catalogue, TLC

Symmetry == Permutations(Request)

=============================================================================
