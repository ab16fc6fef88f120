------------------------------ MODULE MCSlicer -------------------------------
(* Slicer for TLC: an image cut into whole pixels or not, one that is only  *)
(* as wide as there are columns, and one so long that scaling leaves it no  *)
(* width at all; grids with every neighbourhood of a cell, and an empty one. *)
EXTENDS Slicer

MCImages == {<<6, 4>>, <<5, 5>>, <<3, 6>>, <<1, 9>>}
MCGrids == {<<2, 2>>, <<3, 2>>, <<1, 3>>, <<0, 2>>}
=============================================================================
