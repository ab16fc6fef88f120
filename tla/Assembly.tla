------------------------------ MODULE Assembly ------------------------------
(***************************************************************************)
(* What a game screen promises about one game: pieces stick one at a time, *)
(* each once, and stay until all of them do.  Module Board shows that the  *)
(* drag-and-drop code keeps the promise; module Play builds on it.         *)
(***************************************************************************)
CONSTANT Piece   \* the pieces of the puzzle

VARIABLE placed  \* the pieces that stick to the board

Solved == placed = Piece

NothingPlaced == placed = {}

PlacePiece(p) ==
    /\ p \notin placed
    /\ placed' = placed \cup {p}

AssemblySpec == NothingPlaced /\ [][\E p \in Piece : PlacePiece(p)]_placed

=============================================================================
