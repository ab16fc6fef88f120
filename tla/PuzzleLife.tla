----------------------------- MODULE PuzzleLife -----------------------------
(***************************************************************************)
(* What the rest of the system relies on about a puzzle between its upload *)
(* and its removal: pieces come before the status that lets it be played,  *)
(* they never go before the puzzle does, and a removed puzzle stays away.  *)
(* The workers keep this promise; the catalogue is built on it.            *)
(***************************************************************************)
CONSTANT Puzzle

VARIABLES
    status,     \* of each puzzle, "none" and "deleted" without a row
    whole,      \* the puzzles whose pieces have been inserted
    rated       \* the puzzles with a difficulty

lifeVars == <<status, whole, rated>>

LifeInit ==
    /\ status = [p \in Puzzle |-> "none"]
    /\ whole = {}
    /\ rated = {}

Lives(p) == status[p] \in {"processing", "ready", "failed"}

Create(p) ==
    /\ status[p] = "none"
    /\ status' = [status EXCEPT ![p] = "processing"]
    /\ UNCHANGED <<whole, rated>>

Fill(p) ==
    /\ Lives(p)
    /\ whole' = whole \cup {p}
    /\ UNCHANGED <<status, rated>>

Release(p) ==
    /\ Lives(p)
    /\ p \in whole
    /\ status' = [status EXCEPT ![p] = "ready"]
    /\ rated' = rated \cup {p}
    /\ UNCHANGED whole

Withhold(p) ==
    /\ Lives(p)
    /\ status' = [status EXCEPT ![p] = "failed"]
    /\ UNCHANGED <<whole, rated>>

Remove(p) ==
    /\ Lives(p)
    /\ status' = [status EXCEPT ![p] = "deleted"]
    /\ whole' = whole \ {p}
    /\ rated' = rated \ {p}

LifeNext ==
    \E p \in Puzzle :
        Create(p) \/ Fill(p) \/ Release(p) \/ Withhold(p) \/ Remove(p)

LifeSpec == LifeInit /\ [][LifeNext]_lifeVars

=============================================================================
