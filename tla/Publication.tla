---------------------------- MODULE Publication -----------------------------
(***************************************************************************)
(* What the public catalogue promises about a puzzle, in one step each: an *)
(* approval decides a waiting submission, makes the puzzle public and      *)
(* enters it in the catalogue; both stay until the puzzle is removed, and  *)
(* a removed puzzle never comes back.                                      *)
(***************************************************************************)
CONSTANT Puzzle

VARIABLES
    row,        \* of each puzzle: "none", "live" or "deleted"
    public,     \* the puzzles with visibility 'public'
    entry,      \* the puzzles with a row in catalog_puzzles
    waiting     \* the puzzles with a submission to decide about

publicationVars == <<row, public, entry, waiting>>

PublicationInit ==
    /\ row = [p \in Puzzle |-> "none"]
    /\ public = {}
    /\ entry = {}
    /\ waiting = {}

\* An administrator's puzzle has its entry from the start.
Add(p) ==
    /\ row[p] = "none"
    /\ row' = [row EXCEPT ![p] = "live"]
    /\ entry' \in {entry, entry \cup {p}}
    /\ UNCHANGED <<public, waiting>>

Submit(p) ==
    /\ row[p] = "live"
    /\ waiting' = waiting \cup {p}
    /\ UNCHANGED <<row, public, entry>>

Reject(p) ==
    /\ p \in waiting
    /\ waiting' = waiting \ {p}
    /\ UNCHANGED <<row, public, entry>>

Publish(p) ==
    /\ row[p] = "live"
    /\ p \in waiting
    /\ waiting' = waiting \ {p}
    /\ public' = public \cup {p}
    /\ entry' = entry \cup {p}
    /\ UNCHANGED row

Withdraw(p) ==
    /\ row[p] = "live"
    /\ row' = [row EXCEPT ![p] = "deleted"]
    /\ public' = public \ {p}
    /\ entry' = entry \ {p}
    /\ waiting' = waiting \ {p}

PublicationNext ==
    \E p \in Puzzle :
        Add(p) \/ Submit(p) \/ Reject(p) \/ Publish(p) \/ Withdraw(p)

PublicationSpec == PublicationInit /\ [][PublicationNext]_publicationVars

=============================================================================
