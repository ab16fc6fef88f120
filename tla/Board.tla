------------------------------- MODULE Board --------------------------------
(***************************************************************************)
(* Drag and drop on one mounted game screen (pages/game/GameScreen.tsx):   *)
(* the layout computed from the window, the position of each piece, the    *)
(* one drag the screen remembers, and the fingers on the glass.            *)
(*                                                                         *)
(* Each event handler is one action.  Of a position is kept what the code  *)
(* can tell apart: a random place of the tray, near the piece's target or  *)
(* away from it, or the target itself, together with the layout it was     *)
(* computed for.  pointermove and pointerup are handled on the window,     *)
(* whatever finger they come from.                                         *)
(***************************************************************************)
EXTENDS Naturals

CONSTANTS
    Piece,     \* the pieces of the puzzle
    Finger,    \* touches and the mouse
    Layout,    \* the layouts the window may give
    Nothing    \* stands for no piece: a finger that is up, no drag

ASSUME BoardAssumption ==
    /\ Nothing \notin Piece
    /\ Layout # {}

\* What a finger is on when it went down beside the pieces, or on a placed one.
Elsewhere == "elsewhere"

ASSUME ElsewhereAssumption == Elsewhere \notin Piece \cup {Nothing}

VARIABLES
    layout,     \* the layout in force
    place,      \* positions.current, as <<kind, layout>>
    placed,     \* placedIds
    drag,       \* drag.current.pieceId, or Nothing
    target,     \* the layout drag.current.targetX and targetY belong to
    finger,     \* what each finger captured when it went down
    takenOver,  \* pieces whose drag another press replaced
    cancelled,  \* the browser cancelled a finger during this drag
    resized     \* the layout has changed since the pieces were scattered

history == <<takenOver, cancelled, resized>>
vars == <<layout, place, placed, drag, target, finger, history>>

Kinds == {"tray", "near", "away", "target"}

TypeOK ==
    /\ layout \in Layout
    /\ place \in [Piece -> Kinds \X Layout]
    /\ placed \subseteq Piece
    /\ drag \in Piece \cup {Nothing}
    /\ target \in Layout
    /\ finger \in [Finger -> Piece \cup {Nothing, Elsewhere}]
    /\ takenOver \subseteq Piece
    /\ cancelled \in BOOLEAN
    /\ resized \in BOOLEAN

\* The puzzle has arrived, a layout is computed and the pieces are scattered.
Init ==
    /\ layout \in Layout
    /\ place = [p \in Piece |-> <<"tray", layout>>]
    /\ placed = {}
    /\ drag = Nothing
    /\ target = layout
    /\ finger = [f \in Finger |-> Nothing]
    /\ takenOver = {}
    /\ cancelled = FALSE
    /\ resized = FALSE

-----------------------------------------------------------------------------
\* compute, on a resize event: a new layout, the pieces stay where they are.
Resize(l) ==
    /\ l # layout
    /\ layout' = l
    /\ resized' = TRUE
    /\ UNCHANGED <<place, placed, drag, target, finger, takenOver, cancelled>>

Grabbable(p) == p \notin placed

\* onPointerDown: the drag is this piece's from now on, whatever it was before.
Press(f, p) ==
    /\ finger[f] = Nothing
    /\ Grabbable(p)
    /\ drag' = p
    /\ target' = layout
    /\ finger' = [finger EXCEPT ![f] = p]
    /\ takenOver' = (takenOver \cup {drag}) \ {p, Nothing}
    /\ cancelled' = FALSE
    /\ UNCHANGED <<layout, place, placed, resized>>

\* A press that reaches no handler, or the early return for a placed piece.
PressElsewhere(f) ==
    /\ finger[f] = Nothing
    /\ finger' = [finger EXCEPT ![f] = Elsewhere]
    /\ UNCHANGED <<layout, place, placed, drag, target, history>>

\* onMove: any finger, or the hovering mouse, moves the piece being dragged.
Move ==
    /\ drag # Nothing
    /\ \E kind \in {"near", "away"} : place' = [place EXCEPT ![drag] = <<kind, target>>]
    /\ UNCHANGED <<layout, placed, drag, target, finger, history>>

\* Whether p is within SNAP_THRESHOLD of the target of its drag.  A piece that
\* has not moved since it was pressed may be.
MayBeWithin(p) == place[p] # <<"away", target>>
MayBeBeyond(p) == place[p] # <<"near", target>>

\* Mutant of Snap: the piece jumps to its target but is not counted.
SnapUncounted ==
    /\ MayBeWithin(drag)
    /\ place' = [place EXCEPT ![drag] = <<"target", target>>]
    /\ UNCHANGED placed

\* Mutant of Snap: placedIds is replaced by the last piece.
SnapAlone ==
    /\ MayBeWithin(drag)
    /\ place' = [place EXCEPT ![drag] = <<"target", target>>]
    /\ placed' = {drag}

Snap ==
    /\ MayBeWithin(drag)
    /\ place' = [place EXCEPT ![drag] = <<"target", target>>]
    /\ placed' = placed \cup {drag}

\* The tray bounds are read from the element: those of the layout in force.
ReturnToTray ==
    /\ MayBeBeyond(drag)
    /\ place' = [place EXCEPT ![drag] = <<"tray", layout>>]
    /\ UNCHANGED placed

Release ==
    /\ drag # Nothing
    /\ Snap \/ ReturnToTray
    /\ drag' = Nothing

\* onUp: whichever finger is lifted ends the drag.
Lift(f) ==
    /\ finger[f] # Nothing
    /\ finger' = [finger EXCEPT ![f] = Nothing]
    /\ \/ Release
       \/ drag = Nothing /\ UNCHANGED <<place, placed, drag>>
    /\ UNCHANGED <<layout, target, history>>

\* pointercancel: there is no handler for it.
Cancel(f) ==
    /\ finger[f] # Nothing
    /\ finger' = [finger EXCEPT ![f] = Nothing]
    /\ cancelled' = TRUE
    /\ UNCHANGED <<layout, place, placed, drag, target, takenOver, resized>>

Next ==
    \/ \E l \in Layout : Resize(l)
    \/ Move
    \/ \E f \in Finger :
        \/ \E p \in Piece : Press(f, p)
        \/ PressElsewhere(f)
        \/ Lift(f)
        \/ Cancel(f)

Spec == Init /\ [][Next]_vars

-----------------------------------------------------------------------------
(* Properties.                                                             *)

\* Whatever fingers press, move and lift in whatever order, no drag ever has
\* hold of a piece that sticks.
DragIsUnplaced == drag \notin placed

\* A piece that sticks is not moved any more, by no finger and no resize.
PlacedStay == [][\A p \in placed : p \in placed' /\ place'[p] = place[p]]_vars

\* A piece that is let go sticks or returns to the tray; one can only lie loose,
\* near its target or not, when the press of another piece took its drag over.
LooseOnlyWhenTakenOver ==
    \A p \in Piece \ (placed \cup {drag, Nothing} \cup takenOver) :
        place[p][1] = "tray"

\* A drag has its finger until the browser cancels one: without that, no piece
\* follows a finger, or the mouse, that did not press it first.
DragIsHeld ==
    drag # Nothing /\ ~cancelled => \E f \in Finger : finger[f] = drag

\* Until the window changes, what sticks is at its place on the board and only
\* what sticks is: the progress badge, the silhouettes and the picture agree.
BoardAgrees ==
    ~resized => \A p \in Piece : p \in placed <=> place[p] = <<"target", layout>>

A == INSTANCE Assembly

\* Whatever the fingers do, pieces stick one at a time, each once, for good.
ImplementsAssembly == A!AssemblySpec

=============================================================================
