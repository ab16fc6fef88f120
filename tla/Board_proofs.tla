---------------------------- MODULE Board_proofs ----------------------------
(***************************************************************************)
(* What holds on the board for any number of pieces, fingers and layouts.  *)
(***************************************************************************)
EXTENDS Board, TLAPS

USE BoardAssumption, ElsewhereAssumption

\* While the window keeps its size, the drag aims at the layout in force.
TargetIsCurrent == ~resized => target = layout

\* No drag has hold of a piece that sticks: what every other fact rests on.
BoardInv == TypeOK /\ DragIsUnplaced

\* Only onMove and onUp change a position, and only that of the dragged piece.
LEMMA OthersStay ==
    ASSUME BoardInv, [Next]_vars
    PROVE  \A q \in Piece : q # drag => place'[q] = place[q]
<1> USE DEF BoardInv, TypeOK
<1>1. CASE \E l \in Layout : Resize(l)
    BY <1>1 DEF Resize
<1>2. CASE Move
    BY <1>2 DEF Move
<1>3. CASE \E f \in Finger : \E q \in Piece : Press(f, q)
    BY <1>3 DEF Press
<1>4. CASE \E f \in Finger : PressElsewhere(f) \/ Cancel(f)
    BY <1>4 DEF PressElsewhere, Cancel
<1>5. CASE \E f \in Finger : Lift(f)
    BY <1>5 DEF Lift, Release, Snap, ReturnToTray
<1>6. CASE UNCHANGED vars
    BY <1>6 DEF vars
<1>7. QED
    BY <1>1, <1>2, <1>3, <1>4, <1>5, <1>6 DEF Next

LEMMA InvariantInit == Init => BoardInv
<1> SUFFICES ASSUME Init PROVE BoardInv
    OBVIOUS
<1>1. <<"tray", layout>> \in Kinds \X Layout
    BY DEF Init, Kinds
<1>2. place \in [Piece -> Kinds \X Layout]
    BY <1>1, Zenon DEF Init
<1>3. QED
    BY <1>2 DEF Init, BoardInv, TypeOK, DragIsUnplaced

LEMMA InvariantStep == BoardInv /\ [Next]_vars => BoardInv'
<1> SUFFICES ASSUME BoardInv, [Next]_vars PROVE BoardInv'
    OBVIOUS
<1> USE DEF BoardInv, TypeOK, DragIsUnplaced, Kinds, history
<1>1. CASE \E l \in Layout : Resize(l)
    BY <1>1 DEF Resize
<1>2. CASE Move
    BY <1>2 DEF Move
<1>3. ASSUME NEW f \in Finger, NEW q \in Piece, Press(f, q)
      PROVE  BoardInv'
    BY <1>3 DEF Press, Grabbable
<1>4. ASSUME NEW f \in Finger, PressElsewhere(f)
      PROVE  BoardInv'
    BY <1>4 DEF PressElsewhere
<1>5. ASSUME NEW f \in Finger, Lift(f)
      PROVE  BoardInv'
    <2>1. CASE drag # Nothing /\ Snap /\ drag' = Nothing
        BY <1>5, <2>1 DEF Lift, Snap
    <2>2. CASE drag # Nothing /\ ReturnToTray /\ drag' = Nothing
        BY <1>5, <2>2 DEF Lift, ReturnToTray
    <2>3. CASE drag = Nothing /\ UNCHANGED <<place, placed, drag>>
        BY <1>5, <2>3 DEF Lift
    <2>4. QED
        BY <1>5, <2>1, <2>2, <2>3 DEF Lift, Release
<1>6. ASSUME NEW f \in Finger, Cancel(f)
      PROVE  BoardInv'
    BY <1>6 DEF Cancel
<1>7. CASE UNCHANGED vars
    BY <1>7 DEF vars
<1>8. QED
    BY <1>1, <1>2, <1>3, <1>4, <1>5, <1>6, <1>7 DEF Next

LEMMA BoardInvariant == Spec => []BoardInv
BY InvariantInit, InvariantStep, PTL DEF Spec

\* Every variable of the board keeps its type.
THEOREM TypeCorrect == Spec => []TypeOK
BY BoardInvariant, PTL DEF BoardInv

\* No drag has hold of a piece that sticks, whatever the fingers do
\* (onPointerDown looks at data-placed, onUp ends the drag).
THEOREM DragsAreUnplaced == Spec => []DragIsUnplaced
BY BoardInvariant, PTL DEF BoardInv

\* A piece that sticks is not moved any more.
THEOREM PlacedPiecesStay == Spec => PlacedStay
<1> DEFINE Stay == \A p \in placed : p \in placed' /\ place'[p] = place[p]
<1>1. BoardInv /\ [Next]_vars => [Stay]_vars
  <2> SUFFICES ASSUME BoardInv, [Next]_vars PROVE Stay
    OBVIOUS
  <2>1. placed \subseteq placed'
    BY DEF Next, vars, history, Resize, Move, Press, PressElsewhere, Lift, Release, Snap,
           ReturnToTray, Cancel
  <2>2. \A p \in placed : place'[p] = place[p]
    BY OthersStay DEF BoardInv, TypeOK, DragIsUnplaced
  <2>3. QED
    BY <2>1, <2>2
<1>2. QED
    BY <1>1, BoardInvariant, PTL DEF Spec, PlacedStay

\* A piece that is let go sticks or returns to the tray; one lies loose only
\* when another press took its drag over.
THEOREM LooseOnlyByTakeOver == Spec => []LooseOnlyWhenTakenOver
<1>1. Init => LooseOnlyWhenTakenOver
  <2> SUFFICES ASSUME Init, NEW q \in Piece PROVE place[q][1] = "tray"
    BY DEF LooseOnlyWhenTakenOver
  <2>1. place[q] = <<"tray", layout>>
    BY Zenon DEF Init
  <2>2. QED
    BY <2>1
<1>2. BoardInv /\ LooseOnlyWhenTakenOver /\ [Next]_vars => LooseOnlyWhenTakenOver'
  <2> SUFFICES ASSUME BoardInv, LooseOnlyWhenTakenOver, [Next]_vars,
                      NEW q \in Piece, q \notin placed', q # drag', q \notin takenOver'
               PROVE  place'[q][1] = "tray"
    BY DEF LooseOnlyWhenTakenOver
  <2> USE DEF BoardInv, TypeOK
  <2>1. CASE q = drag
    <3>1. PICK f \in Finger : Press(f, drag') \/ Lift(f)
        BY <2>1 DEF Next, vars, history, Resize, Move, Press, PressElsewhere, Lift, Release,
                    Snap, ReturnToTray, Cancel
    <3>2. Lift(f)
        BY <2>1, <3>1 DEF Press
    <3>3. ReturnToTray
        BY <2>1, <3>2 DEF Lift, Release, Snap
    <3>4. QED
        BY <2>1, <3>3 DEF ReturnToTray
  <2>2. CASE q # drag
    <3>1. place'[q] = place[q]
        BY <2>2, OthersStay
    <3>2. q \notin placed /\ q \notin takenOver
        BY <2>2 DEF Next, vars, history, Resize, Move, Press, PressElsewhere, Lift, Release,
                    Snap, ReturnToTray, Cancel
    <3>3. QED
        BY <2>2, <3>1, <3>2 DEF LooseOnlyWhenTakenOver
  <2>3. QED
    BY <2>1, <2>2
<1>3. QED
    BY <1>1, <1>2, BoardInvariant, PTL DEF Spec

\* A drag has its finger until the browser cancels one.
THEOREM DragsAreHeld == Spec => []DragIsHeld
<1>1. Init => DragIsHeld
    BY DEF Init, DragIsHeld
<1>2. BoardInv /\ DragIsHeld /\ [Next]_vars => DragIsHeld'
  <2> SUFFICES ASSUME BoardInv, DragIsHeld, [Next]_vars, drag' # Nothing, ~cancelled'
               PROVE  \E f \in Finger : finger'[f] = drag'
    BY DEF DragIsHeld
  <2> USE DEF BoardInv, TypeOK, DragIsHeld, history
  <2>1. CASE UNCHANGED <<drag, finger, cancelled>>
    BY <2>1
  <2>2. ASSUME NEW f \in Finger, NEW q \in Piece, Press(f, q)
        PROVE  finger'[f] = drag'
    BY <2>2 DEF Press
  <2>3. ASSUME NEW f \in Finger, PressElsewhere(f)
        PROVE  \E g \in Finger : finger'[g] = drag'
    <3>1. PICK g \in Finger : finger[g] = drag
        BY <2>3 DEF PressElsewhere
    <3>2. finger'[g] = drag'
        BY <2>3, <3>1 DEF PressElsewhere
    <3>3. QED
        BY <3>2
  <2>4. ASSUME NEW f \in Finger, Lift(f)
        PROVE  FALSE
    BY <2>4 DEF Lift, Release
  <2>5. ASSUME NEW f \in Finger, Cancel(f)
        PROVE  FALSE
    BY <2>5 DEF Cancel
  <2>6. QED
    BY <2>1, <2>2, <2>3, <2>4, <2>5 DEF Next, vars, Resize, Move
<1>3. QED
    BY <1>1, <1>2, BoardInvariant, PTL DEF Spec

\* Until the window changes, what sticks is at its place and nothing else is.
THEOREM BoardAgreesUntilResize == Spec => []BoardAgrees
<1> DEFINE Agrees == TargetIsCurrent /\ BoardAgrees
<1>1. Init => Agrees
    BY DEF Init, TargetIsCurrent, BoardAgrees
<1>2. BoardInv /\ Agrees /\ [Next]_vars => Agrees'
  <2> SUFFICES ASSUME BoardInv, Agrees, [Next]_vars PROVE Agrees'
    OBVIOUS
  <2> USE DEF BoardInv, TypeOK, TargetIsCurrent, BoardAgrees, history, DragIsUnplaced
  <2>1. CASE \E l \in Layout : Resize(l)
    BY <2>1 DEF Resize
  <2>2. CASE Move
    <3>1. \E kind \in {"near", "away"} : place' = [place EXCEPT ![drag] = <<kind, target>>]
        BY <2>2 DEF Move
    <3>2. drag \in Piece => place'[drag] # <<"target", layout>>
        BY <3>1
    <3>3. QED
        BY <2>2, <3>2, OthersStay DEF Move
  <2>3. ASSUME NEW f \in Finger, NEW q \in Piece, Press(f, q)
        PROVE  Agrees'
    BY <2>3 DEF Press
  <2>4. ASSUME NEW f \in Finger, PressElsewhere(f) \/ Cancel(f)
        PROVE  Agrees'
    BY <2>4 DEF PressElsewhere, Cancel
  <2>5. ASSUME NEW f \in Finger, Lift(f)
        PROVE  Agrees'
    <3>1. CASE drag # Nothing /\ Snap
        BY <2>5, <3>1 DEF Lift, Snap
    <3>2. CASE drag # Nothing /\ ReturnToTray
        BY <2>5, <3>2 DEF Lift, ReturnToTray
    <3>3. CASE drag = Nothing /\ UNCHANGED <<place, placed, drag>>
        BY <2>5, <3>3 DEF Lift
    <3>4. QED
        BY <2>5, <3>1, <3>2, <3>3 DEF Lift, Release
  <2>6. CASE UNCHANGED vars
    BY <2>6 DEF vars
  <2>7. QED
    BY <2>1, <2>2, <2>3, <2>4, <2>5, <2>6 DEF Next
<1>3. QED
    BY <1>1, <1>2, BoardInvariant, PTL DEF Spec

\* Drag and drop implements the assembly that module Play builds on: pieces
\* stick one at a time, each once, for good.
THEOREM BoardImplementsAssembly == Spec => ImplementsAssembly
<1>1. Init => A!NothingPlaced
    BY DEF Init, A!NothingPlaced
<1>2. BoardInv /\ [Next]_vars => [\E p \in Piece : A!PlacePiece(p)]_placed
  <2> SUFFICES ASSUME BoardInv, [Next]_vars, placed' # placed
               PROVE  A!PlacePiece(drag) /\ drag \in Piece
    BY DEF BoardInv
  <2>1. drag # Nothing /\ Snap
    BY DEF Next, vars, history, Resize, Move, Press, PressElsewhere, Lift, Release, Snap,
           ReturnToTray, Cancel
  <2>2. QED
    BY <2>1 DEF Snap, A!PlacePiece, BoardInv, TypeOK, DragIsUnplaced
<1>3. QED
    BY <1>1, <1>2, BoardInvariant, PTL DEF Spec, ImplementsAssembly, A!AssemblySpec

=============================================================================
