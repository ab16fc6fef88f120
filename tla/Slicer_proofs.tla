--------------------------- MODULE Slicer_proofs ----------------------------
(***************************************************************************)
(* What holds of the slicer for every image, every grid and every size of  *)
(* a tab: which cells a merge gives away, that the outlines of its groups  *)
(* are whole, that neighbouring pieces of a jigsaw follow the same curve,  *)
(* and that every pixel is in one piece, whatever the way to cut.          *)
(***************************************************************************)
EXTENDS Slicer, TLAPS, WellFoundedInduction, FiniteSetTheorems

USE SlicerAssumption

Config ==
    /\ grid \in Int \X Int /\ size \in Nat \X Nat
    /\ grid \in Grids
    /\ mode \in Mode /\ shape \in Shape \cup {"mixed", "unknown", None}

TabTypes ==
    tabs = None \/ tabs \in
        [h : [(0 .. Cols - 1) \X (0 .. Rows - 2) -> {1, -1}],
         v : [(0 .. Cols - 2) \X (0 .. Rows - 1) -> {1, -1}]]

(***************************************************************************)
(* Two travellers in opposite directions along an edge, with the tab on    *)
(* the right of one and on the left of the other, meet the same points.    *)
(***************************************************************************)
LEMMA EdgeReversed ==
    ASSUME Config, NEW a \in Int \X Int, NEW b \in Int \X Int, NEW dir \in Int
    PROVE  PuzzleEdge(a, b, dir) = Reverse(PuzzleEdge(b, a, -dir))
<1> DEFINE dx == (b[1] - a[1]) * W
           dy == (b[2] - a[2]) * H
           ax == a[1] * W
           ay == a[2] * H
<1>1. W \in Int /\ H \in Int /\ HalfTab \in Int
    BY DEF Config, W, H, Cols, Rows
<1>2. dx \in Int /\ dy \in Int /\ ax \in Int /\ ay \in Int
    BY <1>1
<1>3. /\ b[1] * W = ax + dx /\ b[2] * H = ay + dy
      /\ (a[1] - b[1]) * W = -dx /\ (a[2] - b[2]) * H = -dy
    BY <1>1
<1>4. ASSUME NEW i \in 1 .. 9
      PROVE  /\ Along[i] \in Int /\ Across[i] \in Int
             /\ Along[10 - i] = 40 - Along[i] /\ Across[10 - i] = Across[i]
    <2>1. i \in {1, 2, 3, 4, 5, 6, 7, 8, 9}
        OBVIOUS
    <2>2. QED
        BY <2>1, <1>1 DEF Along, Across
<1> DEFINE forth == PuzzleEdge(a, b, dir)
           back == PuzzleEdge(b, a, -dir)
<1>5. /\ forth = [i \in 1 .. 9 |-> <<40 * ax + dx * Along[i] - dy * Across[i] * dir,
                                    40 * ay + dy * Along[i] + dx * Across[i] * dir>>]
      /\ back = [i \in 1 .. 9 |->
            <<40 * (ax + dx) + (-dx) * Along[i] - (-dy) * Across[i] * (-dir),
              40 * (ay + dy) + (-dy) * Along[i] + (-dx) * Across[i] * (-dir)>>]
    <2>1. 40 * a[1] * W = 40 * ax /\ 40 * a[2] * H = 40 * ay
        BY <1>1
    <2>2. 40 * b[1] * W = 40 * (ax + dx) /\ 40 * b[2] * H = 40 * (ay + dy)
        BY <1>1, <1>3
    <2>3. QED
        BY <2>1, <2>2, <1>3 DEF PuzzleEdge
<1>6. Len(back) = 9
    BY <1>5
<1> HIDE DEF dx, dy, ax, ay, forth, back
<1>7. ASSUME NEW i \in 1 .. 9 PROVE forth[i] = back[10 - i]
    <2>1. Along[i] \in Int /\ Across[i] \in Int
          /\ Along[10 - i] = 40 - Along[i] /\ Across[10 - i] = Across[i]
        BY <1>4
    <2> DEFINE t == Along[i]
               n == Across[i]
    <2>2. 10 - i \in 1 .. 9
        OBVIOUS
    <2>3. back[10 - i] =
            <<40 * (ax + dx) + (-dx) * (40 - t) - (-dy) * n * (-dir),
              40 * (ay + dy) + (-dy) * (40 - t) + (-dx) * n * (-dir)>>
        BY <1>5, <2>1, <2>2
    <2>4. forth[i] = <<40 * ax + dx * t - dy * n * dir, 40 * ay + dy * t + dx * n * dir>>
        BY <1>5
    <2> HIDE DEF t, n
    <2>5. t \in Int /\ n \in Int
        BY <2>1 DEF t, n
    <2>6. /\ (-dx) * (40 - t) = dx * t - 40 * dx
          /\ (-dy) * (40 - t) = dy * t - 40 * dy
        BY <1>2, <2>5
    <2>7. (-dy) * n * (-dir) = dy * n * dir /\ (-dx) * n * (-dir) = dx * n * dir
        BY <1>2, <2>5
    <2>8. QED
        BY <2>3, <2>4, <2>5, <2>6, <2>7, <1>2
<1>8. Reverse(back) = [i \in 1 .. 9 |-> back[10 - i]]
    <2>1. Reverse(back) = [i \in 1 .. Len(back) |-> back[(Len(back) - i) + 1]]
        BY DEF Reverse
    <2>2. \A i \in 1 .. 9 : (9 - i) + 1 = 10 - i
        OBVIOUS
    <2>3. QED
        BY <2>1, <2>2, <1>6
<1>9. forth = [i \in 1 .. 9 |-> forth[i]]
    BY <1>5
<1>10. QED
    BY <1>7, <1>8, <1>9 DEF forth, back

(***************************************************************************)
(* Layer 1: types. An image that has not been scaled yet has a pixel; the  *)
(* groups of a merge are templates, so they have one to three cells.       *)
(***************************************************************************)
GroupShape == \A g \in groups : g \in Seq(Cell) /\ Len(g) \in 1 .. 3

TypeInv ==
    /\ pc \in {"start", "slice", "done", "failed", "endless"}
    /\ Config /\ TabTypes
    /\ pc = "start" => size[1] > 0 /\ size[2] > 0
    /\ pc = "slice" => Cols > 0 /\ Rows > 0
    /\ GroupShape /\ passed \subseteq Cell
    /\ \A p \in pieces : p.pos \in Cell

LEMMA TypeInit == Init => TypeInv
BY DEF Init, TypeInv, Config, TabTypes, GroupShape, Mode, Shape

\* What a multiplication by the scale leaves of a side.
LEMMA ScaledType ==
    ASSUME Config, size[1] > 0, size[2] > 0, NEW side \in Nat, side > 0
    PROVE  Scaled(side) \subseteq Nat
<1> DEFINE most == IF size[1] > size[2] THEN size[1] ELSE size[2]
           q == (side * MaxDim) \div most
<1>1. most \in Nat /\ most > 0 /\ side * MaxDim \in Nat /\ side * MaxDim > 0
    BY DEF Config
<1>2. q \in Nat
    BY <1>1
<1>3. q * most = side * MaxDim => q > 0
    BY <1>1, <1>2
<1>4. QED
    BY <1>2, <1>3 DEF Scaled

\* A template placed at a cell has two or three cells; all but the last one
\* have the cell itself as the first of theirs.
LEMMA Placed ==
    ASSUME NEW c \in Int \X Int, NEW i \in DOMAIN Template
    PROVE  /\ Len(Place(i, c)) \in 1 .. 3
           /\ Place(i, c) \in Seq(Int \X Int)
           /\ i # 6 => c \in Range(Place(i, c))
<1>1. i \in {1, 2, 3, 4, 5, 6}
    BY DEF Template
<1>2. Template[i] \in Seq(Int \X Int) /\ Len(Template[i]) \in 2 .. 3
    <2>1. CASE i = 1
        BY <2>1 DEF Template
    <2>2. CASE i = 2
        BY <2>2 DEF Template
    <2>3. CASE i = 3
        BY <2>3 DEF Template
    <2>4. CASE i = 4
        BY <2>4 DEF Template
    <2>5. CASE i = 5
        BY <2>5 DEF Template
    <2>6. CASE i = 6
        BY <2>6 DEF Template
    <2>7. QED
        BY <1>1, <2>1, <2>2, <2>3, <2>4, <2>5, <2>6
<1>3. i # 6 => Template[i][1] = <<0, 0>>
    BY <1>1 DEF Template
<1>4. Len(Place(i, c)) = Len(Template[i]) /\ Place(i, c) \in Seq(Int \X Int)
    BY <1>2 DEF Place
<1>5. i # 6 => Place(i, c)[1] = c
    BY <1>2, <1>3 DEF Place
<1>6. 1 \in DOMAIN Place(i, c)
    BY <1>2, <1>4
<1>7. i # 6 => c \in Range(Place(i, c))
    <2> DEFINE g == Place(i, c)
    <2>1. g[1] \in Range(g)
        BY <1>6 DEF Range
    <2>2. QED
        BY <2>1, <1>5
<1>8. Len(Place(i, c)) \in 1 .. 3
    <2> DEFINE n == Len(Template[i])
    <2>1. n \in 2 .. 3
        BY <1>2
    <2> HIDE DEF n
    <2>2. n \in 1 .. 3
        BY <2>1
    <2>3. QED
        BY <2>2, <1>4 DEF n
<1>9. QED
    BY <1>4, <1>7, <1>8

LEMMA Topmost ==
    ASSUME NEW a \in Int \X Int, NEW b \in Int \X Int, NEW d \in Int \X Int
    PROVE  \E c \in {a, b, d} : \A e \in {a, b, d} :
              c[2] < e[2] \/ (c[2] = e[2] /\ c[1] <= e[1])
OBVIOUS

LEMMA GridPosType ==
    ASSUME NEW g \in Seq(Cell), Len(g) \in 1 .. 3, Cols \in Int, Rows \in Int
    PROVE  GridPos(g) \in Cell
<1>1. \A k \in 1 .. Len(g) : g[k] \in Cell /\ g[k] \in Int \X Int
    BY DEF Cell
<1>2. PICK a \in Int \X Int, b \in Int \X Int, d \in Int \X Int : Range(g) = {a, b, d}
    <2>1. CASE Len(g) = 1
        <3>1. Range(g) = {g[1], g[1], g[1]}
            BY <2>1 DEF Range
        <3>2. QED
            BY <3>1, <1>1, <2>1
    <2>2. CASE Len(g) = 2
        <3>1. Range(g) = {g[1], g[2], g[2]}
            BY <2>2 DEF Range
        <3>2. QED
            BY <3>1, <1>1, <2>2
    <2>3. CASE Len(g) = 3
        <3>1. Range(g) = {g[1], g[2], g[3]}
            BY <2>3 DEF Range
        <3>2. QED
            BY <3>1, <1>1, <2>3
    <2>4. QED
        BY <2>1, <2>2, <2>3
<1>3. GridPos(g) \in Range(g)
    BY <1>2, Topmost DEF GridPos
<1>4. QED
    BY <1>1, <1>3 DEF Range

LEMMA TypeStep == TypeInv /\ [Next]_vars => TypeInv'
<1> SUFFICES ASSUME TypeInv, [Next]_vars PROVE TypeInv'
    OBVIOUS
<1> USE DEF config
<1>0. Cols \in Int /\ Rows \in Int /\ Cell \subseteq Int \X Int
    BY DEF TypeInv, Config, Cols, Rows, Cell
<1>1. ASSUME UNCHANGED <<config, groups, passed>>
      PROVE  /\ UNCHANGED <<Cols, Rows, Cell>>
             /\ GroupShape' /\ passed' \subseteq Cell'
    BY <1>1 DEF TypeInv, GroupShape, Cols, Rows, Cell
<1>2. ASSUME NEW how \in Mode, NEW polygons, Cut(how, polygons),
             \A p \in polygons : p.pos \in Cell
      PROVE  TypeInv'
    BY <1>1, <1>2 DEF Cut, TypeInv, Config, TabTypes, Cols, Rows
<1>3. CASE ResizeIfNeeded
    <2>1. size' \in Nat \X Nat
        BY <1>3, ScaledType DEF ResizeIfNeeded, TypeInv, Config
    <2>2. QED
        BY <1>1, <1>3, <2>1 DEF ResizeIfNeeded, TypeInv, Config, TabTypes, Cols, Rows
<1>4. CASE Grid
    BY <1>2, <1>4 DEF Grid, Piece, Mode
<1>5. ASSUME NEW c \in Cell, PlaceGroup(c) PROVE TypeInv'
    <2>1. PICK g \in {<<c>>} \cup {Place(i, c) : i \in DOMAIN Template} :
            /\ Fits(g)
            /\ groups' = groups \cup {g}
            /\ passed' = IF c \in Range(g) THEN passed ELSE passed \cup {c}
        BY <1>5 DEF PlaceGroup
    <2>2. Len(g) \in 1 .. 3 /\ g \in Seq(Int \X Int)
        <3>1. CASE g = <<c>>
            BY <3>1, <1>0
        <3>2. CASE \E i \in DOMAIN Template : g = Place(i, c)
            BY <3>2, <1>0, Placed
        <3>3. QED
            BY <3>1, <3>2
    <2>3. \A k \in 1 .. Len(g) : g[k] \in Cell
        BY <2>1, <2>2 DEF Fits, Range
    <2>4. g \in Seq(Cell)
        <3>1. g \in [1 .. Len(g) -> Int \X Int] /\ Len(g) \in Nat
            BY <2>2
        <3>2. g \in [1 .. Len(g) -> Cell]
            BY <2>3, <3>1
        <3>3. QED
            BY <3>1, <3>2
    <2>5. UNCHANGED <<Cols, Rows, Cell>>
        BY <1>5 DEF PlaceGroup, Cols, Rows, Cell
    <2>6. GroupShape' /\ passed' \subseteq Cell'
        BY <2>1, <2>2, <2>4, <2>5 DEF TypeInv, GroupShape
    <2>7. QED
        BY <1>5, <2>5, <2>6 DEF PlaceGroup, TypeInv, Config, TabTypes
<1>6. CASE OutlineGroups
    <2>1. \A g \in groups : GridPos(g) \in Cell
        BY <1>0, GridPosType DEF TypeInv, GroupShape
    <2>2. \A p \in pieces' : p.pos \in Cell
        BY <1>6, <2>1 DEF OutlineGroups, TypeInv, Piece
    <2>3. QED
        BY <1>1, <1>6, <2>2 DEF OutlineGroups, TypeInv, Config, TabTypes, Cols, Rows
<1>7. CASE Geometry
    <2>1. PICK s \in [Cell -> IF shape = "mixed" THEN Shape ELSE {shape}] :
            Cut("geometry", UNION {{Piece(c, p) : p \in CellPolygons(s[c], c)} : c \in Cell})
        BY <1>7 DEF Geometry
    <2>2. QED
        BY <1>2, <2>1 DEF Piece, Mode
<1>8. CASE Parallelograms
    <2>1. pc = "slice"
        BY <1>8 DEF Parallelograms, Cut
    <2>2. ASSUME NEW r \in 0 .. Rows - 1, NEW top, NEW bottom, NEW p \in Sheared(r, top, bottom)
          PROVE  p.pos \in Cell
        <3>1. <<0, r>> \in Cell /\ \A c \in 0 .. Cols - 1 : <<c, r>> \in Cell
            BY <1>0, <2>1 DEF TypeInv, Cell
        <3>2. QED
            BY <2>2, <3>1 DEF Sheared, Piece
    <2>3. QED
        BY <1>2, <1>8, <2>2 DEF Parallelograms, Mode
<1>9. CASE DrawTabs
    BY <1>1, <1>9 DEF DrawTabs, TypeInv, Config, TabTypes, Cols, Rows
<1>10. CASE Puzzle
    BY <1>2, <1>10 DEF Puzzle, Piece, Mode
<1>11. CASE UNCHANGED vars
    BY <1>1, <1>11 DEF vars, TypeInv, Config, TabTypes, Cols, Rows
<1>12. QED
    BY <1>3, <1>4, <1>5, <1>6, <1>7, <1>8, <1>9, <1>10, <1>11 DEF Next

LEMMA TypeIsInvariant == Spec => []TypeInv
BY TypeInit, TypeStep, PTL DEF Spec

(* The variables of the slicer have their types, for every image and grid. *)
THEOREM TypeCorrect == Spec => []TypeOK
<1>1. TypeInv => TypeOK
    BY DEF TypeInv, TypeOK, Config, TabTypes, GroupShape
<1>2. QED
    BY <1>1, TypeIsInvariant, PTL

(***************************************************************************)
(* Layer 2: the groups of a merge.                                         *)
(***************************************************************************)
LEMMA CellsInit == Init => CellsAccountedFor
BY DEF Init, CellsAccountedFor

LEMMA CellsStep == TypeInv /\ CellsAccountedFor /\ [Next]_vars => CellsAccountedFor'
<1> SUFFICES ASSUME TypeInv, CellsAccountedFor, [Next]_vars PROVE CellsAccountedFor'
    OBVIOUS
<1> USE DEF config
<1>1. ASSUME UNCHANGED <<groups, passed, mode>>, pc' = "done" => mode # "merge"
      PROVE  CellsAccountedFor'
    BY <1>1 DEF CellsAccountedFor, Place
<1>2. ASSUME NEW c \in Cell, PlaceGroup(c) PROVE CellsAccountedFor'
    <2>1. PICK g \in {<<c>>} \cup {Place(i, c) : i \in DOMAIN Template} :
            /\ Fits(g)
            /\ groups' = groups \cup {g}
            /\ passed' = IF c \in Range(g) THEN passed ELSE passed \cup {c}
        BY <1>2 DEF PlaceGroup
    <2>2. \A h \in groups : Range(g) \cap Range(h) = {}
        BY <2>1 DEF Fits, Used
    <2>3. \A h, k \in groups' : h # k => Range(h) \cap Range(k) = {}
        BY <2>1, <2>2 DEF CellsAccountedFor
    <2>4. c \notin Range(g) => g = Place(6, c)
        <3>1. CASE g = <<c>>
            BY <3>1 DEF Range
        <3>2. CASE \E i \in DOMAIN Template : g = Place(i, c)
            <4>1. c \in Int \X Int
                BY DEF TypeInv, Config, Cols, Rows, Cell
            <4>2. QED
                BY <3>2, <4>1, Placed
        <3>3. QED
            BY <3>1, <3>2
    <2>5. \A d \in passed' : Place(6, d) \in groups'
        BY <2>1, <2>4 DEF CellsAccountedFor
    <2>6. pc' # "done"
        BY <1>2 DEF PlaceGroup
    <2>7. QED
        BY <2>3, <2>5, <2>6 DEF CellsAccountedFor, Place
<1>3. CASE OutlineGroups
    <2>1. UNCHANGED <<groups, passed, Cell, Used>>
        BY <1>3 DEF OutlineGroups, Cell, Cols, Rows, Used
    <2>2. \A c \in Cell : c \in Used \/ Lost(c)
        BY <1>3 DEF OutlineGroups, Lost
    <2>3. QED
        BY <2>1, <2>2 DEF CellsAccountedFor, Lost, Place
<1>4. CASE Grid
    BY <1>1, <1>4 DEF Grid, Cut
<1>5. CASE Geometry \/ Parallelograms
    BY <1>1, <1>5 DEF Geometry, Parallelograms, Cut
<1>6. CASE DrawTabs
    BY <1>1, <1>6 DEF DrawTabs
<1>7. CASE Puzzle
    BY <1>1, <1>7 DEF Puzzle, Cut
<1>8. CASE ResizeIfNeeded
    BY <1>1, <1>8 DEF ResizeIfNeeded
<1>9. CASE UNCHANGED vars
    BY <1>9 DEF vars, CellsAccountedFor, Place, Lost, Used, Cell, Cols, Rows
<1>10. QED
    BY <1>2, <1>3, <1>4, <1>5, <1>6, <1>7, <1>8, <1>9 DEF Next

(* Every cell of a merge is in one group, or lost to the last template.    *)
THEOREM CellsAreAccountedFor == Spec => []CellsAccountedFor
BY TypeIsInvariant, CellsInit, CellsStep, PTL DEF Spec

(***************************************************************************)
(* Layer 3: the outlines of the groups. First the walk along any polygon:  *)
(* when the segments are the sides of a polygon whose corners differ, in   *)
(* whatever order, the walk goes around it once and meets every side.      *)
(***************************************************************************)
LEMMA Least ==
    ASSUME NEW T, T \subseteq Nat, T # {}
    PROVE  \E m \in T : \A k \in T : m <= k
<1>1. IsWellFoundedOn(OpToRel(<, Nat), Nat)
    BY NatLessThanWellFounded, Zenon
<1>2. PICK m \in T : \A k \in T : <<k, m>> \notin OpToRel(<, Nat)
    BY <1>1, WFMin, Zenon
<1>3. ASSUME NEW k \in T PROVE ~(k < m)
    BY <1>2, Zenon DEF OpToRel
<1>4. QED
    BY <1>3

LEMMA Greatest ==
    ASSUME NEW n \in Nat, NEW T, T \subseteq 0 .. n, T # {}
    PROVE  \E m \in T : \A k \in T : k <= m
<1> DEFINE U == {n - k : k \in T}
<1>0. \A k \in T : k \in Nat /\ k <= n /\ n - k \in Nat
    OBVIOUS
<1>1. U \subseteq Nat /\ U # {}
    BY <1>0
<1> HIDE DEF U
<1>2. PICK u \in U : \A v \in U : u <= v
    BY <1>1, Least
<1>3. PICK m \in T : u = n - m
    BY DEF U
<1>4. \A k \in T : n - k \in U
    BY DEF U
<1>5. QED
    BY <1>2, <1>3, <1>4

\* The corner that follows corner i of n.
Following(i, n) == IF i = n - 1 THEN 0 ELSE i + 1

Ring(P, n) == {<<P[i], P[Following(i, n)]>> : i \in 0 .. n - 1}

(* The segments s are the sides of the polygon with the n corners P, in some order. *)
Surrounds(s, n, P) ==
    /\ n \in Nat \ {0} /\ Len(s) = n /\ DOMAIN s = 1 .. n
    /\ \A i, k \in 0 .. n - 1 : P[i] = P[k] => i = k
    /\ Range(s) = Ring(P, n)

LEMMA WalkAround ==
    ASSUME NEW s, NEW n, NEW P, Surrounds(s, n, P)
    PROVE  /\ DOMAIN Walk(s) = 0 .. n
           /\ \E j \in 0 .. n - 1 :
                \A k \in 0 .. n : Walk(s)[k] = P[IF j + k < n THEN j + k ELSE j + k - n]
<1>0. /\ n \in Nat /\ n # 0 /\ Len(s) = n /\ DOMAIN s = 1 .. n
      /\ \A i, k \in 0 .. n - 1 : P[i] = P[k] => i = k
      /\ Range(s) = Ring(P, n)
    BY DEF Surrounds
<1> USE <1>0 DEF Following
<1>1. PICK j \in 0 .. n - 1 : s[1] = <<P[j], P[Following(j, n)]>>
    <2>1. s[1] \in Ring(P, n)
        BY DEF Range
    <2> QED
        BY <2>1 DEF Ring
<1> DEFINE Corner(k) == IF j + k < n THEN j + k ELSE j + k - n
           Latest(p) == CHOOSE i \in DOMAIN s : /\ s[i][1] = p
                           /\ \A k \in DOMAIN s : s[k][1] = p => k <= i
           IsWalk(f) == f = [k \in 0 .. n |-> IF k = 0 THEN s[1][1] ELSE s[Latest(f[k - 1])][2]]
<1>2. ASSUME NEW i \in 0 .. n - 1 PROVE s[Latest(P[i])][2] = P[Following(i, n)]
    <2> DEFINE T == {k \in 1 .. n : s[k][1] = P[i]}
    <2>1. T # {}
        <3>1. <<P[i], P[Following(i, n)]>> \in Range(s)
            BY DEF Ring
        <3>2. PICK k \in 1 .. n : s[k] = <<P[i], P[Following(i, n)]>>
            BY <3>1 DEF Range
        <3> QED
            BY <3>2
    <2>2. PICK m \in T : \A k \in T : k <= m
        <3> HIDE DEF T
        <3>1. T \subseteq 0 .. n
            BY DEF T
        <3> QED
            BY <2>1, <3>1, Greatest
    <2>3. \E m1 \in DOMAIN s : /\ s[m1][1] = P[i]
                           /\ \A k \in DOMAIN s : s[k][1] = P[i] => k <= m1
        BY <2>2
    <2>4. Latest(P[i]) \in 1 .. n /\ s[Latest(P[i])][1] = P[i]
        BY <2>3
    <2> HIDE DEF Latest
    <2>5. s[Latest(P[i])] \in Ring(P, n)
        BY <2>4 DEF Range
    <2>6. PICK k \in 0 .. n - 1 : s[Latest(P[i])] = <<P[k], P[Following(k, n)]>>
        BY <2>5 DEF Ring
    <2> QED
        BY <2>4, <2>6
<1> HIDE DEF Latest
<1>3. ASSUME NEW k \in 0 .. n, k # 0
      PROVE  /\ Corner(k - 1) \in 0 .. n - 1
             /\ Following(Corner(k - 1), n) = Corner(k)
    BY <1>3
<1>4. s[1][1] = P[Corner(0)]
    BY <1>1
<1> DEFINE f0 == [k \in 0 .. n |-> P[Corner(k)]]
<1> HIDE DEF Corner
<1>5. IsWalk(f0)
    <2>1. ASSUME NEW k \in 0 .. n
          PROVE  P[Corner(k)] = IF k = 0 THEN s[1][1] ELSE s[Latest(f0[k - 1])][2]
        <3>1. k # 0 => k - 1 \in 0 .. n /\ f0[k - 1] = P[Corner(k - 1)]
            OBVIOUS
        <3> QED
            BY <3>1, <1>2, <1>3, <1>4
    <2> QED
        BY <2>1
<1>6. IsWalk(CHOOSE f : IsWalk(f))
    <2> HIDE DEF IsWalk, f0
    <2> QED
        BY <1>5
<1>7. Walk(s) = CHOOSE f : IsWalk(f)
    BY DEF Walk, Latest
<1> DEFINE at == Walk(s)
           T == {k \in 0 .. n : at[k] # P[Corner(k)]}
<1>8. /\ DOMAIN at = 0 .. n
      /\ \A k \in 0 .. n : at[k] = IF k = 0 THEN s[1][1] ELSE s[Latest(at[k - 1])][2]
    <2>1. IsWalk(at)
        BY <1>6, <1>7
    <2> HIDE DEF at
    <2> QED
        BY <2>1
<1> HIDE DEF at
<1>9. \A k \in 0 .. n : at[k] = P[Corner(k)]
    <2> SUFFICES ASSUME T # {} PROVE FALSE
        OBVIOUS
    <2>1. PICK m \in T : \A k \in T : m <= k
        <3> HIDE DEF T
        <3>1. T \subseteq Nat
            BY DEF T
        <3> QED
            BY <3>1, Least
    <2>2. m # 0
        BY <1>4, <1>8
    <2>3. m - 1 \in 0 .. n /\ m - 1 \notin T
        BY <2>1, <2>2
    <2>4. at[m - 1] = P[Corner(m - 1)]
        BY <2>3
    <2>5. at[m] = s[Latest(P[Corner(m - 1)])][2]
        BY <1>8, <2>2, <2>4
    <2>6. at[m] = P[Corner(m)]
        BY <2>2, <2>5, <1>2, <1>3
    <2> QED
        BY <2>6
<1> HIDE DEF T
<1>10. /\ DOMAIN Walk(s) = 0 .. n
       /\ \A k \in 0 .. n : Walk(s)[k] = P[IF j + k < n THEN j + k ELSE j + k - n]
    BY <1>8, <1>9 DEF at, Corner
<1> QED
    BY <1>10

LEMMA OutlineCloses ==
    ASSUME NEW s, NEW n, NEW P, Surrounds(s, n, P)
    PROVE  /\ Returns(Walk(s)) = {n}
           /\ LET outline == [k \in 1 .. n |-> Walk(s)[k - 1]] IN
              {<<outline[k], outline[IF k = n THEN 1 ELSE k + 1]>> : k \in 1 .. n} = Range(s)
<1> DEFINE walk == Walk(s)
<1>0. /\ n \in Nat /\ n # 0 /\ Len(s) = n /\ DOMAIN s = 1 .. n
      /\ \A i, k \in 0 .. n - 1 : P[i] = P[k] => i = k
      /\ Range(s) = Ring(P, n)
    BY DEF Surrounds
<1>1. /\ DOMAIN walk = 0 .. n
      /\ \E j \in 0 .. n - 1 :
            \A k \in 0 .. n : walk[k] = P[IF j + k < n THEN j + k ELSE j + k - n]
    BY WalkAround
<1> PICK j \in 0 .. n - 1 :
        \A k \in 0 .. n : walk[k] = P[IF j + k < n THEN j + k ELSE j + k - n]
    BY <1>1
<1>2. DOMAIN walk = 0 .. n
    BY <1>1
<1> USE <1>0
<1> DEFINE Corner(k) == IF j + k < n THEN j + k ELSE j + k - n
<1>3. \A k \in 0 .. n : walk[k] = P[Corner(k)]
    OBVIOUS
<1>4. \A k \in 0 .. n : Corner(k) \in 0 .. n - 1
    OBVIOUS
<1>5. \A k \in 1 .. n : walk[k] = walk[0] <=> k = n
    <2> SUFFICES ASSUME NEW k \in 1 .. n PROVE walk[k] = walk[0] <=> k = n
        OBVIOUS
    <2>1. Corner(k) = Corner(0) <=> k = n
        OBVIOUS
    <2>2. Corner(k) \in 0 .. n - 1 /\ Corner(0) \in 0 .. n - 1
        BY <1>4
    <2> HIDE DEF walk, Corner
    <2>3. walk[k] = P[Corner(k)] /\ walk[0] = P[Corner(0)]
        BY <1>3
    <2> QED
        BY <2>1, <2>2, <2>3
<1>6. Returns(walk) = {n}
    <2> HIDE DEF walk
    <2> QED
        BY <1>2, <1>5 DEF Returns
<1> DEFINE outline == [k \in 1 .. n |-> walk[k - 1]]
<1>8. \A k \in 1 .. n : outline[k] = P[Corner(k - 1)]
    <2> HIDE DEF walk, Corner
    <2> QED
        BY <1>3
<1> DEFINE edge(k) == <<outline[k], outline[IF k = n THEN 1 ELSE k + 1]>>
<1>10. \A k \in 1 .. n : edge(k) = <<P[Corner(k - 1)], P[Following(Corner(k - 1), n)]>>
    <2> SUFFICES ASSUME NEW k \in 1 .. n
                 PROVE  outline[IF k = n THEN 1 ELSE k + 1] = P[Following(Corner(k - 1), n)]
        BY <1>8
    <2>1. Following(Corner(k - 1), n) = Corner(IF k = n THEN 0 ELSE k)
        BY DEF Following
    <2> HIDE DEF outline, Corner
    <2> QED
        BY <1>8, <2>1
<1>11. \A i \in 0 .. n - 1 : \E k \in 1 .. n : i = Corner(k - 1)
    <2> SUFFICES ASSUME NEW i \in 0 .. n - 1 PROVE \E k \in 1 .. n : i = Corner(k - 1)
        OBVIOUS
    <2>1. CASE i >= j
        <3>1. i - j + 1 \in 1 .. n /\ Corner((i - j + 1) - 1) = i
            BY <2>1
        <3> QED
            BY <3>1
    <2>2. CASE i < j
        <3>1. i - j + n + 1 \in 1 .. n /\ Corner((i - j + n + 1) - 1) = i
            BY <2>2
        <3> QED
            BY <3>1
    <2> QED
        BY <2>1, <2>2
<1>12. {edge(k) : k \in 1 .. n} = Ring(P, n)
    <2> HIDE DEF edge, outline
    <2>1. \A k \in 1 .. n : Corner(k - 1) \in 0 .. n - 1
        OBVIOUS
    <2> HIDE DEF Corner
    <2>2. \A k \in 1 .. n : edge(k) \in Ring(P, n)
        <3> SUFFICES ASSUME NEW k \in 1 .. n PROVE edge(k) \in Ring(P, n)
            OBVIOUS
        <3> DEFINE i == Corner(k - 1)
        <3>1. i \in 0 .. n - 1 /\ edge(k) = <<P[i], P[Following(i, n)]>>
            BY <1>10, <2>1
        <3> HIDE DEF i, edge
        <3> QED
            BY <3>1 DEF Ring
    <2>3. ASSUME NEW i \in 0 .. n - 1
          PROVE  <<P[i], P[Following(i, n)]>> \in {edge(k) : k \in 1 .. n}
        <3>1. PICK k \in 1 .. n : i = Corner(k - 1)
            BY <1>11
        <3>2. <<P[i], P[Following(i, n)]>> = edge(k)
            BY <1>10, <3>1
        <3> QED
            BY <3>2
    <2>4. {edge(k) : k \in 1 .. n} \subseteq Ring(P, n)
        BY <2>2
    <2>5. Ring(P, n) \subseteq {edge(k) : k \in 1 .. n}
        <3> DEFINE E == {edge(k) : k \in 1 .. n}
        <3>1. \A i \in 0 .. n - 1 : <<P[i], P[Following(i, n)]>> \in E
            BY <2>3
        <3> HIDE DEF E
        <3>2. Ring(P, n) \subseteq E
            BY <3>1 DEF Ring
        <3> QED
            BY <3>2 DEF E
    <2> QED
        BY <2>4, <2>5
<1> HIDE DEF outline
<1> QED
    BY <1>6, <1>12 DEF outline

LEMMA OutlineIsWhole ==
    ASSUME NEW g, NEW n, NEW P, Surrounds(Segments(g), n, P)
    PROVE  /\ Returns(Walk(Segments(g))) # {}
           /\ LET outline == GroupOutline(g)  m == Len(outline) IN
              {<<outline[k], outline[IF k = m THEN 1 ELSE k + 1]>> : k \in 1 .. m}
                  = Range(Segments(g))
<1> DEFINE walk == Walk(Segments(g))
           outline == [k \in 1 .. n |-> walk[k - 1]]
<1>1. /\ Returns(walk) = {n}
      /\ {<<outline[k], outline[IF k = n THEN 1 ELSE k + 1]>> : k \in 1 .. n}
            = Range(Segments(g))
    BY OutlineCloses
<1>0. n \in Nat /\ n # 0
    BY DEF Surrounds
<1>2. (CHOOSE m \in {n} : \A k \in {n} : m <= k) = n
    BY <1>0
<1> HIDE DEF walk
<1>3. GroupOutline(g) = LET m == CHOOSE i \in Returns(walk) : \A k \in Returns(walk) : i <= k
                        IN  [k \in 1 .. m |-> walk[k - 1]]
    BY DEF GroupOutline, walk
<1>4. GroupOutline(g) = outline
    BY <1>1, <1>2, <1>3
<1>5. Len(outline) = n
    BY <1>0
<1> HIDE DEF outline
<1> QED
    BY <1>1, <1>4, <1>5 DEF walk

(***************************************************************************)
(* The sides of a group, as pairs of corners of the grid.                  *)
(***************************************************************************)
Point == Int \X Int
Pixel(p) == <<p[1] * CellW, p[2] * CellH>>
Sides(c, others) ==
    LET x == c[1]  y == c[2]
        Kept(at, from, to) == IF at \in others THEN {} ELSE {<<from, to>>}
    IN  Kept(<<x, y - 1>>, <<x, y>>, <<x + 1, y>>)
        \cup Kept(<<x + 1, y>>, <<x + 1, y>>, <<x + 1, y + 1>>)
        \cup Kept(<<x, y + 1>>, <<x + 1, y + 1>>, <<x, y + 1>>)
        \cup Kept(<<x - 1, y>>, <<x, y + 1>>, <<x, y>>)
Pixels(S) == {<<Pixel(e[1]), Pixel(e[2])>> : e \in S}
SideCount(c, others) ==
    LET Kept(at) == IF at \in others THEN 0 ELSE 1
    IN  Kept(<<c[1], c[2] - 1>>) + Kept(<<c[1] + 1, c[2]>>)
        + Kept(<<c[1], c[2] + 1>>) + Kept(<<c[1] - 1, c[2]>>)

LEMMA RangeOfConcat ==
    ASSUME NEW A, NEW s \in Seq(A), NEW t \in Seq(A)
    PROVE  /\ s \o t \in Seq(A) /\ Len(s \o t) = Len(s) + Len(t)
           /\ Range(s \o t) = Range(s) \cup Range(t)
<1>1. s \o t \in Seq(A) /\ Len(s \o t) = Len(s) + Len(t)
    OBVIOUS
<1>2. /\ \A i \in 1 .. Len(s) : (s \o t)[i] = s[i]
      /\ \A i \in 1 .. Len(t) : (s \o t)[Len(s) + i] = t[i]
    OBVIOUS
<1>3. ASSUME NEW i \in 1 .. Len(s) + Len(t)
      PROVE  i \in 1 .. Len(s) \/ \E k \in 1 .. Len(t) : i = Len(s) + k
    <2>1. Len(s) \in Nat /\ Len(t) \in Nat
        OBVIOUS
    <2>2. CASE i <= Len(s)
        BY <2>1, <2>2
    <2>3. CASE i > Len(s)
        <3>1. i - Len(s) \in 1 .. Len(t) /\ i = Len(s) + (i - Len(s))
            BY <2>1, <2>3
        <3> QED
            BY <3>1
    <2> QED
        BY <2>1, <2>2, <2>3
<1>4. Range(s \o t) \subseteq Range(s) \cup Range(t)
    BY <1>1, <1>2, <1>3 DEF Range
<1>5. Range(s) \subseteq Range(s \o t)
    BY <1>1, <1>2 DEF Range
<1>6. Range(t) \subseteq Range(s \o t)
    <2> SUFFICES ASSUME NEW i \in 1 .. Len(t) PROVE t[i] \in Range(s \o t)
        BY DEF Range
    <2>1. Len(s) + i \in 1 .. Len(s \o t)
        BY <1>1
    <2> QED
        BY <1>1, <1>2, <2>1 DEF Range
<1> QED
    BY <1>1, <1>4, <1>5, <1>6

(* A sequence of n pairs of pixels, which are the set R. *)
Pairs(s, n, R) ==
    /\ s \in Seq((Int \X Int) \X (Int \X Int))
    /\ n \in Nat /\ Len(s) = n
    /\ Range(s) = R

LEMMA PairsJoined ==
    ASSUME NEW s, NEW n, NEW R, Pairs(s, n, R), NEW t, NEW m, NEW Q, Pairs(t, m, Q)
    PROVE  Pairs(s \o t, n + m, R \cup Q)
<1> DEFINE A == (Int \X Int) \X (Int \X Int)
<1>1. s \in Seq(A) /\ t \in Seq(A)
    BY DEF Pairs
<1> HIDE DEF A
<1>2. /\ s \o t \in Seq(A) /\ Len(s \o t) = Len(s) + Len(t)
      /\ Range(s \o t) = Range(s) \cup Range(t)
    BY <1>1, RangeOfConcat
<1> QED
    BY <1>2 DEF Pairs, A

LEMMA EdgesAreSides ==
    ASSUME NEW c \in Point, NEW others, CellW \in Int, CellH \in Int
    PROVE  Pairs(Edges(c, others), SideCount(c, others), Pixels(Sides(c, others)))
<1> DEFINE x == c[1]  y == c[2]
           Kept(at, from, to) == IF at \in others THEN <<>> ELSE << <<Pixel(from), Pixel(to)>> >>
           k1 == Kept(<<x, y - 1>>, <<x, y>>, <<x + 1, y>>)
           k2 == Kept(<<x + 1, y>>, <<x + 1, y>>, <<x + 1, y + 1>>)
           k3 == Kept(<<x, y + 1>>, <<x + 1, y + 1>>, <<x, y + 1>>)
           k4 == Kept(<<x - 1, y>>, <<x, y + 1>>, <<x, y>>)
<1>1. Edges(c, others) = k1 \o k2 \o k3 \o k4
    <2>1. /\ Pixel(<<x, y>>) = <<x * CellW, y * CellH>>
          /\ Pixel(<<x + 1, y>>) = <<x * CellW + CellW, y * CellH>>
          /\ Pixel(<<x + 1, y + 1>>) = <<x * CellW + CellW, y * CellH + CellH>>
          /\ Pixel(<<x, y + 1>>) = <<x * CellW, y * CellH + CellH>>
        BY DEF Pixel, Point
    <2> QED
        BY <2>1 DEF Edges
<1> DEFINE Count(at) == IF at \in others THEN 0 ELSE 1
           Side(at, from, to) == IF at \in others THEN {} ELSE {<<from, to>>}
           s1 == Side(<<x, y - 1>>, <<x, y>>, <<x + 1, y>>)
           s2 == Side(<<x + 1, y>>, <<x + 1, y>>, <<x + 1, y + 1>>)
           s3 == Side(<<x, y + 1>>, <<x + 1, y + 1>>, <<x, y + 1>>)
           s4 == Side(<<x - 1, y>>, <<x, y + 1>>, <<x, y>>)
<1>2. ASSUME NEW at, NEW from \in Point, NEW to \in Point
      PROVE  Pairs(Kept(at, from, to), Count(at), Pixels(Side(at, from, to)))
    <2>1. Pixel(from) \in Int \X Int /\ Pixel(to) \in Int \X Int
        BY DEF Pixel, Point
    <2>2. CASE at \in others
        BY <2>2 DEF Range, Pairs, Pixels
    <2>3. CASE at \notin others
        <3>1. Kept(at, from, to) = << <<Pixel(from), Pixel(to)>> >> /\ Count(at) = 1
            BY <2>3
        <3>2. Side(at, from, to) = {<<from, to>>}
            BY <2>3
        <3>3. Range(Kept(at, from, to)) = {<<Pixel(from), Pixel(to)>>}
            BY <3>1 DEF Range
        <3> QED
            BY <2>1, <2>3, <3>1, <3>2, <3>3 DEF Pairs, Pixels
    <2> QED
        BY <2>2, <2>3
<1>3. /\ <<x, y>> \in Point /\ <<x + 1, y>> \in Point
      /\ <<x + 1, y + 1>> \in Point /\ <<x, y + 1>> \in Point
    BY DEF Point
<1>4. Sides(c, others) = s1 \cup s2 \cup s3 \cup s4
    BY DEF Sides
<1>5. SideCount(c, others) = Count(<<x, y - 1>>) + Count(<<x + 1, y>>)
                             + Count(<<x, y + 1>>) + Count(<<x - 1, y>>)
    BY DEF SideCount
<1> HIDE DEF Kept, Side, Count
<1>6. /\ Pairs(k1, Count(<<x, y - 1>>), Pixels(s1)) /\ Pairs(k2, Count(<<x + 1, y>>), Pixels(s2))
      /\ Pairs(k3, Count(<<x, y + 1>>), Pixels(s3)) /\ Pairs(k4, Count(<<x - 1, y>>), Pixels(s4))
    BY <1>2, <1>3
<1> HIDE DEF k1, k2, k3, k4, s1, s2, s3, s4
<1>7. Pairs(k1 \o k2, Count(<<x, y - 1>>) + Count(<<x + 1, y>>), Pixels(s1) \cup Pixels(s2))
    BY <1>6, PairsJoined
<1>8. Pairs(k1 \o k2 \o k3, Count(<<x, y - 1>>) + Count(<<x + 1, y>>) + Count(<<x, y + 1>>),
            Pixels(s1) \cup Pixels(s2) \cup Pixels(s3))
    BY <1>6, <1>7, PairsJoined
<1>9. Pairs(k1 \o k2 \o k3 \o k4,
            Count(<<x, y - 1>>) + Count(<<x + 1, y>>) + Count(<<x, y + 1>>) + Count(<<x - 1, y>>),
            Pixels(s1) \cup Pixels(s2) \cup Pixels(s3) \cup Pixels(s4))
    BY <1>6, <1>8, PairsJoined
<1>10. Pixels(s1) \cup Pixels(s2) \cup Pixels(s3) \cup Pixels(s4) = 
        Pixels(s1 \cup s2 \cup s3 \cup s4)
    BY DEF Pixels
<1> QED
    BY <1>1, <1>4, <1>5, <1>9, <1>10

LEMMA Flattened1 ==
    ASSUME NEW q, Len(q) = 1
    PROVE  FlattenSeq(q) = q[1]
<1> DEFINE IsFlat(f) == f = [i \in 1 .. 1 |-> IF i = 1 THEN q[i] ELSE f[i - 1] \o q[i]]
           h == CHOOSE f : IsFlat(f)
           f0 == [i \in 1 .. 1 |-> q[1]]
<1>1. IsFlat(f0)
    OBVIOUS
<1>2. IsFlat(h)
    <2> HIDE DEF f0, IsFlat
    <2> QED
        BY <1>1
<1>3. FlattenSeq(q) = h[1]
    BY DEF FlattenSeq
<1> HIDE DEF h
<1> QED
    BY <1>2, <1>3

LEMMA Flattened2 ==
    ASSUME NEW q, Len(q) = 2
    PROVE  FlattenSeq(q) = q[1] \o q[2]
<1> DEFINE IsFlat(f) == f = [i \in 1 .. 2 |-> IF i = 1 THEN q[i] ELSE f[i - 1] \o q[i]]
           h == CHOOSE f : IsFlat(f)
           f0 == [i \in 1 .. 2 |-> IF i = 1 THEN q[1] ELSE q[1] \o q[2]]
<1>1. IsFlat(f0)
    <2>1. ASSUME NEW i \in 1 .. 2
          PROVE  f0[i] = IF i = 1 THEN q[i] ELSE f0[i - 1] \o q[i]
        OBVIOUS
    <2> QED
        BY <2>1
<1>2. IsFlat(h)
    <2> HIDE DEF f0, IsFlat
    <2> QED
        BY <1>1
<1>3. FlattenSeq(q) = h[2]
    BY DEF FlattenSeq
<1> HIDE DEF h
<1>4. h[1] = q[1] /\ h[2] = h[1] \o q[2]
    BY <1>2
<1> QED
    BY <1>3, <1>4

LEMMA Flattened3 ==
    ASSUME NEW q, Len(q) = 3
    PROVE  FlattenSeq(q) = q[1] \o q[2] \o q[3]
<1> DEFINE IsFlat(f) == f = [i \in 1 .. 3 |-> IF i = 1 THEN q[i] ELSE f[i - 1] \o q[i]]
           h == CHOOSE f : IsFlat(f)
           f0 == [i \in 1 .. 3 |-> IF i = 1 THEN q[1] ELSE IF i = 2 THEN q[1] \o q[2]
                                   ELSE q[1] \o q[2] \o q[3]]
<1>1. IsFlat(f0)
    <2>1. ASSUME NEW i \in 1 .. 3
          PROVE  f0[i] = IF i = 1 THEN q[i] ELSE f0[i - 1] \o q[i]
        OBVIOUS
    <2> QED
        BY <2>1
<1>2. IsFlat(h)
    <2> HIDE DEF f0, IsFlat
    <2> QED
        BY <1>1
<1>3. FlattenSeq(q) = h[3]
    BY DEF FlattenSeq
<1> HIDE DEF h
<1>4. \A i \in 1 .. 3 : h[i] = IF i = 1 THEN q[i] ELSE h[i - 1] \o q[i]
    BY <1>2
<1>5. h[1] = q[1] /\ h[2] = h[1] \o q[2] /\ h[3] = h[2] \o q[3]
    <2>1. h[3] = h[3 - 1] \o q[3]
        BY <1>4
    <2>2. h[2] = h[2 - 1] \o q[2]
        BY <1>4
    <2>3. h[1] = q[1]
        BY <1>4
    <2>4. h[3 - 1] = h[2] /\ h[2 - 1] = h[1]
        OBVIOUS
    <2> QED
        BY <2>1, <2>2, <2>3, <2>4
<1> QED
    BY <1>3, <1>5

(* The segments of a group of one, two or three cells. *)
LEMMA SegmentsOf1 ==
    ASSUME NEW c \in Point, CellW \in Int, CellH \in Int
    PROVE  Pairs(Segments(<<c>>), SideCount(c, {c}), Pixels(Sides(c, {c})))
<1> DEFINE g == <<c>>
           q == [k \in DOMAIN g |-> Edges(g[k], Range(g))]
<1>1. Range(g) = {c}
    BY DEF Range
<1>2. Len(q) = 1 /\ q[1] = Edges(c, {c})
    BY <1>1
<1>3. Segments(g) = FlattenSeq(q)
    BY DEF Segments
<1> HIDE DEF q
<1>4. Segments(g) = Edges(c, {c})
    BY <1>2, <1>3, Flattened1
<1> QED
    BY <1>4, EdgesAreSides

LEMMA SegmentsOf2 ==
    ASSUME NEW c \in Point, NEW d \in Point, CellW \in Int, CellH \in Int
    PROVE  Pairs(Segments(<<c, d>>), SideCount(c, {c, d}) + SideCount(d, {c, d}),
                 Pixels(Sides(c, {c, d}) \cup Sides(d, {c, d})))
<1> DEFINE g == <<c, d>>
           all == {c, d}
           q == [k \in DOMAIN g |-> Edges(g[k], Range(g))]
<1>1. Range(g) = all
    BY DEF Range
<1>2. Len(q) = 2 /\ q[1] = Edges(c, all) /\ q[2] = Edges(d, all)
    BY <1>1
<1>3. Segments(g) = FlattenSeq(q)
    BY DEF Segments
<1> HIDE DEF q, all
<1>4. Segments(g) = Edges(c, all) \o Edges(d, all)
    BY <1>2, <1>3, Flattened2
<1>5. /\ Pairs(Edges(c, all), SideCount(c, all), Pixels(Sides(c, all)))
      /\ Pairs(Edges(d, all), SideCount(d, all), Pixels(Sides(d, all)))
    BY EdgesAreSides
<1>6. Pairs(Edges(c, all) \o Edges(d, all), SideCount(c, all) + SideCount(d, all),
            Pixels(Sides(c, all)) \cup Pixels(Sides(d, all)))
    BY <1>5, PairsJoined
<1>7. Pixels(Sides(c, all)) \cup Pixels(Sides(d, all)) = Pixels(Sides(c, all) \cup Sides(d, all))
    BY DEF Pixels
<1> QED
    BY <1>4, <1>6, <1>7 DEF all

LEMMA SegmentsOf3 ==
    ASSUME NEW c \in Point, NEW d \in Point, NEW e \in Point, CellW \in Int, CellH \in Int
    PROVE  Pairs(Segments(<<c, d, e>>),
                 SideCount(c, {c, d, e}) + SideCount(d, {c, d, e}) + SideCount(e, {c, d, e}),
                 Pixels(Sides(c, {c, d, e}) \cup Sides(d, {c, d, e}) \cup Sides(e, {c, d, e})))
<1> DEFINE g == <<c, d, e>>
           all == {c, d, e}
           q == [k \in DOMAIN g |-> Edges(g[k], Range(g))]
<1>1. Range(g) = all
    BY DEF Range
<1>2. Len(q) = 3 /\ q[1] = Edges(c, all) /\ q[2] = Edges(d, all) /\ q[3] = Edges(e, all)
    BY <1>1
<1>3. Segments(g) = FlattenSeq(q)
    BY DEF Segments
<1> HIDE DEF q, all
<1>4. Segments(g) = Edges(c, all) \o Edges(d, all) \o Edges(e, all)
    BY <1>2, <1>3, Flattened3
<1>5. /\ Pairs(Edges(c, all), SideCount(c, all), Pixels(Sides(c, all)))
      /\ Pairs(Edges(d, all), SideCount(d, all), Pixels(Sides(d, all)))
      /\ Pairs(Edges(e, all), SideCount(e, all), Pixels(Sides(e, all)))
    BY EdgesAreSides
<1>6. Pairs(Edges(c, all) \o Edges(d, all), SideCount(c, all) + SideCount(d, all),
            Pixels(Sides(c, all)) \cup Pixels(Sides(d, all)))
    BY <1>5, PairsJoined
<1>7. Pairs(Edges(c, all) \o Edges(d, all) \o Edges(e, all),
            SideCount(c, all) + SideCount(d, all) + SideCount(e, all),
            Pixels(Sides(c, all)) \cup Pixels(Sides(d, all)) \cup Pixels(Sides(e, all)))
    BY <1>5, <1>6, PairsJoined
<1>8. Pixels(Sides(c, all)) \cup Pixels(Sides(d, all)) \cup Pixels(Sides(e, all))
        = Pixels(Sides(c, all) \cup Sides(d, all) \cup Sides(e, all))
    BY DEF Pixels
<1> QED
    BY <1>4, <1>7, <1>8 DEF all

HasPixels == CellW \in Nat /\ CellW > 0 /\ CellH \in Nat /\ CellH > 0
HasOutline(g) == \E n, P : Surrounds(Segments(g), n, P)

(* The sides of a group of cells, as corners of the grid, and that they go *)
(* around a polygon.                                                       *)
GroupSides(g) == UNION {Sides(c, Range(g)) : c \in Range(g)}

Corners(Q, n) ==
    /\ n \in Nat \ {0} /\ Q \in [0 .. n - 1 -> Point]
    /\ \A i, k \in 0 .. n - 1 : Q[i] = Q[k] => i = k
HasRing(g) ==
    \E n, Q : /\ Corners(Q, n) /\ Ring(Q, n) = GroupSides(g)
              /\ Pairs(Segments(g), n, Pixels(Ring(Q, n)))

(* When the cells have a width and a height, corners of the grid are different pixels. *)
LEMMA GridCornersDiffer ==
    ASSUME HasPixels, NEW a \in Point, NEW b \in Point, Pixel(a) = Pixel(b)
    PROVE  a = b
<1> USE DEF HasPixels
<1>1. a[1] * CellW = b[1] * CellW /\ a[2] * CellH = b[2] * CellH
    BY DEF Pixel
<1>2. a[1] = b[1]
    <2>1. (a[1] - b[1]) * CellW = 0
        BY <1>1 DEF Point
    <2> QED
        BY <2>1 DEF Point
<1>3. a[2] = b[2]
    <2>1. (a[2] - b[2]) * CellH = 0
        BY <1>1 DEF Point
    <2> QED
        BY <2>1 DEF Point
<1> QED
    BY <1>2, <1>3 DEF Point

(* So a ring of corners is a ring of pixels. *)
LEMMA RingOfPixels ==
    ASSUME HasPixels,
           NEW n, NEW Q, Corners(Q, n),
           NEW g, Pairs(Segments(g), n, Pixels(Ring(Q, n)))
    PROVE  HasOutline(g)
<1> DEFINE P == [i \in 0 .. n - 1 |-> Pixel(Q[i])]
           s == Segments(g)
<1>0. /\ n \in Nat /\ n # 0 /\ Q \in [0 .. n - 1 -> Point]
      /\ \A i, k \in 0 .. n - 1 : Q[i] = Q[k] => i = k
    BY DEF Corners
<1>1. \A a, b \in Point : Pixel(a) = Pixel(b) => a = b
    BY GridCornersDiffer
<1>2. \A i, k \in 0 .. n - 1 : P[i] = P[k] => i = k
    BY <1>0, <1>1
<1>3. \A i \in 0 .. n - 1 : Following(i, n) \in 0 .. n - 1
    BY <1>0 DEF Following
<1>4. Ring(P, n) = Pixels(Ring(Q, n))
    <2> DEFINE corners(i) == <<Q[i], Q[Following(i, n)]>>
    <2>1. \A i \in 0 .. n - 1 :
            <<P[i], P[Following(i, n)]>> = <<Pixel(corners(i)[1]), Pixel(corners(i)[2])>>
        BY <1>0, <1>3
    <2> HIDE DEF P
    <2>2. Ring(P, n) \subseteq Pixels(Ring(Q, n))
        <3> SUFFICES ASSUME NEW i \in 0 .. n - 1
                     PROVE  <<P[i], P[Following(i, n)]>> \in Pixels(Ring(Q, n))
            BY DEF Ring
        <3>1. corners(i) \in Ring(Q, n)
            BY DEF Ring
        <3> QED
            BY <2>1, <3>1 DEF Pixels
    <2>3. Pixels(Ring(Q, n)) \subseteq Ring(P, n)
        <3> SUFFICES ASSUME NEW e \in Ring(Q, n)
                     PROVE  <<Pixel(e[1]), Pixel(e[2])>> \in Ring(P, n)
            BY DEF Pixels
        <3>1. PICK i \in 0 .. n - 1 : e = corners(i)
            BY DEF Ring
        <3>2. <<P[i], P[Following(i, n)]>> \in Ring(P, n)
            BY DEF Ring
        <3> QED
            BY <2>1, <3>1, <3>2
    <2> QED
        BY <2>2, <2>3
<1> HIDE DEF P
<1>5. DOMAIN s = 1 .. n /\ Len(s) = n /\ Range(s) = Ring(P, n)
    BY <1>4 DEF Pairs
<1>6. Surrounds(s, n, P)
    BY <1>0, <1>2, <1>5 DEF Surrounds
<1> QED
    BY <1>6 DEF HasOutline

LEMMA RingOf1 ==
    ASSUME CellW \in Int, CellH \in Int, NEW a \in Point,
           NEW n, NEW Q, Corners(Q, n),
           SideCount(a, {a}) = n,
           Ring(Q, n) = Sides(a, {a})
    PROVE  HasRing(<<a>>)
<1>1. Pairs(Segments(<<a>>), n, Pixels(Ring(Q, n)))
    BY SegmentsOf1
<1>2. Ring(Q, n) = GroupSides(<<a>>)
    <2>1. Range(<<a>>) = {a}
        BY DEF Range
    <2> QED
        BY <2>1 DEF GroupSides
<1> QED
    BY <1>1, <1>2 DEF HasRing

LEMMA RingOf2 ==
    ASSUME CellW \in Int, CellH \in Int, NEW a \in Point, NEW b \in Point,
           NEW n, NEW Q, Corners(Q, n),
           SideCount(a, {a, b}) + SideCount(b, {a, b}) = n,
           Ring(Q, n) = Sides(a, {a, b}) \cup Sides(b, {a, b})
    PROVE  HasRing(<<a, b>>)
<1>1. Pairs(Segments(<<a, b>>), n, Pixels(Ring(Q, n)))
    BY SegmentsOf2
<1>2. Ring(Q, n) = GroupSides(<<a, b>>)
    <2>1. Range(<<a, b>>) = {a, b}
        BY DEF Range
    <2> QED
        BY <2>1 DEF GroupSides
<1> QED
    BY <1>1, <1>2 DEF HasRing

LEMMA RingOf3 ==
    ASSUME CellW \in Int, CellH \in Int, NEW a \in Point, NEW b \in Point, NEW d \in Point,
           NEW n, NEW Q, Corners(Q, n),
           SideCount(a, {a, b, d}) + SideCount(b, {a, b, d}) + SideCount(d, {a, b, d}) = n,
           Ring(Q, n) = Sides(a, {a, b, d}) \cup Sides(b, {a, b, d}) \cup Sides(d, {a, b, d})
    PROVE  HasRing(<<a, b, d>>)
<1>1. Pairs(Segments(<<a, b, d>>), n, Pixels(Ring(Q, n)))
    BY SegmentsOf3
<1>2. Ring(Q, n) = GroupSides(<<a, b, d>>)
    <2>1. Range(<<a, b, d>>) = {a, b, d}
        BY DEF Range
    <2> QED
        BY <2>1 DEF GroupSides
<1> QED
    BY <1>1, <1>2 DEF HasRing

LEMMA Ring4 ==
    ASSUME NEW q1, NEW q2, NEW q3, NEW q4
    PROVE  Ring([i \in 0 .. 3 |-> <<q1, q2, q3, q4>>[i + 1]], 4)
             = {<<q1, q2>>, <<q2, q3>>, <<q3, q4>>, <<q4, q1>>}
<1> DEFINE Q == [i \in 0 .. 3 |-> <<q1, q2, q3, q4>>[i + 1]]
<1>1. 0 .. 3 = {0, 1, 2, 3}
    OBVIOUS
<1>2. Q[0] = q1 /\ Q[1] = q2 /\ Q[2] = q3 /\ Q[3] = q4
    OBVIOUS
<1>3. Following(0, 4) = 1 /\ Following(1, 4) = 2 /\ Following(2, 4) = 3 /\
      Following(3, 4) = 0
    BY DEF Following
<1> HIDE DEF Q
<1>4. Ring(Q, 4) = {<<Q[i], Q[Following(i, 4)]>> : i \in {0, 1, 2, 3}}
    BY <1>1 DEF Ring
<1> QED
    BY <1>2, <1>3, <1>4 DEF Q

LEMMA Ring6 ==
    ASSUME NEW q1, NEW q2, NEW q3, NEW q4, NEW q5, NEW q6
    PROVE  Ring([i \in 0 .. 5 |-> <<q1, q2, q3, q4, q5, q6>>[i + 1]], 6)
             = {<<q1, q2>>, <<q2, q3>>, <<q3, q4>>, <<q4, q5>>, <<q5, q6>>, <<q6, q1>>}
<1> DEFINE Q == [i \in 0 .. 5 |-> <<q1, q2, q3, q4, q5, q6>>[i + 1]]
<1>1. 0 .. 5 = {0, 1, 2, 3, 4, 5}
    OBVIOUS
<1>2. Q[0] = q1 /\ Q[1] = q2 /\ Q[2] = q3 /\ Q[3] = q4 /\ Q[4] = q5 /\ Q[5] = q6
    OBVIOUS
<1>3. Following(0, 6) = 1 /\ Following(1, 6) = 2 /\ Following(2, 6) = 3 /\
      Following(3, 6) = 4 /\ Following(4, 6) = 5 /\ Following(5, 6) = 0
    BY DEF Following
<1> HIDE DEF Q
<1>4. Ring(Q, 6) = {<<Q[i], Q[Following(i, 6)]>> : i \in {0, 1, 2, 3, 4, 5}}
    BY <1>1 DEF Ring
<1> QED
    BY <1>2, <1>3, <1>4 DEF Q

LEMMA Ring8 ==
    ASSUME NEW q1, NEW q2, NEW q3, NEW q4, NEW q5, NEW q6, NEW q7, NEW q8
    PROVE  Ring([i \in 0 .. 7 |-> <<q1, q2, q3, q4, q5, q6, q7, q8>>[i + 1]], 8)
             = {<<q1, q2>>, <<q2, q3>>, <<q3, q4>>, <<q4, q5>>, <<q5, q6>>, <<q6, q7>>,
                <<q7, q8>>, <<q8, q1>>}
<1> DEFINE Q == [i \in 0 .. 7 |-> <<q1, q2, q3, q4, q5, q6, q7, q8>>[i + 1]]
<1>1. 0 .. 7 = {0, 1, 2, 3, 4, 5, 6, 7}
    OBVIOUS
<1>2. Q[0] = q1 /\ Q[1] = q2 /\ Q[2] = q3 /\ Q[3] = q4 /\ Q[4] = q5 /\ Q[5] = q6 /\
      Q[6] = q7 /\ Q[7] = q8
    OBVIOUS
<1>3. Following(0, 8) = 1 /\ Following(1, 8) = 2 /\ Following(2, 8) = 3 /\
      Following(3, 8) = 4 /\ Following(4, 8) = 5 /\ Following(5, 8) = 6 /\
      Following(6, 8) = 7 /\ Following(7, 8) = 0
    BY DEF Following
<1> HIDE DEF Q
<1>4. Ring(Q, 8) = {<<Q[i], Q[Following(i, 8)]>> : i \in {0, 1, 2, 3, 4, 5, 6, 7}}
    BY <1>1 DEF Ring
<1> QED
    BY <1>2, <1>3, <1>4 DEF Q

LEMMA SingleRing ==
    ASSUME NEW c \in Point, CellW \in Int, CellH \in Int PROVE HasRing(<<c>>)
<1> DEFINE p(i, j) == <<c[1] + i, c[2] + j>>
           all == {p(0, 0)}
           Q == [i \in 0 .. 3 |-> <<p(0, 0), p(1, 0), p(1, 1), p(0, 1)>>[i + 1]]
<1>1. Corners(Q, 4)
    BY DEF Corners, Point
<1>2. /\ Sides(p(0, 0), all) = {<<p(0, 0), p(1, 0)>>, <<p(1, 0), p(1, 1)>>,
            <<p(1, 1), p(0, 1)>>, <<p(0, 1), p(0, 0)>>}
      /\ SideCount(p(0, 0), all) = 4
    BY DEF Sides, SideCount, Point
<1>3. Ring(Q, 4) = Sides(p(0, 0), all)
    <2>1. Ring(Q, 4) = {<<p(0, 0), p(1, 0)>>, <<p(1, 0), p(1, 1)>>,
                         <<p(1, 1), p(0, 1)>>, <<p(0, 1), p(0, 0)>>}
        BY Ring4
    <2> QED
        BY <2>1, <1>2
<1>4. p(0, 0) \in Point
    BY DEF Point
<1>5. <<c>> = <<p(0, 0)>>
    BY DEF Place, Template, Point
<1> HIDE DEF p, Q
<1>6. SideCount(p(0, 0), all) = 4
    <2> HIDE DEF all
    <2> QED
        BY <1>2
<1> QED
    BY <1>1, <1>3, <1>4, <1>5, <1>6, RingOf1

LEMMA TemplateRing1 ==
    ASSUME NEW c \in Point, CellW \in Int, CellH \in Int PROVE HasRing(Place(1, c))
<1> DEFINE p(i, j) == <<c[1] + i, c[2] + j>>
           all == {p(0, 0), p(1, 0)}
           Q == [i \in 0 .. 5 |-> <<p(0, 0), p(1, 0), p(2, 0), p(2, 1), p(1, 1),
                                   p(0, 1)>>[i + 1]]
<1>1. Corners(Q, 6)
    BY DEF Corners, Point
<1>2. /\ Sides(p(0, 0), all) = {<<p(0, 0), p(1, 0)>>, <<p(1, 1), p(0, 1)>>,
            <<p(0, 1), p(0, 0)>>}
      /\ SideCount(p(0, 0), all) = 3
    BY DEF Sides, SideCount, Point
<1>3. /\ Sides(p(1, 0), all) = {<<p(1, 0), p(2, 0)>>, <<p(2, 0), p(2, 1)>>,
            <<p(2, 1), p(1, 1)>>}
      /\ SideCount(p(1, 0), all) = 3
    BY DEF Sides, SideCount, Point
<1>4. Ring(Q, 6) = Sides(p(0, 0), all) \cup Sides(p(1, 0), all)
    <2>1. Ring(Q, 6) = {<<p(0, 0), p(1, 0)>>, <<p(1, 0), p(2, 0)>>,
                         <<p(2, 0), p(2, 1)>>, <<p(2, 1), p(1, 1)>>,
                         <<p(1, 1), p(0, 1)>>, <<p(0, 1), p(0, 0)>>}
        BY Ring6
    <2> QED
        BY <2>1, <1>2, <1>3
<1>5. p(0, 0) \in Point /\ p(1, 0) \in Point
    BY DEF Point
<1>6. Place(1, c) = <<p(0, 0), p(1, 0)>>
    BY DEF Place, Template, Point
<1> HIDE DEF p, Q
<1>7. SideCount(p(0, 0), all) + SideCount(p(1, 0), all) = 6
    <2> HIDE DEF all
    <2> QED
        BY <1>2, <1>3
<1> QED
    BY <1>1, <1>4, <1>5, <1>6, <1>7, RingOf2

LEMMA TemplateRing2 ==
    ASSUME NEW c \in Point, CellW \in Int, CellH \in Int PROVE HasRing(Place(2, c))
<1> DEFINE p(i, j) == <<c[1] + i, c[2] + j>>
           all == {p(0, 0), p(0, 1)}
           Q == [i \in 0 .. 5 |-> <<p(0, 0), p(1, 0), p(1, 1), p(1, 2), p(0, 2),
                                   p(0, 1)>>[i + 1]]
<1>1. Corners(Q, 6)
    BY DEF Corners, Point
<1>2. /\ Sides(p(0, 0), all) = {<<p(0, 0), p(1, 0)>>, <<p(1, 0), p(1, 1)>>,
            <<p(0, 1), p(0, 0)>>}
      /\ SideCount(p(0, 0), all) = 3
    BY DEF Sides, SideCount, Point
<1>3. /\ Sides(p(0, 1), all) = {<<p(1, 1), p(1, 2)>>, <<p(1, 2), p(0, 2)>>,
            <<p(0, 2), p(0, 1)>>}
      /\ SideCount(p(0, 1), all) = 3
    BY DEF Sides, SideCount, Point
<1>4. Ring(Q, 6) = Sides(p(0, 0), all) \cup Sides(p(0, 1), all)
    <2>1. Ring(Q, 6) = {<<p(0, 0), p(1, 0)>>, <<p(1, 0), p(1, 1)>>,
                         <<p(1, 1), p(1, 2)>>, <<p(1, 2), p(0, 2)>>,
                         <<p(0, 2), p(0, 1)>>, <<p(0, 1), p(0, 0)>>}
        BY Ring6
    <2> QED
        BY <2>1, <1>2, <1>3
<1>5. p(0, 0) \in Point /\ p(0, 1) \in Point
    BY DEF Point
<1>6. Place(2, c) = <<p(0, 0), p(0, 1)>>
    BY DEF Place, Template, Point
<1> HIDE DEF p, Q
<1>7. SideCount(p(0, 0), all) + SideCount(p(0, 1), all) = 6
    <2> HIDE DEF all
    <2> QED
        BY <1>2, <1>3
<1> QED
    BY <1>1, <1>4, <1>5, <1>6, <1>7, RingOf2

LEMMA TemplateRing3 ==
    ASSUME NEW c \in Point, CellW \in Int, CellH \in Int PROVE HasRing(Place(3, c))
<1> DEFINE p(i, j) == <<c[1] + i, c[2] + j>>
           all == {p(0, 0), p(1, 0), p(0, 1)}
           Q == [i \in 0 .. 7 |-> <<p(0, 0), p(1, 0), p(2, 0), p(2, 1), p(1, 1),
                                   p(1, 2), p(0, 2), p(0, 1)>>[i + 1]]
<1>1. Corners(Q, 8)
    BY DEF Corners, Point
<1>2. /\ Sides(p(0, 0), all) = {<<p(0, 0), p(1, 0)>>, <<p(0, 1), p(0, 0)>>}
      /\ SideCount(p(0, 0), all) = 2
    BY DEF Sides, SideCount, Point
<1>3. /\ Sides(p(1, 0), all) = {<<p(1, 0), p(2, 0)>>, <<p(2, 0), p(2, 1)>>,
            <<p(2, 1), p(1, 1)>>}
      /\ SideCount(p(1, 0), all) = 3
    BY DEF Sides, SideCount, Point
<1>4. /\ Sides(p(0, 1), all) = {<<p(1, 1), p(1, 2)>>, <<p(1, 2), p(0, 2)>>,
            <<p(0, 2), p(0, 1)>>}
      /\ SideCount(p(0, 1), all) = 3
    BY DEF Sides, SideCount, Point
<1>5. Ring(Q, 8) = Sides(p(0, 0), all) \cup Sides(p(1, 0), all) \cup Sides(p(0, 1), all)
    <2>1. Ring(Q, 8) = {<<p(0, 0), p(1, 0)>>, <<p(1, 0), p(2, 0)>>,
                         <<p(2, 0), p(2, 1)>>, <<p(2, 1), p(1, 1)>>,
                         <<p(1, 1), p(1, 2)>>, <<p(1, 2), p(0, 2)>>,
                         <<p(0, 2), p(0, 1)>>, <<p(0, 1), p(0, 0)>>}
        BY Ring8
    <2> QED
        BY <2>1, <1>2, <1>3, <1>4
<1>6. p(0, 0) \in Point /\ p(1, 0) \in Point /\ p(0, 1) \in Point
    BY DEF Point
<1>7. Place(3, c) = <<p(0, 0), p(1, 0), p(0, 1)>>
    BY DEF Place, Template, Point
<1> HIDE DEF p, Q
<1>8. SideCount(p(0, 0), all) + SideCount(p(1, 0), all) + SideCount(p(0, 1), all) = 8
    <2> HIDE DEF all
    <2> QED
        BY <1>2, <1>3, <1>4
<1> QED
    BY <1>1, <1>5, <1>6, <1>7, <1>8, RingOf3

LEMMA TemplateRing4 ==
    ASSUME NEW c \in Point, CellW \in Int, CellH \in Int PROVE HasRing(Place(4, c))
<1> DEFINE p(i, j) == <<c[1] + i, c[2] + j>>
           all == {p(0, 0), p(1, 0), p(1, 1)}
           Q == [i \in 0 .. 7 |-> <<p(0, 0), p(1, 0), p(2, 0), p(2, 1), p(2, 2),
                                   p(1, 2), p(1, 1), p(0, 1)>>[i + 1]]
<1>1. Corners(Q, 8)
    BY DEF Corners, Point
<1>2. /\ Sides(p(0, 0), all) = {<<p(0, 0), p(1, 0)>>, <<p(1, 1), p(0, 1)>>,
            <<p(0, 1), p(0, 0)>>}
      /\ SideCount(p(0, 0), all) = 3
    BY DEF Sides, SideCount, Point
<1>3. /\ Sides(p(1, 0), all) = {<<p(1, 0), p(2, 0)>>, <<p(2, 0), p(2, 1)>>}
      /\ SideCount(p(1, 0), all) = 2
    BY DEF Sides, SideCount, Point
<1>4. /\ Sides(p(1, 1), all) = {<<p(2, 1), p(2, 2)>>, <<p(2, 2), p(1, 2)>>,
            <<p(1, 2), p(1, 1)>>}
      /\ SideCount(p(1, 1), all) = 3
    BY DEF Sides, SideCount, Point
<1>5. Ring(Q, 8) = Sides(p(0, 0), all) \cup Sides(p(1, 0), all) \cup Sides(p(1, 1), all)
    <2>1. Ring(Q, 8) = {<<p(0, 0), p(1, 0)>>, <<p(1, 0), p(2, 0)>>,
                         <<p(2, 0), p(2, 1)>>, <<p(2, 1), p(2, 2)>>,
                         <<p(2, 2), p(1, 2)>>, <<p(1, 2), p(1, 1)>>,
                         <<p(1, 1), p(0, 1)>>, <<p(0, 1), p(0, 0)>>}
        BY Ring8
    <2> QED
        BY <2>1, <1>2, <1>3, <1>4
<1>6. p(0, 0) \in Point /\ p(1, 0) \in Point /\ p(1, 1) \in Point
    BY DEF Point
<1>7. Place(4, c) = <<p(0, 0), p(1, 0), p(1, 1)>>
    BY DEF Place, Template, Point
<1> HIDE DEF p, Q
<1>8. SideCount(p(0, 0), all) + SideCount(p(1, 0), all) + SideCount(p(1, 1), all) = 8
    <2> HIDE DEF all
    <2> QED
        BY <1>2, <1>3, <1>4
<1> QED
    BY <1>1, <1>5, <1>6, <1>7, <1>8, RingOf3

LEMMA TemplateRing5 ==
    ASSUME NEW c \in Point, CellW \in Int, CellH \in Int PROVE HasRing(Place(5, c))
<1> DEFINE p(i, j) == <<c[1] + i, c[2] + j>>
           all == {p(0, 0), p(0, 1), p(1, 1)}
           Q == [i \in 0 .. 7 |-> <<p(0, 0), p(1, 0), p(1, 1), p(2, 1), p(2, 2),
                                   p(1, 2), p(0, 2), p(0, 1)>>[i + 1]]
<1>1. Corners(Q, 8)
    BY DEF Corners, Point
<1>2. /\ Sides(p(0, 0), all) = {<<p(0, 0), p(1, 0)>>, <<p(1, 0), p(1, 1)>>,
            <<p(0, 1), p(0, 0)>>}
      /\ SideCount(p(0, 0), all) = 3
    BY DEF Sides, SideCount, Point
<1>3. /\ Sides(p(0, 1), all) = {<<p(1, 2), p(0, 2)>>, <<p(0, 2), p(0, 1)>>}
      /\ SideCount(p(0, 1), all) = 2
    BY DEF Sides, SideCount, Point
<1>4. /\ Sides(p(1, 1), all) = {<<p(1, 1), p(2, 1)>>, <<p(2, 1), p(2, 2)>>,
            <<p(2, 2), p(1, 2)>>}
      /\ SideCount(p(1, 1), all) = 3
    BY DEF Sides, SideCount, Point
<1>5. Ring(Q, 8) = Sides(p(0, 0), all) \cup Sides(p(0, 1), all) \cup Sides(p(1, 1), all)
    <2>1. Ring(Q, 8) = {<<p(0, 0), p(1, 0)>>, <<p(1, 0), p(1, 1)>>,
                         <<p(1, 1), p(2, 1)>>, <<p(2, 1), p(2, 2)>>,
                         <<p(2, 2), p(1, 2)>>, <<p(1, 2), p(0, 2)>>,
                         <<p(0, 2), p(0, 1)>>, <<p(0, 1), p(0, 0)>>}
        BY Ring8
    <2> QED
        BY <2>1, <1>2, <1>3, <1>4
<1>6. p(0, 0) \in Point /\ p(0, 1) \in Point /\ p(1, 1) \in Point
    BY DEF Point
<1>7. Place(5, c) = <<p(0, 0), p(0, 1), p(1, 1)>>
    BY DEF Place, Template, Point
<1> HIDE DEF p, Q
<1>8. SideCount(p(0, 0), all) + SideCount(p(0, 1), all) + SideCount(p(1, 1), all) = 8
    <2> HIDE DEF all
    <2> QED
        BY <1>2, <1>3, <1>4
<1> QED
    BY <1>1, <1>5, <1>6, <1>7, <1>8, RingOf3

LEMMA TemplateRing6 ==
    ASSUME NEW c \in Point, CellW \in Int, CellH \in Int PROVE HasRing(Place(6, c))
<1> DEFINE p(i, j) == <<c[1] + i, c[2] + j>>
           all == {p(1, 0), p(0, 1), p(1, 1)}
           Q == [i \in 0 .. 7 |-> <<p(1, 0), p(2, 0), p(2, 1), p(2, 2), p(1, 2),
                                   p(0, 2), p(0, 1), p(1, 1)>>[i + 1]]
<1>1. Corners(Q, 8)
    BY DEF Corners, Point
<1>2. /\ Sides(p(1, 0), all) = {<<p(1, 0), p(2, 0)>>, <<p(2, 0), p(2, 1)>>,
            <<p(1, 1), p(1, 0)>>}
      /\ SideCount(p(1, 0), all) = 3
    BY DEF Sides, SideCount, Point
<1>3. /\ Sides(p(0, 1), all) = {<<p(0, 1), p(1, 1)>>, <<p(1, 2), p(0, 2)>>,
            <<p(0, 2), p(0, 1)>>}
      /\ SideCount(p(0, 1), all) = 3
    BY DEF Sides, SideCount, Point
<1>4. /\ Sides(p(1, 1), all) = {<<p(2, 1), p(2, 2)>>, <<p(2, 2), p(1, 2)>>}
      /\ SideCount(p(1, 1), all) = 2
    BY DEF Sides, SideCount, Point
<1>5. Ring(Q, 8) = Sides(p(1, 0), all) \cup Sides(p(0, 1), all) \cup Sides(p(1, 1), all)
    <2>1. Ring(Q, 8) = {<<p(1, 0), p(2, 0)>>, <<p(2, 0), p(2, 1)>>,
                         <<p(2, 1), p(2, 2)>>, <<p(2, 2), p(1, 2)>>,
                         <<p(1, 2), p(0, 2)>>, <<p(0, 2), p(0, 1)>>,
                         <<p(0, 1), p(1, 1)>>, <<p(1, 1), p(1, 0)>>}
        BY Ring8
    <2> QED
        BY <2>1, <1>2, <1>3, <1>4
<1>6. p(1, 0) \in Point /\ p(0, 1) \in Point /\ p(1, 1) \in Point
    BY DEF Point
<1>7. Place(6, c) = <<p(1, 0), p(0, 1), p(1, 1)>>
    BY DEF Place, Template, Point
<1> HIDE DEF p, Q
<1>8. SideCount(p(1, 0), all) + SideCount(p(0, 1), all) + SideCount(p(1, 1), all) = 8
    <2> HIDE DEF all
    <2> QED
        BY <1>2, <1>3, <1>4
<1> QED
    BY <1>1, <1>5, <1>6, <1>7, <1>8, RingOf3

\* Every group is a single cell or a template.
GroupsPlaced ==
    \A g \in groups : \E c \in Point : g = <<c>> \/ \E i \in 1 .. 6 : g = Place(i, c)

LEMMA CellSizes ==
    ASSUME Config, Cols > 0, Rows > 0
    PROVE  /\ Cols \in Nat /\ Rows \in Nat /\ size[1] \in Nat /\ size[2] \in Nat
           /\ CellW \in Nat /\ CellH \in Nat
           /\ Fine => HasPixels
<1>1. Cols \in Nat /\ Rows \in Nat /\ size[1] \in Nat /\ size[2] \in Nat
    BY DEF Config, Cols, Rows
<1>2. CellW \in Nat /\ (size[1] >= Cols => CellW > 0)
    BY <1>1 DEF CellW
<1>3. CellH \in Nat /\ (size[2] >= Rows => CellH > 0)
    BY <1>1 DEF CellH
<1> QED
    BY <1>1, <1>2, <1>3 DEF HasPixels, Fine

LEMMA GroupsHaveRings ==
    ASSUME Config, Cols > 0, Rows > 0, GroupsPlaced, NEW g \in groups
    PROVE  HasRing(g)
<1>1. CellW \in Int /\ CellH \in Int
    BY CellSizes
<1>2. PICK c \in Point : g = <<c>> \/ \E i \in 1 .. 6 : g = Place(i, c)
    BY DEF GroupsPlaced
<1>3. \A i \in 1 .. 6 : HasRing(Place(i, c))
    <2>1. \A i \in 1 .. 6 : i \in {1, 2, 3, 4, 5, 6}
        OBVIOUS
    <2> QED
        BY <1>1, <2>1, TemplateRing1, TemplateRing2, TemplateRing3,
           TemplateRing4, TemplateRing5, TemplateRing6
<1> QED
    BY <1>1, <1>2, <1>3, SingleRing

LEMMA GroupsHaveOutlines ==
    ASSUME TypeInv, GroupsPlaced, Fine, NEW g \in groups
    PROVE  HasOutline(g)
<1>1. Cols > 0 /\ Rows > 0 /\ Config
    <2>1. g[1] \in Cell
        BY DEF TypeInv, GroupShape
    <2> QED
        BY <2>1 DEF TypeInv, Config, Cols, Rows, Cell
<1>2. HasPixels
    BY <1>1, CellSizes
<1>3. HasRing(g)
    BY <1>1, GroupsHaveRings
<1> QED
    BY <1>2, <1>3, RingOfPixels DEF HasRing

LEMMA OutlinesCloseUp ==
    ASSUME TypeInv, GroupsPlaced, Fine, NEW g \in groups
    PROVE  /\ Returns(Walk(Segments(g))) # {}
           /\ LET outline == GroupOutline(g)  n == Len(outline) IN
              {<<outline[k], outline[IF k = n THEN 1 ELSE k + 1]>> : k \in 1 .. n}
                  = Range(Segments(g))
<1>1. PICK n, P : Surrounds(Segments(g), n, P)
    BY GroupsHaveOutlines DEF HasOutline
<1> QED
    BY <1>1, OutlineIsWhole

OutlineInv == GroupsPlaced /\ (Fine => pc # "endless")

LEMMA OutlineInit == Init => OutlineInv
BY DEF Init, OutlineInv, GroupsPlaced

LEMMA OutlineStep == TypeInv /\ OutlineInv /\ [Next]_vars => OutlineInv'
<1> SUFFICES ASSUME TypeInv, OutlineInv, [Next]_vars PROVE OutlineInv'
    OBVIOUS
<1> USE DEF config
<1>1. ASSUME UNCHANGED groups, pc' # "endless"
      PROVE  OutlineInv'
    BY <1>1 DEF OutlineInv, GroupsPlaced, Place
<1>2. CASE ResizeIfNeeded
    BY <1>1, <1>2 DEF ResizeIfNeeded
<1>3. ASSUME NEW c \in Cell, PlaceGroup(c) PROVE OutlineInv'
    <2>1. PICK g \in {<<c>>} \cup {Place(i, c) : i \in DOMAIN Template} :
            groups' = groups \cup {g}
        BY <1>3 DEF PlaceGroup
    <2>2. c \in Point
        BY DEF TypeInv, Config, Cols, Rows, Cell, Point
    <2>3. DOMAIN Template = 1 .. 6
        BY DEF Template
    <2>4. GroupsPlaced'
        <3>1. groups' \subseteq groups \cup {<<c>>} \cup {Place(i, c) : i \in 1 .. 6}
            BY <2>1, <2>3
        <3>2. ASSUME NEW h \in groups'
              PROVE  \E d \in Point : h = <<d>> \/ \E i \in 1 .. 6 : h = Place(i, d)
            BY <3>1, <2>2 DEF OutlineInv, GroupsPlaced
        <3> QED
            BY <3>2 DEF GroupsPlaced, Place
    <2>5. pc' # "endless"
        BY <1>3 DEF PlaceGroup
    <2> QED
        BY <2>4, <2>5 DEF OutlineInv
<1>4. CASE OutlineGroups
    <2>1. Fine' = Fine
        BY <1>4 DEF OutlineGroups, Fine, Cols, Rows
    <2>2. Fine => \A g \in groups : Returns(Walk(Segments(g))) # {}
        BY OutlinesCloseUp DEF OutlineInv
    <2>3. Fine => pc' = "done"
        BY <1>4, <2>2 DEF OutlineGroups
    <2>4. GroupsPlaced'
        BY <1>4 DEF OutlineGroups, OutlineInv, GroupsPlaced, Place
    <2> QED
        BY <2>1, <2>3, <2>4 DEF OutlineInv
<1>5. CASE Grid
    BY <1>1, <1>5 DEF Grid, Cut
<1>6. CASE Geometry \/ Parallelograms
    BY <1>1, <1>6 DEF Geometry, Parallelograms, Cut
<1>7. CASE DrawTabs
    BY <1>1, <1>7 DEF DrawTabs
<1>8. CASE Puzzle
    BY <1>1, <1>8 DEF Puzzle, Cut
<1>9. CASE UNCHANGED vars
    BY <1>9 DEF vars, OutlineInv, GroupsPlaced, Place, Fine, Cols, Rows
<1> QED
    BY <1>2, <1>3, <1>4, <1>5, <1>6, <1>7, <1>8, <1>9 DEF Next

(* As long as there is a pixel for every column and every row, whatever    *)
(* groups the merge makes of whatever image: the walk along the outline of *)
(* a group ends (groupOutline), and it is the whole outline.               *)
THEOREM MergeOutlinesAreWhole == Spec => []OutlinesAreWhole
<1>1. TypeInv /\ OutlineInv => OutlinesAreWhole
    BY OutlinesCloseUp DEF OutlineInv, OutlinesAreWhole
<1> QED
    BY <1>1, TypeIsInvariant, OutlineInit, OutlineStep, PTL DEF Spec

(***************************************************************************)
(* The edges of a jigsaw follow from the types alone.                      *)
(***************************************************************************)
LEMMA EdgesAgree == TypeInv => EdgesMatch
<1> SUFFICES ASSUME TypeInv, mode = "puzzle", tabs # None, NEW c \in Cell
             PROVE  /\ c[1] < Cols - 1 => Right(c) = Reverse(Left(<<c[1] + 1, c[2]>>))
                    /\ c[2] < Rows - 1 => Bottom(c) = Reverse(Top(<<c[1], c[2] + 1>>))
    BY DEF EdgesMatch
<1>1. Cols \in Int /\ Rows \in Int /\ Config
    BY DEF TypeInv, Config, Cols, Rows
<1>2. c[1] \in 0 .. Cols - 1 /\ c[2] \in 0 .. Rows - 1 /\ c = <<c[1], c[2]>>
    BY <1>1 DEF Cell
<1>3. ASSUME c[1] < Cols - 1 PROVE Right(c) = Reverse(Left(<<c[1] + 1, c[2]>>))
    <2>1. c \in (0 .. Cols - 2) \X (0 .. Rows - 1)
        BY <1>1, <1>2, <1>3
    <2>2. tabs.v[c] \in Int
        BY <2>1 DEF TypeInv, TabTypes
    <2> DEFINE a == <<c[1] + 1, c[2]>>
               b == <<c[1] + 1, c[2] + 1>>
    <2>3. a \in Int \X Int /\ b \in Int \X Int
        BY <1>1, <1>2
    <2>4. Right(c) = PuzzleEdge(a, b, tabs.v[c])
        BY <1>1, <1>2, <1>3 DEF Right
    <2>5. Left(a) = PuzzleEdge(b, a, -tabs.v[c])
        <3>1. a[1] # 0 /\ <<a[1] - 1, a[2]>> = c /\ <<a[1], a[2] + 1>> = b
            BY <1>1, <1>2
        <3>2. QED
            BY <3>1 DEF Left
    <2> HIDE DEF a, b
    <2>6. QED
        BY <1>1, <2>2, <2>3, <2>4, <2>5, EdgeReversed DEF a
<1>4. ASSUME c[2] < Rows - 1 PROVE Bottom(c) = Reverse(Top(<<c[1], c[2] + 1>>))
    <2>1. c \in (0 .. Cols - 1) \X (0 .. Rows - 2)
        BY <1>1, <1>2, <1>4
    <2>2. tabs.h[c] \in Int
        BY <2>1 DEF TypeInv, TabTypes
    <2> DEFINE a == <<c[1] + 1, c[2] + 1>>
               b == <<c[1], c[2] + 1>>
    <2>3. a \in Int \X Int /\ b \in Int \X Int
        BY <1>1, <1>2
    <2>4. Bottom(c) = PuzzleEdge(a, b, tabs.h[c])
        BY <1>1, <1>2, <1>4 DEF Bottom
    <2>5. Top(b) = PuzzleEdge(b, a, -tabs.h[c])
        <3>1. b[2] # 0 /\ <<b[1], b[2] - 1>> = c /\ <<b[1] + 1, b[2]>> = a
            BY <1>1, <1>2
        <3>2. QED
            BY <3>1 DEF Top
    <2> HIDE DEF a, b
    <2>6. QED
        BY <1>1, <2>2, <2>3, <2>4, <2>5, EdgeReversed DEF b
<1>5. QED
    BY <1>3, <1>4

(* Neighbouring pieces of a jigsaw follow the same curve, for every image, *)
(* every grid, every choice of tabs and every size of a tab.               *)
THEOREM JigsawEdgesMatch == Spec => []EdgesMatch
BY TypeIsInvariant, EdgesAgree, PTL

(***************************************************************************)
(* Layer 4: pixels. A pixel is in a piece when the ray from its centre to  *)
(* the right crosses an odd number of sides of the polygon (clipPiece).    *)
(* First one side: what it means for it to be crossed, whichever way it is *)
(* walked.                                                                 *)
(***************************************************************************)
(* The side from p to q is crossed by the ray from <<x, y>> to the right. *)
Crosses(p, q, x, y) ==
    LET left == (x - p[1]) * (q[2] - p[2])
        right == (q[1] - p[1]) * (y - p[2])
    IN  \/ p[2] > y /\ q[2] <= y /\ left > right
        \/ p[2] <= y /\ q[2] > y /\ left < right

Vertex == Int \X Int

(* The cross product the code compares, for a side from above the ray to *)
(* below it.                                                             *)
LEMMA CrossingForm ==
    ASSUME NEW p \in Vertex, NEW q \in Vertex, NEW x \in Int, NEW y \in Int,
           p[2] > y, q[2] <= y
    PROVE  /\ Crosses(p, q, x, y) <=> (p[1] - x) * (y - q[2]) + (q[1] - x) * (p[2] - y) > 0
           /\ Crosses(q, p, x, y) <=> (p[1] - x) * (y - q[2]) + (q[1] - x) * (p[2] - y) > 0
<1> DEFINE a == p[1] - x  b == q[1] - x  u == p[2] - y  v == y - q[2]
<1>1. a \in Int /\ b \in Int /\ u \in Int /\ v \in Int /\ u > 0 /\ v >= 0
    BY DEF Vertex
<1>2. (x - p[1]) * (q[2] - p[2]) = a * (u + v)
    <2>1. x - p[1] = -a /\ q[2] - p[2] = -(u + v)
        BY DEF Vertex
    <2> HIDE DEF a, b, u, v
    <2> QED
        BY <1>1, <2>1
<1>3. (q[1] - p[1]) * (y - p[2]) = (a - b) * u
    <2>1. q[1] - p[1] = b - a /\ y - p[2] = -u
        BY DEF Vertex
    <2> HIDE DEF a, b, u, v
    <2> QED
        BY <1>1, <2>1
<1>4. (x - q[1]) * (p[2] - q[2]) = (-b) * (u + v)
    <2>1. x - q[1] = -b /\ p[2] - q[2] = u + v
        BY DEF Vertex
    <2> HIDE DEF a, b, u, v
    <2> QED
        BY <1>1, <2>1
<1>5. (p[1] - q[1]) * (y - q[2]) = (a - b) * v
    <2>1. p[1] - q[1] = a - b
        BY DEF Vertex
    <2> QED
        BY <2>1
<1>6. Crosses(p, q, x, y) <=> a * (u + v) > (a - b) * u
    BY <1>2, <1>3 DEF Crosses, Vertex
<1>7. Crosses(q, p, x, y) <=> (-b) * (u + v) < (a - b) * v
    BY <1>4, <1>5 DEF Crosses, Vertex
<1> HIDE DEF a, b, u, v
<1>8. a * (u + v) - (a - b) * u = a * v + b * u
    BY <1>1
<1>9. (a - b) * v - (-b) * (u + v) = a * v + b * u
    BY <1>1
<1>10. /\ a * (u + v) \in Int /\ (a - b) * u \in Int /\ a * v + b * u \in Int
       /\ (-b) * (u + v) \in Int /\ (a - b) * v \in Int
    BY <1>1
<1>11. /\ Crosses(p, q, x, y) <=> a * v + b * u > 0
       /\ Crosses(q, p, x, y) <=> a * v + b * u > 0
    <2> DEFINE A == a * (u + v)  B == (a - b) * u  C == (-b) * (u + v)  D == (a - b) * v
               E == a * v + b * u
    <2>1. A - B = E /\ D - C = E /\ A \in Int /\ B \in Int /\ C \in Int /\ D \in Int /\ E \in Int
        BY <1>8, <1>9, <1>10
    <2> HIDE DEF A, B, C, D, E
    <2>2. (A > B <=> E > 0) /\ (C < D <=> E > 0)
        BY <2>1
    <2> QED
        BY <2>2, <1>6, <1>7 DEF A, B, C, D, E
<1> QED
    BY <1>11 DEF a, b, u, v

(* A side is crossed whichever way it is walked. *)
LEMMA CrossingSymmetric ==
    ASSUME NEW p \in Vertex, NEW q \in Vertex, NEW x \in Int, NEW y \in Int
    PROVE  Crosses(p, q, x, y) <=> Crosses(q, p, x, y)
<1>1. CASE p[2] > y /\ q[2] <= y
    BY <1>1, CrossingForm
<1>2. CASE q[2] > y /\ p[2] <= y
    BY <1>2, CrossingForm
<1>3. CASE (p[2] > y /\ q[2] > y) \/ (p[2] <= y /\ q[2] <= y)
    BY <1>3 DEF Crosses, Vertex
<1> QED
    BY <1>1, <1>2, <1>3 DEF Vertex

(* A crossed side has one end above the ray and one below, and is not all *)
(* to the left.                                                           *)
LEMMA CrossingOf ==
    ASSUME NEW p \in Vertex, NEW q \in Vertex, NEW x \in Int, NEW y \in Int
    PROVE  /\ Crosses(p, q, x, y) => (p[2] > y <=> q[2] <= y)
           /\ x >= p[1] /\ x >= q[1] => ~Crosses(p, q, x, y)
           /\ x < p[1] /\ x < q[1] /\ (p[2] > y <=> q[2] <= y) => Crosses(p, q, x, y)
<1>1. Crosses(p, q, x, y) => (p[2] > y <=> q[2] <= y)
    BY DEF Crosses, Vertex
<1>2. ASSUME NEW a \in Vertex, NEW b \in Vertex, a[2] > y, b[2] <= y
      PROVE  /\ x >= a[1] /\ x >= b[1] => ~Crosses(a, b, x, y)
             /\ x < a[1] /\ x < b[1] => Crosses(a, b, x, y)
    <2> DEFINE k == a[1] - x  l == b[1] - x  u == a[2] - y  v == y - b[2]
    <2>1. k \in Int /\ l \in Int /\ u \in Int /\ v \in Int /\ u > 0 /\ v >= 0
        BY <1>2 DEF Vertex
    <2>2. Crosses(a, b, x, y) <=> k * v + l * u > 0
        BY <1>2, CrossingForm
    <2>3. x >= a[1] /\ x >= b[1] => k <= 0 /\ l <= 0
        BY DEF Vertex
    <2>4. x < a[1] /\ x < b[1] => k > 0 /\ l > 0
        BY DEF Vertex
    <2> HIDE DEF k, l, u, v
    <2>5. k <= 0 /\ l <= 0 => k * v <= 0 /\ l * u <= 0
        BY <2>1
    <2>6. k > 0 /\ l > 0 => k * v >= 0 /\ l * u > 0
        BY <2>1
    <2>7. k * v \in Int /\ l * u \in Int
        BY <2>1
    <2> QED
        BY <2>2, <2>3, <2>4, <2>5, <2>6, <2>7
<1>3. CASE p[2] > y /\ q[2] <= y
    BY <1>1, <1>2, <1>3
<1>4. CASE q[2] > y /\ p[2] <= y
    BY <1>1, <1>2, <1>4, CrossingSymmetric
<1>5. CASE ~(p[2] > y <=> q[2] <= y)
    BY <1>1, <1>5
<1> QED
    BY <1>3, <1>4, <1>5 DEF Vertex

(***************************************************************************)
(* Odd numbers of crossings, without counting them: one more element turns *)
(* an odd number into an even one and back.                                *)
(***************************************************************************)
Odd(S) == Cardinality(S) % 2 = 1

(* One more element. *)
LEMMA OddStep ==
    ASSUME NEW S, IsFiniteSet(S), NEW e, e \notin S
    PROVE  /\ IsFiniteSet(S \cup {e})
           /\ Odd(S \cup {e}) <=> ~Odd(S)
<1>1. IsFiniteSet(S \cup {e}) /\ Cardinality(S \cup {e}) = Cardinality(S) + 1
    BY FS_AddElement
<1>2. Cardinality(S) \in Nat
    BY FS_CardinalityType
<1> DEFINE k == Cardinality(S)
<1>3. (k + 1) % 2 = 1 <=> ~(k % 2 = 1)
    BY <1>2
<1> QED
    BY <1>1, <1>3 DEF Odd

(* Counting up to the next number. *)
LEMMA OddUpTo ==
    ASSUME NEW n \in Nat, NEW T
    PROVE  LET S == {i \in 1 .. n : i \in T}
               S1 == {i \in 1 .. n + 1 : i \in T}
           IN  IsFiniteSet(S) => /\ IsFiniteSet(S1)
                                 /\ Odd(S1) <=> ~(Odd(S) <=> n + 1 \in T)
<1> DEFINE S == {i \in 1 .. n : i \in T}
           S1 == {i \in 1 .. n + 1 : i \in T}
<1>1. n + 1 \notin S
    OBVIOUS
<1>2. CASE n + 1 \in T
    <2>1. S1 = S \cup {n + 1}
        BY <1>2
    <2> HIDE DEF S, S1
    <2>2. IsFiniteSet(S) => IsFiniteSet(S1) /\ (Odd(S1) <=> ~Odd(S))
        BY <2>1, <1>1, OddStep
    <2> QED
        BY <2>2, <1>2 DEF S, S1
<1>3. CASE n + 1 \notin T
    <2>1. S1 = S
        BY <1>3
    <2> QED
        BY <2>1, <1>3
<1> QED
    BY <1>2, <1>3

(* The parity of the first numbers that are in T. *)
LEMMA OddOfNone == ASSUME NEW T PROVE IsFiniteSet({i \in 1 .. 0 : i \in T}) /\ ~Odd({i \in 1 .. 0 : i \in T})
<1>1. {i \in 1 .. 0 : i \in T} = {}
    OBVIOUS
<1> QED
    BY <1>1, FS_EmptySet DEF Odd

LEMMA OddOfThree ==
    ASSUME NEW T
    PROVE  Odd({i \in 1 .. 3 : i \in T}) <=> (1 \in T <=> (2 \in T <=> 3 \in T))
<1> DEFINE S(n) == {i \in 1 .. n : i \in T}
<1>0. IsFiniteSet(S(0)) /\ ~Odd(S(0))
    BY OddOfNone
<1>1. ASSUME NEW n \in Nat, IsFiniteSet(S(n))
      PROVE  IsFiniteSet(S(n + 1)) /\ (Odd(S(n + 1)) <=> ~(Odd(S(n)) <=> n + 1 \in T))
    BY <1>1, OddUpTo
<1> HIDE DEF S
<1>2. IsFiniteSet(S(1)) /\ (Odd(S(1)) <=> 1 \in T)
    BY <1>0, <1>1, 0 + 1 = 1
<1>3. IsFiniteSet(S(2)) /\ (Odd(S(2)) <=> ~(Odd(S(1)) <=> 2 \in T))
    BY <1>2, <1>1, 1 + 1 = 2
<1>4. IsFiniteSet(S(3)) /\ (Odd(S(3)) <=> ~(Odd(S(2)) <=> 3 \in T))
    BY <1>3, <1>1, 2 + 1 = 3
<1>5. Odd(S(3)) <=> (1 \in T <=> (2 \in T <=> 3 \in T))
    BY <1>2, <1>3, <1>4
<1> QED
    BY <1>5 DEF S

LEMMA OddOfFour ==
    ASSUME NEW T
    PROVE  Odd({i \in 1 .. 4 : i \in T}) <=> ~((1 \in T <=> 2 \in T) <=> (3 \in T <=> 4 \in T))
<1> DEFINE S(n) == {i \in 1 .. n : i \in T}
<1>0. IsFiniteSet(S(0)) /\ ~Odd(S(0))
    BY OddOfNone
<1>1. ASSUME NEW n \in Nat, IsFiniteSet(S(n))
      PROVE  IsFiniteSet(S(n + 1)) /\ (Odd(S(n + 1)) <=> ~(Odd(S(n)) <=> n + 1 \in T))
    BY <1>1, OddUpTo
<1> HIDE DEF S
<1>2. IsFiniteSet(S(1)) /\ (Odd(S(1)) <=> 1 \in T)
    BY <1>0, <1>1, 0 + 1 = 1
<1>3. IsFiniteSet(S(2)) /\ (Odd(S(2)) <=> ~(Odd(S(1)) <=> 2 \in T))
    BY <1>2, <1>1, 1 + 1 = 2
<1>4. IsFiniteSet(S(3)) /\ (Odd(S(3)) <=> ~(Odd(S(2)) <=> 3 \in T))
    BY <1>3, <1>1, 2 + 1 = 3
<1>5. IsFiniteSet(S(4)) /\ (Odd(S(4)) <=> ~(Odd(S(3)) <=> 4 \in T))
    BY <1>4, <1>1, 3 + 1 = 4
<1>6. Odd(S(4)) <=> ~((1 \in T <=> 2 \in T) <=> (3 \in T <=> 4 \in T))
    BY <1>2, <1>3, <1>4, <1>5
<1> QED
    BY <1>6 DEF S

(* The sides of the polygon, by their numbers, that the ray crosses. *)
Crossings(polygon, X, Y) ==
    {i \in DOMAIN polygon :
        Crosses(polygon[i], polygon[IF i = 1 THEN Len(polygon) ELSE i - 1], X, Y)}

(* Ray casting is parity. *)
LEMMA InsideIsOdd ==
    ASSUME NEW polygon, NEW x, NEW y
    PROVE  PointInPolygon(x, y, polygon) <=> Odd(Crossings(polygon, Centre(x), Centre(y)))
BY DEF PointInPolygon, Odd, Crossings, Crosses, Centre

(* Inside a triangle and a quadrangle. *)
LEMMA InsideOfThree ==
    ASSUME NEW a \in Vertex, NEW b \in Vertex, NEW c \in Vertex, NEW X \in Int, NEW Y \in Int
    PROVE  Odd(Crossings(<<a, b, c>>, X, Y)) <=>
             (Crosses(c, a, X, Y) <=> (Crosses(a, b, X, Y) <=> Crosses(b, c, X, Y)))
<1> DEFINE P == <<a, b, c>>  T == Crossings(P, X, Y)
<1>1. T = {i \in 1 .. 3 : i \in T}
    BY DEF Crossings
<1>2. /\ 1 \in T <=> Crosses(a, c, X, Y)
      /\ 2 \in T <=> Crosses(b, a, X, Y)
      /\ 3 \in T <=> Crosses(c, b, X, Y)
    BY DEF Crossings
<1>3. /\ Crosses(a, c, X, Y) <=> Crosses(c, a, X, Y)
      /\ Crosses(b, a, X, Y) <=> Crosses(a, b, X, Y)
      /\ Crosses(c, b, X, Y) <=> Crosses(b, c, X, Y)
    BY CrossingSymmetric
<1> HIDE DEF T
<1>4. Odd(T) <=> (1 \in T <=> (2 \in T <=> 3 \in T))
    BY <1>1, OddOfThree
<1>5. QED
    BY <1>2, <1>3, <1>4 DEF T

LEMMA InsideOfFour ==
    ASSUME NEW a \in Vertex, NEW b \in Vertex, NEW c \in Vertex, NEW d \in Vertex,
           NEW X \in Int, NEW Y \in Int
    PROVE  Odd(Crossings(<<a, b, c, d>>, X, Y)) <=>
             ~((Crosses(d, a, X, Y) <=> Crosses(a, b, X, Y))
               <=> (Crosses(b, c, X, Y) <=> Crosses(c, d, X, Y)))
<1> DEFINE P == <<a, b, c, d>>  T == Crossings(P, X, Y)
<1>1. T = {i \in 1 .. 4 : i \in T}
    BY DEF Crossings
<1>2. /\ 1 \in T <=> Crosses(a, d, X, Y)
      /\ 2 \in T <=> Crosses(b, a, X, Y)
      /\ 3 \in T <=> Crosses(c, b, X, Y)
      /\ 4 \in T <=> Crosses(d, c, X, Y)
    BY DEF Crossings
<1>3. /\ Crosses(a, d, X, Y) <=> Crosses(d, a, X, Y)
      /\ Crosses(b, a, X, Y) <=> Crosses(a, b, X, Y)
      /\ Crosses(c, b, X, Y) <=> Crosses(b, c, X, Y)
      /\ Crosses(d, c, X, Y) <=> Crosses(c, d, X, Y)
    BY CrossingSymmetric
<1> HIDE DEF T
<1>4. Odd(T) <=> ~((1 \in T <=> 2 \in T) <=> (3 \in T <=> 4 \in T))
    BY <1>1, OddOfFour
<1>5. QED
    BY <1>2, <1>3, <1>4 DEF T

(***************************************************************************)
(* From a polygon to the pixels of its piece. The bounds of the piece      *)
(* never cut off a pixel whose centre is inside.                           *)
(***************************************************************************)
Valid == Config /\ Cols > 0 /\ Rows > 0

(* The centre of a pixel is a whole number of units, inside the pixel. *)
LEMMA UnitIsEven == Valid => Unit \in Nat /\ Unit > 0 /\ Unit = 2 * (Unit \div 2)
<1> SUFFICES ASSUME Valid PROVE Unit \in Nat /\ Unit > 0 /\ Unit = 2 * (Unit \div 2)
    OBVIOUS
<1>1. Cols \in Nat /\ Rows \in Nat /\ Cols > 0 /\ Rows > 0
    BY DEF Valid, Config, Cols, Rows
<1> DEFINE k == Cols * Rows
<1>2. k \in Nat /\ k > 0
    BY <1>1
<1>3. Unit = 320 * k
    BY <1>1 DEF Unit
<1> HIDE DEF k
<1> QED
    BY <1>2, <1>3

LEMMA CentreInPixel ==
    ASSUME Valid, NEW k \in Nat
    PROVE  /\ Centre(k) \in Nat
           /\ Unit * k < Centre(k) /\ Centre(k) < Unit * (k + 1)
<1> DEFINE h == Unit \div 2
<1>1. h \in Nat /\ h > 0 /\ Unit = 2 * h
    BY UnitIsEven
<1>2. Centre(k) = 2 * (h * k) + h /\ Unit * k = 2 * (h * k) /\ Unit * (k + 1) = 2 * (h * k) + 2 * h
      /\ h * k \in Nat
    <2> HIDE DEF h
    <2>1. h * (2 * k + 1) = 2 * (h * k) + h /\ (2 * h) * k = 2 * (h * k)
          /\ (2 * h) * (k + 1) = 2 * (h * k) + 2 * h /\ h * k \in Nat
        BY <1>1
    <2> QED
        BY <1>1, <2>1 DEF h, Centre
<1> HIDE DEF h
<1> QED
    BY <1>1, <1>2

(* A polygon the centre is in reaches to the right of the centre, above and below it. *)
LEMMA InsideReaches ==
    ASSUME NEW P, Range(P) \subseteq Vertex, DOMAIN P = 1 .. Len(P), Len(P) \in Nat,
           NEW X \in Int, NEW Y \in Int, Odd(Crossings(P, X, Y))
    PROVE  /\ \E v \in Range(P) : v[1] > X
           /\ \E v \in Range(P) : v[2] > Y
           /\ \E v \in Range(P) : v[2] <= Y
<1>1. Crossings(P, X, Y) # {}
    <2>1. Cardinality({}) % 2 # 1
        BY FS_EmptySet
    <2> QED
        BY <2>1 DEF Odd
<1>2. PICK i \in DOMAIN P : Crosses(P[i], P[IF i = 1 THEN Len(P) ELSE i - 1], X, Y)
    BY <1>1 DEF Crossings
<1> DEFINE j == IF i = 1 THEN Len(P) ELSE i - 1
<1>3. j \in DOMAIN P
    OBVIOUS
<1>4. P[i] \in Range(P) /\ P[j] \in Range(P)
    BY <1>3 DEF Range
<1> HIDE DEF j
<1>5. P[i] \in Vertex /\ P[j] \in Vertex /\ Crosses(P[i], P[j], X, Y)
    BY <1>2, <1>4 DEF j
<1>6. /\ P[i][2] > Y <=> P[j][2] <= Y
      /\ ~(X >= P[i][1] /\ X >= P[j][1])
    BY <1>5, CrossingOf
<1> QED
    BY <1>4, <1>5, <1>6 DEF Vertex

(* The pixels of a piece are those whose centre is inside, if there is a *)
(* corner to their left.                                                 *)
LEMMA ClipIsInside ==
    ASSUME Valid, NEW P, Range(P) \subseteq Vertex, DOMAIN P = 1 .. Len(P), Len(P) \in Nat,
           NEW c, NEW q \in Image,
           Odd(Crossings(P, Centre(q[1]), Centre(q[2]))) =>
               \E v \in Range(P) : v[1] <= Centre(q[1])
    PROVE  q \in ClipPiece(Piece(c, P)) <=> Odd(Crossings(P, Centre(q[1]), Centre(q[2])))
<1> DEFINE X == Centre(q[1])  Y == Centre(q[2])
           xs == {v[1] : v \in Range(P)}  ys == {v[2] : v \in Range(P)}
<1>1. /\ q = <<q[1], q[2]>> /\ q[1] \in 0 .. size[1] - 1 /\ q[2] \in 0 .. size[2] - 1
      /\ q[1] \in Nat /\ q[2] \in Nat
    BY DEF Image, Valid, Config
<1>2. Piece(c, P).polygon = P
    BY DEF Piece
<1>3. q \in ClipPiece(Piece(c, P)) <=>
        /\ q[1] \in Within(xs, size[1]) /\ q[2] \in Within(ys, size[2])
        /\ PointInPolygon(q[1], q[2], P)
    BY <1>1, <1>2 DEF ClipPiece
<1>4. PointInPolygon(q[1], q[2], P) <=> Odd(Crossings(P, X, Y))
    BY InsideIsOdd
<1>5. /\ X \in Nat /\ Unit * q[1] < X /\ X < Unit * (q[1] + 1)
      /\ Y \in Nat /\ Unit * q[2] < Y /\ Y < Unit * (q[2] + 1)
    BY <1>1, CentreInPixel
<1>5a. /\ Unit * q[1] \in Int /\ Unit * (q[1] + 1) \in Int
       /\ Unit * q[2] \in Int /\ Unit * (q[2] + 1) \in Int
    BY <1>1, UnitIsEven
<1> HIDE DEF X, Y
<1>6. ASSUME Odd(Crossings(P, X, Y))
      PROVE  q[1] \in Within(xs, size[1]) /\ q[2] \in Within(ys, size[2])
    <2>1. /\ \E v \in Range(P) : v[1] > X
          /\ \E v \in Range(P) : v[2] > Y
          /\ \E v \in Range(P) : v[2] <= Y
        BY <1>5, <1>6, InsideReaches
    <2>2. \E v \in Range(P) : v[1] <= X
        BY <1>6 DEF X, Y
    <2>3. /\ \E k \in xs : k \in Int /\ k > X
          /\ \E k \in xs : k \in Int /\ k <= X
          /\ \E k \in ys : k \in Int /\ k > Y
          /\ \E k \in ys : k \in Int /\ k <= Y
        BY <2>1, <2>2 DEF Vertex
    <2> HIDE DEF xs, ys
    <2>4. /\ \E k \in xs : k > Unit * q[1]
          /\ \E k \in xs : k < Unit * (q[1] + 1)
        BY <2>3, <1>5, <1>5a
    <2>5. /\ \E k \in ys : k > Unit * q[2]
          /\ \E k \in ys : k < Unit * (q[2] + 1)
        BY <2>3, <1>5, <1>5a
    <2> QED
        BY <2>4, <2>5, <1>1 DEF Within
<1> QED
    BY <1>3, <1>4, <1>6 DEF X, Y

(* The pixels of triangles and quadrangles, by the sides the ray crosses. *)
Side(p, q, k) == Crosses(p, q, Centre(k[1]), Centre(k[2]))

Reaches(S, k) ==
    /\ \E v \in S : v[1] <= Centre(k[1])
    /\ \E v \in S : v[1] > Centre(k[1])
    /\ \E v \in S : v[2] <= Centre(k[2])
    /\ \E v \in S : v[2] > Centre(k[2])

Triangle(a, b, c) == a \in Vertex /\ b \in Vertex /\ c \in Vertex
Quadrangle(a, b, c, d) == a \in Vertex /\ b \in Vertex /\ c \in Vertex /\ d \in Vertex

OddTriangle(a, b, c, k) == Side(c, a, k) <=> (Side(a, b, k) <=> Side(b, c, k))
OddQuadrangle(a, b, c, d, k) ==
    ~((Side(d, a, k) <=> Side(a, b, k)) <=> (Side(b, c, k) <=> Side(c, d, k)))

LEMMA ClipOfThree ==
    ASSUME Valid, NEW a, NEW b, NEW c, Triangle(a, b, c), NEW pos, NEW q \in Image
    PROVE  /\ q \in ClipPiece(Piece(pos, <<a, b, c>>)) <=>
                OddTriangle(a, b, c, q)
           /\ q \in ClipPiece(Piece(pos, <<a, b, c>>)) => Reaches({a, b, c}, q)
<1> USE DEF Triangle
<1> DEFINE P == <<a, b, c>>  X == Centre(q[1])  Y == Centre(q[2])
<1>1. q[1] \in Nat /\ q[2] \in Nat
    BY DEF Image, Valid, Config
<1>2. X \in Int /\ Y \in Int
    BY <1>1, CentreInPixel
<1>3. Range(P) = {a, b, c} /\ DOMAIN P = 1 .. Len(P) /\ Len(P) \in Nat
    <2>1. DOMAIN P = {1, 2, 3} /\ P[1] = a /\ P[2] = b /\ P[3] = c /\ Len(P) = 3
        OBVIOUS
    <2> HIDE DEF P
    <2>2. Range(P) = {a, b, c}
        BY <2>1 DEF Range
    <2> QED
        BY <2>1, <2>2
<1> HIDE DEF X, Y
<1>4. Odd(Crossings(P, X, Y)) <=>
        (Crosses(c, a, X, Y) <=> (Crosses(a, b, X, Y) <=> Crosses(b, c, X, Y)))
    BY <1>2, InsideOfThree
<1>5. ASSUME a[1] > X, b[1] > X, c[1] > X PROVE ~Odd(Crossings(P, X, Y))
    <2>1. /\ Crosses(a, b, X, Y) <=> (a[2] > Y <=> b[2] <= Y)
          /\ Crosses(b, c, X, Y) <=> (b[2] > Y <=> c[2] <= Y)
          /\ Crosses(c, a, X, Y) <=> (c[2] > Y <=> a[2] <= Y)
        BY <1>2, <1>5, CrossingOf DEF Vertex
    <2>2. \A v \in {a, b, c} : v[2] <= Y <=> ~(v[2] > Y)
        BY <1>2 DEF Vertex
    <2> QED
        BY <1>4, <2>1, <2>2
<1>6. Odd(Crossings(P, X, Y)) => \E v \in Range(P) : v[1] <= X
    BY <1>2, <1>3, <1>5 DEF Vertex
<1> HIDE DEF P
<1>7. q \in ClipPiece(Piece(pos, P)) <=> Odd(Crossings(P, X, Y))
    BY <1>3, <1>6, ClipIsInside DEF X, Y
<1>8. Odd(Crossings(P, X, Y)) => Reaches(Range(P), q)
    BY <1>2, <1>3, <1>6, InsideReaches DEF Reaches, X, Y
<1> QED
    BY <1>3, <1>4, <1>7, <1>8 DEF Side, X, Y, P, OddTriangle

LEMMA ClipOfFour ==
    ASSUME Valid, NEW a, NEW b, NEW c, NEW d, Quadrangle(a, b, c, d),
           NEW pos, NEW q \in Image
    PROVE  /\ q \in ClipPiece(Piece(pos, <<a, b, c, d>>)) <=>
                OddQuadrangle(a, b, c, d, q)
           /\ q \in ClipPiece(Piece(pos, <<a, b, c, d>>)) => Reaches({a, b, c, d}, q)
<1> USE DEF Quadrangle
<1> DEFINE P == <<a, b, c, d>>  X == Centre(q[1])  Y == Centre(q[2])
<1>1. q[1] \in Nat /\ q[2] \in Nat
    BY DEF Image, Valid, Config
<1>2. X \in Int /\ Y \in Int
    BY <1>1, CentreInPixel
<1>3. Range(P) = {a, b, c, d} /\ DOMAIN P = 1 .. Len(P) /\ Len(P) \in Nat
    <2>1. /\ DOMAIN P = {1, 2, 3, 4} /\ P[1] = a /\ P[2] = b /\ P[3] = c /\ P[4] = d
          /\ Len(P) = 4
        OBVIOUS
    <2> HIDE DEF P
    <2>2. Range(P) = {a, b, c, d}
        BY <2>1 DEF Range
    <2> QED
        BY <2>1, <2>2
<1> HIDE DEF X, Y
<1>4. Odd(Crossings(P, X, Y)) <=>
        ~((Crosses(d, a, X, Y) <=> Crosses(a, b, X, Y))
          <=> (Crosses(b, c, X, Y) <=> Crosses(c, d, X, Y)))
    BY <1>2, InsideOfFour
<1>5. ASSUME a[1] > X, b[1] > X, c[1] > X, d[1] > X PROVE ~Odd(Crossings(P, X, Y))
    <2>1. /\ Crosses(a, b, X, Y) <=> (a[2] > Y <=> b[2] <= Y)
          /\ Crosses(b, c, X, Y) <=> (b[2] > Y <=> c[2] <= Y)
          /\ Crosses(c, d, X, Y) <=> (c[2] > Y <=> d[2] <= Y)
          /\ Crosses(d, a, X, Y) <=> (d[2] > Y <=> a[2] <= Y)
        BY <1>2, <1>5, CrossingOf DEF Vertex
    <2>2. \A v \in {a, b, c, d} : v[2] <= Y <=> ~(v[2] > Y)
        BY <1>2 DEF Vertex
    <2> QED
        BY <1>4, <2>1, <2>2
<1>6. Odd(Crossings(P, X, Y)) => \E v \in Range(P) : v[1] <= X
    BY <1>2, <1>3, <1>5 DEF Vertex
<1> HIDE DEF P
<1>7. q \in ClipPiece(Piece(pos, P)) <=> Odd(Crossings(P, X, Y))
    BY <1>3, <1>6, ClipIsInside DEF X, Y
<1>8. Odd(Crossings(P, X, Y)) => Reaches(Range(P), q)
    BY <1>2, <1>3, <1>6, InsideReaches DEF Reaches, X, Y
<1> QED
    BY <1>3, <1>4, <1>7, <1>8 DEF Side, X, Y, P, OddQuadrangle

(***************************************************************************)
(* The polygons of one cell: they share the cell out when each centre in   *)
(* the cell is in exactly one of them and no other centre is in any.       *)
(***************************************************************************)
LEMMA SideOf ==
    ASSUME Valid, NEW q \in Image, NEW a \in Vertex, NEW b \in Vertex
    PROVE  /\ Side(a, b, q) <=> Side(b, a, q)
           /\ Side(a, b, q) => (a[2] > Centre(q[2]) <=> b[2] <= Centre(q[2]))
           /\ Centre(q[1]) >= a[1] /\ Centre(q[1]) >= b[1] => ~Side(a, b, q)
           /\ Centre(q[1]) < a[1] /\ Centre(q[1]) < b[1]
                /\ (a[2] > Centre(q[2]) <=> b[2] <= Centre(q[2])) => Side(a, b, q)
<1>1. q[1] \in Nat /\ q[2] \in Nat
    BY DEF Image, Valid, Config
<1>2. Centre(q[1]) \in Int /\ Centre(q[2]) \in Int
    BY <1>1, CentreInPixel
<1> QED
    BY <1>2, CrossingSymmetric, CrossingOf DEF Side

(* A side that lies further to the right, between the same heights, is crossed as well. *)
LEMMA SideMoves ==
    ASSUME Valid, NEW q \in Image, NEW a \in Vertex, NEW b \in Vertex,
           NEW c \in Vertex, NEW d \in Vertex,
           a[2] > Centre(q[2]), b[2] <= Centre(q[2]), c[2] = a[2], d[2] = b[2],
           a[1] <= c[1], b[1] <= d[1], Side(a, b, q)
    PROVE  Side(c, d, q)
<1> DEFINE X == Centre(q[1])  Y == Centre(q[2])
<1>1. q[1] \in Nat /\ q[2] \in Nat
    BY DEF Image, Valid, Config
<1>2. X \in Int /\ Y \in Int
    BY <1>1, CentreInPixel
<1> DEFINE k == a[1] - X  l == b[1] - X  m == c[1] - X  n == d[1] - X
           u == a[2] - Y  v == Y - b[2]
<1> HIDE DEF X, Y
<1>3. /\ k \in Int /\ l \in Int /\ m \in Int /\ n \in Int /\ u \in Int /\ v \in Int
      /\ k <= m /\ l <= n /\ u > 0 /\ v >= 0
    BY <1>2 DEF Vertex, X, Y
<1>4. k * v + l * u > 0
    BY <1>2, CrossingForm DEF Side, X, Y
<1>5. m * v + n * u > 0 => Side(c, d, q)
    BY <1>2, CrossingForm DEF Side, X, Y
<1> HIDE DEF k, l, m, n, u, v
<1>6. k * v <= m * v /\ l * u <= n * u
    BY <1>3
<1>7. k * v \in Int /\ l * u \in Int /\ m * v \in Int /\ n * u \in Int
    BY <1>3
<1> QED
    BY <1>4, <1>5, <1>6, <1>7

(* The cell with these bounds has the centre of pixel q. *)
Bounds(x0, x1, y0, y1) == x0 \in Int /\ x1 \in Int /\ y0 \in Int /\ y1 \in Int
                          /\ x0 <= x1 /\ y0 <= y1
Holds(x0, x1, y0, y1, q) ==
    /\ x0 <= Centre(q[1]) /\ Centre(q[1]) < x1
    /\ y0 <= Centre(q[2]) /\ Centre(q[2]) < y1
InBox(v, x0, x1, y0, y1) == v \in Vertex /\ x0 <= v[1] /\ v[1] <= x1 /\ y0 <= v[2] /\ v[2] <= y1

(* A polygon in a box has the pixels of the box only. *)
LEMMA ReachesBox ==
    ASSUME Valid, NEW q \in Image, NEW S, NEW x0, NEW x1, NEW y0, NEW y1,
           Bounds(x0, x1, y0, y1), \A v \in S : InBox(v, x0, x1, y0, y1), Reaches(S, q)
    PROVE  Holds(x0, x1, y0, y1, q)
<1>1. q[1] \in Nat /\ q[2] \in Nat
    BY DEF Image, Valid, Config
<1>2. Centre(q[1]) \in Int /\ Centre(q[2]) \in Int
    BY <1>1, CentreInPixel
<1> QED
    BY <1>2 DEF Reaches, Holds, InBox, Bounds, Vertex

(* The level and the upright sides of a box. *)
LEMMA CellSides ==
    ASSUME Valid, NEW q \in Image, NEW x0, NEW x1, NEW y0, NEW y1,
           Bounds(x0, x1, y0, y1), Holds(x0, x1, y0, y1, q)
    PROVE  /\ \A a, b \in Vertex : a[2] = b[2] => ~Side(a, b, q)
           /\ \A a, b \in Vertex : a[1] = x0 /\ b[1] = x0 => ~Side(a, b, q)
           /\ \A a, b \in Vertex : a[1] = x1 /\ b[1] = x1 =>
                (Side(a, b, q) <=> (a[2] > Centre(q[2]) <=> b[2] <= Centre(q[2])))
<1>1. q[1] \in Nat /\ q[2] \in Nat
    BY DEF Image, Valid, Config
<1>2. Centre(q[1]) \in Int /\ Centre(q[2]) \in Int
    BY <1>1, CentreInPixel
<1>3. \A a, b \in Vertex : a[2] = b[2] => ~Side(a, b, q)
    BY <1>2, SideOf DEF Vertex
<1>4. \A a, b \in Vertex : a[1] = x0 /\ b[1] = x0 => ~Side(a, b, q)
    BY SideOf DEF Holds
<1>5. \A a, b \in Vertex : a[1] = x1 /\ b[1] = x1 =>
                (Side(a, b, q) <=> (a[2] > Centre(q[2]) <=> b[2] <= Centre(q[2])))
    BY SideOf DEF Holds
<1> QED
    BY <1>3, <1>4, <1>5

(* The polygons share the cell out: a pixel with its centre in the cell is in one of them, *)
(* any other pixel in none.                                                                *)
Tile(polygons, x0, x1, y0, y1) ==
    \A q \in Image, c \in Cell :
        /\ Holds(x0, x1, y0, y1, q) =>
             \E p \in polygons : \A r \in polygons : q \in ClipPiece(Piece(c, r)) <=> r = p
        /\ ~Holds(x0, x1, y0, y1, q) =>
             \A r \in polygons : q \notin ClipPiece(Piece(c, r))

LEMMA TriangleInBox ==
    ASSUME Valid, NEW q \in Image, NEW x0, NEW x1, NEW y0, NEW y1, Bounds(x0, x1, y0, y1),
           NEW a, NEW b, NEW c, NEW pos,
           \A v \in {a, b, c} : InBox(v, x0, x1, y0, y1)
    PROVE  q \in ClipPiece(Piece(pos, <<a, b, c>>)) => Holds(x0, x1, y0, y1, q)
<1>1. a \in Vertex /\ b \in Vertex /\ c \in Vertex
    BY DEF InBox
<1>2. ASSUME q \in ClipPiece(Piece(pos, <<a, b, c>>)) PROVE Reaches({a, b, c}, q)
    BY <1>1, <1>2, ClipOfThree DEF Triangle
<1> QED
    BY <1>2, ReachesBox

LEMMA QuadrangleInBox ==
    ASSUME Valid, NEW q \in Image, NEW x0, NEW x1, NEW y0, NEW y1, Bounds(x0, x1, y0, y1),
           NEW a, NEW b, NEW c, NEW d, NEW pos,
           \A v \in {a, b, c, d} : InBox(v, x0, x1, y0, y1)
    PROVE  q \in ClipPiece(Piece(pos, <<a, b, c, d>>)) => Holds(x0, x1, y0, y1, q)
<1>1. a \in Vertex /\ b \in Vertex /\ c \in Vertex /\ d \in Vertex
    BY DEF InBox
<1>2. ASSUME q \in ClipPiece(Piece(pos, <<a, b, c, d>>)) PROVE Reaches({a, b, c, d}, q)
    BY <1>1, <1>2, ClipOfFour DEF Quadrangle
<1> QED
    BY <1>2, ReachesBox

(* When one of the polygons has the pixel and no other has. *)
LEMMA TileOf ==
    ASSUME NEW polygons, NEW x0, NEW x1, NEW y0, NEW y1,
           \A q \in Image, c \in Cell, r \in polygons :
               q \in ClipPiece(Piece(c, r)) => Holds(x0, x1, y0, y1, q),
           \A q \in Image, c \in Cell : Holds(x0, x1, y0, y1, q) =>
               \E p \in polygons : \A r \in polygons : q \in ClipPiece(Piece(c, r)) <=> r = p
    PROVE  Tile(polygons, x0, x1, y0, y1)
BY DEF Tile

(* A cell is shared out by itself. *)
LEMMA TileOfOne ==
    ASSUME Valid, NEW x0, NEW x1, NEW y0, NEW y1, Bounds(x0, x1, y0, y1)
    PROVE  Tile({<<<<x0, y0>>, <<x1, y0>>, <<x1, y1>>, <<x0, y1>>>>}, x0, x1, y0, y1)
<1> DEFINE A == <<x0, y0>>  B == <<x1, y0>>  C == <<x1, y1>>  D == <<x0, y1>>  P == <<A, B, C, D>>
<1>1. \A v \in {A, B, C, D} : InBox(v, x0, x1, y0, y1)
    BY DEF InBox, Bounds, Vertex
<1>2. A \in Vertex /\ B \in Vertex /\ C \in Vertex /\ D \in Vertex
      /\ Quadrangle(A, B, C, D)
    BY <1>1 DEF InBox, Quadrangle
<1>3. ASSUME NEW q \in Image, NEW c \in Cell, q \in ClipPiece(Piece(c, P))
      PROVE  Holds(x0, x1, y0, y1, q)
    <2> HIDE DEF A, B, C, D
    <2> QED
        BY <1>1, <1>3, QuadrangleInBox
<1>4. ASSUME NEW q \in Image, NEW c \in Cell, Holds(x0, x1, y0, y1, q)
      PROVE  q \in ClipPiece(Piece(c, P))
    <2>1. ~Side(D, A, q) /\ ~Side(A, B, q) /\ ~Side(C, D, q)
        BY <1>2, <1>4, CellSides
    <2>2. Side(B, C, q)
        <3>1. B[1] = x1 /\ C[1] = x1 /\ ~(B[2] > Centre(q[2])) /\ C[2] > Centre(q[2])
            BY <1>4, CentreInPixel DEF Holds, Bounds, Image, Valid, Config
        <3>2. ~(C[2] <= Centre(q[2]))
            BY <1>4, CentreInPixel DEF Holds, Bounds, Image, Valid, Config
        <3> QED
            BY <1>2, <1>4, <3>1, <3>2, CellSides
    <2> HIDE DEF A, B, C, D
    <2>3. q \in ClipPiece(Piece(c, P)) <=> OddQuadrangle(A, B, C, D, q)
        BY <1>2, ClipOfFour
    <2> QED
        BY <2>1, <2>2, <2>3 DEF OddQuadrangle
<1> HIDE DEF P
<1>5. \A q \in Image, c \in Cell, r \in {P} :
               q \in ClipPiece(Piece(c, r)) => Holds(x0, x1, y0, y1, q)
    BY <1>3
<1>6. \A q \in Image, c \in Cell : Holds(x0, x1, y0, y1, q) =>
               \E p \in {P} : \A r \in {P} : q \in ClipPiece(Piece(c, r)) <=> r = p
    BY <1>4
<1>7. Tile({P}, x0, x1, y0, y1)
    BY <1>5, <1>6, TileOf
<1> QED
    BY <1>7 DEF P

(* Where the sides of a cell lie, as seen from a pixel with its centre inside. *)
Border(A, B, C, D, q) ==
    /\ ~Side(A, B, q) /\ ~Side(B, A, q) /\ ~Side(C, D, q) /\ ~Side(D, C, q)
    /\ ~Side(D, A, q) /\ ~Side(A, D, q) /\ Side(B, C, q) /\ Side(C, B, q)

LEMMA BorderOf ==
    ASSUME Valid, NEW q \in Image, NEW x0, NEW x1, NEW y0, NEW y1,
           Bounds(x0, x1, y0, y1), Holds(x0, x1, y0, y1, q)
    PROVE  Border(<<x0, y0>>, <<x1, y0>>, <<x1, y1>>, <<x0, y1>>, q)
<1> DEFINE A == <<x0, y0>>  B == <<x1, y0>>  C == <<x1, y1>>  D == <<x0, y1>>
<1>1. A \in Vertex /\ B \in Vertex /\ C \in Vertex /\ D \in Vertex
    BY DEF Bounds, Vertex
<1>2. /\ ~Side(A, B, q) /\ ~Side(B, A, q) /\ ~Side(C, D, q) /\ ~Side(D, C, q)
      /\ ~Side(D, A, q) /\ ~Side(A, D, q)
    BY <1>1, CellSides
<1>3. Side(B, C, q) /\ Side(C, B, q)
    <2>1. q[2] \in Nat
        BY DEF Image, Valid, Config
    <2>2. /\ B[1] = x1 /\ C[1] = x1 /\ C[2] > Centre(q[2]) /\ B[2] <= Centre(q[2])
          /\ ~(B[2] > Centre(q[2])) /\ ~(C[2] <= Centre(q[2]))
        BY <2>1, CentreInPixel DEF Holds, Bounds
    <2> QED
        BY <1>1, <2>2, CellSides
<1> QED
    BY <1>2, <1>3 DEF Border

(* And by two triangles, along either diagonal. *)
LEMMA TileOfTriangles ==
    ASSUME Valid, NEW x0, NEW x1, NEW y0, NEW y1, Bounds(x0, x1, y0, y1),
           NEW A, NEW B, NEW C, NEW D,
           A = <<x0, y0>>, B = <<x1, y0>>, C = <<x1, y1>>, D = <<x0, y1>>
    PROVE  /\ Tile({<<A, B, D>>, <<B, C, D>>}, x0, x1, y0, y1)
           /\ Tile({<<A, B, C>>, <<A, C, D>>}, x0, x1, y0, y1)
<1>1. \A v \in {A, B, C, D} : InBox(v, x0, x1, y0, y1)
    BY DEF InBox, Bounds, Vertex
<1>2. /\ A \in Vertex /\ B \in Vertex /\ C \in Vertex /\ D \in Vertex
      /\ Triangle(A, B, D) /\ Triangle(B, C, D) /\ Triangle(A, B, C) /\ Triangle(A, C, D)
    BY <1>1 DEF InBox, Triangle
<1>3. ASSUME NEW q \in Image, Holds(x0, x1, y0, y1, q)
      PROVE  /\ OddTriangle(A, B, D, q) <=> ~OddTriangle(B, C, D, q)
             /\ OddTriangle(A, B, C, q) <=> ~OddTriangle(A, C, D, q)
    <2>1. Border(A, B, C, D, q)
        BY <1>3, BorderOf
    <2>2. (Side(B, D, q) <=> Side(D, B, q)) /\ (Side(A, C, q) <=> Side(C, A, q))
        BY <1>2, SideOf
    <2> QED
        BY <2>1, <2>2 DEF Border, OddTriangle
<1> DEFINE P == <<A, B, D>>  Q == <<B, C, D>>  R == <<A, B, C>>  S == <<A, C, D>>
<1>4. ASSUME NEW q \in Image, NEW c \in Cell
      PROVE  /\ q \in ClipPiece(Piece(c, P)) => Holds(x0, x1, y0, y1, q)
             /\ q \in ClipPiece(Piece(c, Q)) => Holds(x0, x1, y0, y1, q)
             /\ q \in ClipPiece(Piece(c, R)) => Holds(x0, x1, y0, y1, q)
             /\ q \in ClipPiece(Piece(c, S)) => Holds(x0, x1, y0, y1, q)
    BY <1>1, TriangleInBox
<1>5. ASSUME NEW q \in Image, NEW c \in Cell
      PROVE  /\ q \in ClipPiece(Piece(c, P)) <=> OddTriangle(A, B, D, q)
             /\ q \in ClipPiece(Piece(c, Q)) <=> OddTriangle(B, C, D, q)
             /\ q \in ClipPiece(Piece(c, R)) <=> OddTriangle(A, B, C, q)
             /\ q \in ClipPiece(Piece(c, S)) <=> OddTriangle(A, C, D, q)
    BY <1>2, ClipOfThree
<1> HIDE DEF P, Q, R, S
<1>6. ASSUME NEW q \in Image, NEW c \in Cell, Holds(x0, x1, y0, y1, q)
      PROVE  /\ q \in ClipPiece(Piece(c, P)) <=> ~(q \in ClipPiece(Piece(c, Q)))
             /\ q \in ClipPiece(Piece(c, R)) <=> ~(q \in ClipPiece(Piece(c, S)))
    BY <1>3, <1>5, <1>6
<1>7. Tile({P, Q}, x0, x1, y0, y1)
    <2>1. \A q \in Image, c \in Cell, r \in {P, Q} :
               q \in ClipPiece(Piece(c, r)) => Holds(x0, x1, y0, y1, q)
        BY <1>4
    <2>2. \A q \in Image, c \in Cell : Holds(x0, x1, y0, y1, q) =>
               \E p \in {P, Q} : \A r \in {P, Q} : q \in ClipPiece(Piece(c, r)) <=> r = p
        BY <1>6
    <2> QED
        BY <2>1, <2>2, TileOf
<1>8. Tile({R, S}, x0, x1, y0, y1)
    <2>1. \A q \in Image, c \in Cell, r \in {R, S} :
               q \in ClipPiece(Piece(c, r)) => Holds(x0, x1, y0, y1, q)
        BY <1>4
    <2>2. \A q \in Image, c \in Cell : Holds(x0, x1, y0, y1, q) =>
               \E p \in {R, S} : \A r \in {R, S} : q \in ClipPiece(Piece(c, r)) <=> r = p
        BY <1>6
    <2> QED
        BY <2>1, <2>2, TileOf
<1> QED
    BY <1>7, <1>8 DEF P, Q, R, S

(* By two trapezoids, whichever way their common side slopes. *)
LEMMA TileOfTrapezoids ==
    ASSUME Valid, NEW x0, NEW x1, NEW y0, NEW y1, Bounds(x0, x1, y0, y1),
           NEW A, NEW B, NEW C, NEW D, NEW l \in Int, NEW r \in Int,
           A = <<x0, y0>>, B = <<x1, y0>>, C = <<x1, y1>>, D = <<x0, y1>>,
           y0 <= l, l <= y1, y0 <= r, r <= y1
    PROVE  Tile({<<A, B, <<x1, r>>, <<x0, l>>>>, <<<<x0, l>>, <<x1, r>>, C, D>>}, x0, x1, y0, y1)
<1> DEFINE L == <<x0, l>>  R == <<x1, r>>
<1>1. \A v \in {A, B, C, D, L, R} : InBox(v, x0, x1, y0, y1)
    BY DEF InBox, Bounds, Vertex
<1>2. /\ A \in Vertex /\ B \in Vertex /\ C \in Vertex /\ D \in Vertex
      /\ L \in Vertex /\ R \in Vertex
      /\ Quadrangle(A, B, R, L) /\ Quadrangle(L, R, C, D)
    BY <1>1 DEF InBox, Quadrangle
<1>3. ASSUME NEW q \in Image, Holds(x0, x1, y0, y1, q)
      PROVE  OddQuadrangle(A, B, R, L, q) <=> ~OddQuadrangle(L, R, C, D, q)
    <2>1. Border(A, B, C, D, q)
        BY <1>3, BorderOf
    <2>2. Side(L, R, q) <=> Side(R, L, q)
        BY <1>2, SideOf
    <2>3. ~Side(L, A, q) /\ ~Side(D, L, q)
        BY <1>2, <1>3, CellSides
    <2>4. q[2] \in Nat
        BY DEF Image, Valid, Config
    <2>5. Side(B, R, q) <=> ~Side(R, C, q)
        <3>1. /\ Side(B, R, q) <=> (B[2] > Centre(q[2]) <=> R[2] <= Centre(q[2]))
              /\ Side(R, C, q) <=> (R[2] > Centre(q[2]) <=> C[2] <= Centre(q[2]))
            BY <1>2, <1>3, CellSides
        <3>2. /\ ~(B[2] > Centre(q[2])) /\ ~(C[2] <= Centre(q[2]))
              /\ R[2] > Centre(q[2]) <=> ~(R[2] <= Centre(q[2]))
            BY <1>3, <2>4, CentreInPixel DEF Holds, Bounds
        <3> QED
            BY <3>1, <3>2
    <2> HIDE DEF L, R
    <2> QED
        BY <2>1, <2>2, <2>3, <2>5 DEF Border, OddQuadrangle
<1> DEFINE P == <<A, B, R, L>>  Q == <<L, R, C, D>>
<1>4. ASSUME NEW q \in Image, NEW c \in Cell
      PROVE  /\ q \in ClipPiece(Piece(c, P)) => Holds(x0, x1, y0, y1, q)
             /\ q \in ClipPiece(Piece(c, Q)) => Holds(x0, x1, y0, y1, q)
    <2> HIDE DEF L, R
    <2> QED
        BY <1>1, QuadrangleInBox
<1>5. ASSUME NEW q \in Image, NEW c \in Cell
      PROVE  /\ q \in ClipPiece(Piece(c, P)) <=> OddQuadrangle(A, B, R, L, q)
             /\ q \in ClipPiece(Piece(c, Q)) <=> OddQuadrangle(L, R, C, D, q)
    <2> HIDE DEF L, R
    <2> QED
        BY <1>2, ClipOfFour
<1> HIDE DEF P, Q
<1>6. ASSUME NEW q \in Image, NEW c \in Cell, Holds(x0, x1, y0, y1, q)
      PROVE  q \in ClipPiece(Piece(c, P)) <=> ~(q \in ClipPiece(Piece(c, Q)))
    BY <1>3, <1>5, <1>6
<1>7. Tile({P, Q}, x0, x1, y0, y1)
    <2>1. \A q \in Image, c \in Cell, p \in {P, Q} :
               q \in ClipPiece(Piece(c, p)) => Holds(x0, x1, y0, y1, q)
        BY <1>4
    <2>2. \A q \in Image, c \in Cell : Holds(x0, x1, y0, y1, q) =>
               \E p \in {P, Q} : \A s \in {P, Q} : q \in ClipPiece(Piece(c, s)) <=> s = p
        BY <1>6
    <2> QED
        BY <2>1, <2>2, TileOf
<1> QED
    BY <1>7 DEF P, Q

(* The quarters of a cell between its sides and its middle share its pixels out. *)
OneQuarter(A, B, C, D, M, q) ==
    \/ OddTriangle(A, B, M, q) /\ ~OddTriangle(B, C, M, q)
       /\ ~OddTriangle(C, D, M, q) /\ ~OddTriangle(D, A, M, q)
    \/ OddTriangle(B, C, M, q) /\ ~OddTriangle(A, B, M, q)
       /\ ~OddTriangle(C, D, M, q) /\ ~OddTriangle(D, A, M, q)
    \/ OddTriangle(C, D, M, q) /\ ~OddTriangle(A, B, M, q)
       /\ ~OddTriangle(B, C, M, q) /\ ~OddTriangle(D, A, M, q)
    \/ OddTriangle(D, A, M, q) /\ ~OddTriangle(A, B, M, q)
       /\ ~OddTriangle(B, C, M, q) /\ ~OddTriangle(C, D, M, q)

LEMMA QuartersOf ==
    ASSUME Valid, NEW q \in Image, NEW x0, NEW x1, NEW y0, NEW y1, Bounds(x0, x1, y0, y1),
           Holds(x0, x1, y0, y1, q),
           NEW A, NEW B, NEW C, NEW D, NEW M, NEW mx \in Int, NEW my \in Int,
           A = <<x0, y0>>, B = <<x1, y0>>, C = <<x1, y1>>, D = <<x0, y1>>, M = <<mx, my>>,
           x0 <= mx, mx <= x1, y0 <= my, my <= y1
    PROVE  OneQuarter(A, B, C, D, M, q)
<1>0. /\ A \in Vertex /\ B \in Vertex /\ C \in Vertex /\ D \in Vertex /\ M \in Vertex
    BY DEF Bounds, Vertex
<1>1. Border(A, B, C, D, q)
    BY BorderOf
<1>2. /\ Side(A, M, q) <=> Side(M, A, q)
      /\ Side(B, M, q) <=> Side(M, B, q)
      /\ Side(C, M, q) <=> Side(M, C, q)
      /\ Side(D, M, q) <=> Side(M, D, q)
    BY <1>0, SideOf
<1>3. q[2] \in Nat
    BY DEF Image, Valid, Config
<1>4. Centre(q[2]) \in Nat
    BY <1>3, CentreInPixel
<1>5. CASE M[2] > Centre(q[2])
    <2>1. ~Side(C, M, q) /\ ~Side(D, M, q)
        BY <1>0, <1>4, <1>5, SideOf DEF Holds, Bounds
    <2>2. Side(M, A, q) => Side(M, B, q)
        <3>1. A[2] <= Centre(q[2]) /\ B[2] = A[2] /\ A[1] <= B[1] /\ M[1] <= M[1]
            BY DEF Holds, Bounds
        <3> QED
            BY <1>0, <3>1, <1>5, SideMoves
    <2> QED
        BY <1>1, <1>2, <2>1, <2>2 DEF Border, OddTriangle, OneQuarter
<1>6. CASE ~(M[2] > Centre(q[2]))
    <2>0. M[2] <= Centre(q[2])
        BY <1>4, <1>6
    <2>1. ~Side(A, M, q) /\ ~Side(B, M, q)
        BY <1>0, <1>4, <2>0, SideOf DEF Holds, Bounds
    <2>2. Side(D, M, q) => Side(C, M, q)
        <3>1. D[2] > Centre(q[2]) /\ C[2] = D[2] /\ D[1] <= C[1] /\ M[1] <= M[1]
            BY <1>4 DEF Holds, Bounds
        <3> QED
            BY <1>0, <3>1, <2>0, SideMoves
    <2> QED
        BY <1>1, <1>2, <2>1, <2>2 DEF Border, OddTriangle, OneQuarter
<1> QED
    BY <1>5, <1>6

(* By the four triangles around its middle. *)
LEMMA TileOfDiamonds ==
    ASSUME Valid, NEW x0, NEW x1, NEW y0, NEW y1, Bounds(x0, x1, y0, y1),
           NEW A, NEW B, NEW C, NEW D, NEW M, NEW mx \in Int, NEW my \in Int,
           A = <<x0, y0>>, B = <<x1, y0>>, C = <<x1, y1>>, D = <<x0, y1>>, M = <<mx, my>>,
           x0 <= mx, mx <= x1, y0 <= my, my <= y1
    PROVE  Tile({<<A, B, M>>, <<B, C, M>>, <<C, D, M>>, <<D, A, M>>}, x0, x1, y0, y1)
<1>1. \A v \in {A, B, C, D, M} : InBox(v, x0, x1, y0, y1)
    BY DEF InBox, Bounds, Vertex
<1>2. /\ A \in Vertex /\ B \in Vertex /\ C \in Vertex /\ D \in Vertex /\ M \in Vertex
      /\ Triangle(A, B, M) /\ Triangle(B, C, M) /\ Triangle(C, D, M) /\ Triangle(D, A, M)
    BY <1>1 DEF InBox, Triangle
<1> DEFINE P == <<A, B, M>>  Q == <<B, C, M>>  R == <<C, D, M>>  S == <<D, A, M>>
<1>3. ASSUME NEW q \in Image, Holds(x0, x1, y0, y1, q)
      PROVE  OneQuarter(A, B, C, D, M, q)
    BY <1>3, QuartersOf
<1>4. ASSUME NEW q \in Image, NEW c \in Cell
      PROVE  /\ q \in ClipPiece(Piece(c, P)) => Holds(x0, x1, y0, y1, q)
             /\ q \in ClipPiece(Piece(c, Q)) => Holds(x0, x1, y0, y1, q)
             /\ q \in ClipPiece(Piece(c, R)) => Holds(x0, x1, y0, y1, q)
             /\ q \in ClipPiece(Piece(c, S)) => Holds(x0, x1, y0, y1, q)
    BY <1>1, TriangleInBox
<1>5. ASSUME NEW q \in Image, NEW c \in Cell
      PROVE  /\ q \in ClipPiece(Piece(c, P)) <=> OddTriangle(A, B, M, q)
             /\ q \in ClipPiece(Piece(c, Q)) <=> OddTriangle(B, C, M, q)
             /\ q \in ClipPiece(Piece(c, R)) <=> OddTriangle(C, D, M, q)
             /\ q \in ClipPiece(Piece(c, S)) <=> OddTriangle(D, A, M, q)
    BY <1>2, ClipOfThree
<1> HIDE DEF P, Q, R, S
<1>6. \A q \in Image, c \in Cell, p \in {P, Q, R, S} :
           q \in ClipPiece(Piece(c, p)) => Holds(x0, x1, y0, y1, q)
    BY <1>4
<1>7. ASSUME NEW q \in Image, NEW c \in Cell, Holds(x0, x1, y0, y1, q)
      PROVE  \E p \in {P, Q, R, S} : \A s \in {P, Q, R, S} :
                q \in ClipPiece(Piece(c, s)) <=> s = p
    <2> DEFINE I(p) == q \in ClipPiece(Piece(c, p))
    <2>1. \/ I(P) /\ ~I(Q) /\ ~I(R) /\ ~I(S)
          \/ I(Q) /\ ~I(P) /\ ~I(R) /\ ~I(S)
          \/ I(R) /\ ~I(P) /\ ~I(Q) /\ ~I(S)
          \/ I(S) /\ ~I(P) /\ ~I(Q) /\ ~I(R)
        BY <1>3, <1>5, <1>7 DEF OneQuarter
    <2> QED
        BY <2>1
<1>8. Tile({P, Q, R, S}, x0, x1, y0, y1)
    BY <1>6, <1>7, TileOf
<1> QED
    BY <1>8 DEF P, Q, R, S

(* By a triangle, a parallelogram and a triangle. *)
LEMMA TileOfParallelograms ==
    ASSUME Valid, NEW x0, NEW x1, NEW y0, NEW y1, Bounds(x0, x1, y0, y1),
           NEW A, NEW B, NEW C, NEW D, NEW k \in Int, NEW n \in Int,
           A = <<x0, y0>>, B = <<x1, y0>>, C = <<x1, y1>>, D = <<x0, y1>>,
           x0 <= k, k <= x1, x0 <= n, n <= x1
    PROVE  Tile({<<A, <<k, y0>>, D>>, <<<<k, y0>>, B, <<n, y1>>, D>>, <<B, C, <<n, y1>>>>},
                x0, x1, y0, y1)
<1> DEFINE K == <<k, y0>>  N == <<n, y1>>
<1>1. \A v \in {A, B, C, D, K, N} : InBox(v, x0, x1, y0, y1)
    BY DEF InBox, Bounds, Vertex
<1>2. /\ A \in Vertex /\ B \in Vertex /\ C \in Vertex /\ D \in Vertex
      /\ K \in Vertex /\ N \in Vertex
      /\ Triangle(A, K, D) /\ Quadrangle(K, B, N, D) /\ Triangle(B, C, N)
    BY <1>1 DEF InBox, Triangle, Quadrangle
<1> DEFINE P == <<A, K, D>>  Q == <<K, B, N, D>>  R == <<B, C, N>>
<1>3. ASSUME NEW q \in Image, Holds(x0, x1, y0, y1, q)
      PROVE  \/ OddTriangle(A, K, D, q) /\ ~OddQuadrangle(K, B, N, D, q) /\ ~OddTriangle(B, C, N, q)
             \/ ~OddTriangle(A, K, D, q) /\ OddQuadrangle(K, B, N, D, q) /\ ~OddTriangle(B, C, N, q)
             \/ ~OddTriangle(A, K, D, q) /\ ~OddQuadrangle(K, B, N, D, q) /\ OddTriangle(B, C, N, q)
    <2>1. Border(A, B, C, D, q)
        BY <1>3, BorderOf
    <2>2. /\ Side(K, D, q) <=> Side(D, K, q)
          /\ Side(N, B, q) <=> Side(B, N, q)
        BY <1>2, SideOf
    <2>3. ~Side(A, K, q) /\ ~Side(K, B, q) /\ ~Side(N, D, q) /\ ~Side(C, N, q)
        BY <1>2, <1>3, CellSides
    <2>4. q[2] \in Nat
        BY DEF Image, Valid, Config
    <2>5. Centre(q[2]) \in Nat
        BY <2>4, CentreInPixel
    <2>6. Side(D, K, q) => Side(N, B, q)
        <3>1. /\ D[2] > Centre(q[2]) /\ K[2] <= Centre(q[2]) /\ N[2] = D[2] /\ B[2] = K[2]
              /\ D[1] <= N[1] /\ K[1] <= B[1]
            BY <1>3, <2>5 DEF Holds, Bounds
        <3> QED
            BY <1>2, <3>1, SideMoves
    <2> HIDE DEF K, N
    <2> QED
        BY <2>1, <2>2, <2>3, <2>6 DEF Border, OddTriangle, OddQuadrangle
<1>4. ASSUME NEW q \in Image, NEW c \in Cell
      PROVE  /\ q \in ClipPiece(Piece(c, P)) => Holds(x0, x1, y0, y1, q)
             /\ q \in ClipPiece(Piece(c, Q)) => Holds(x0, x1, y0, y1, q)
             /\ q \in ClipPiece(Piece(c, R)) => Holds(x0, x1, y0, y1, q)
    <2> HIDE DEF K, N
    <2> QED
        BY <1>1, TriangleInBox, QuadrangleInBox
<1>5. ASSUME NEW q \in Image, NEW c \in Cell
      PROVE  /\ q \in ClipPiece(Piece(c, P)) <=> OddTriangle(A, K, D, q)
             /\ q \in ClipPiece(Piece(c, Q)) <=> OddQuadrangle(K, B, N, D, q)
             /\ q \in ClipPiece(Piece(c, R)) <=> OddTriangle(B, C, N, q)
    <2> HIDE DEF K, N
    <2> QED
        BY <1>2, ClipOfThree, ClipOfFour
<1> HIDE DEF P, Q, R
<1>6. \A q \in Image, c \in Cell, p \in {P, Q, R} :
           q \in ClipPiece(Piece(c, p)) => Holds(x0, x1, y0, y1, q)
    BY <1>4
<1>7. ASSUME NEW q \in Image, NEW c \in Cell, Holds(x0, x1, y0, y1, q)
      PROVE  \E p \in {P, Q, R} : \A s \in {P, Q, R} :
                q \in ClipPiece(Piece(c, s)) <=> s = p
    <2> DEFINE I(p) == q \in ClipPiece(Piece(c, p))
    <2>1. \/ I(P) /\ ~I(Q) /\ ~I(R)
          \/ I(Q) /\ ~I(P) /\ ~I(R)
          \/ I(R) /\ ~I(P) /\ ~I(Q)
        BY <1>3, <1>5, <1>7
    <2> QED
        BY <2>1
<1>8. Tile({P, Q, R}, x0, x1, y0, y1)
    BY <1>6, <1>7, TileOf
<1> QED
    BY <1>8 DEF P, Q, R

(***************************************************************************)
(* The cells of the grid: each centre is in one cell.                      *)
(***************************************************************************)
LEMMA Sizes ==
    ASSUME Valid
    PROVE  /\ Cols \in Nat /\ Cols > 0 /\ Rows \in Nat /\ Rows > 0
           /\ W \in Nat /\ H \in Nat
           /\ size[1] \in Nat /\ size[2] \in Nat
           /\ Unit * size[1] = Cols * (40 * W) /\ Unit * size[2] = Rows * (40 * H)
<1>1. /\ Cols \in Nat /\ Cols > 0 /\ Rows \in Nat /\ Rows > 0
      /\ size[1] \in Nat /\ size[2] \in Nat
    BY DEF Valid, Config, Cols, Rows
<1>2. W \in Nat /\ H \in Nat
    BY <1>1 DEF W, H
<1> DEFINE a == size[1]  b == size[2]  m == Cols  n == Rows
<1> HIDE DEF a, b, m, n
<1>3. (320 * m * n) * a = m * (40 * (8 * a * n)) /\ (320 * m * n) * b = n * (40 * (8 * b * m))
    <2>1. a \in Nat /\ b \in Nat /\ m \in Nat /\ n \in Nat
        BY <1>1 DEF a, b, m, n
    <2>2. \A i, j, k \in Nat : (320 * i * j) * k = i * (40 * (8 * k * j))
                               /\ (320 * i * j) * k = j * (40 * (8 * k * i))
        OBVIOUS
    <2> QED
        BY <2>1, <2>2
<1> QED
    BY <1>1, <1>2, <1>3 DEF a, b, m, n, Unit, W, H

(* The interval of length d, out of n, that P is in. *)
LEMMA IntervalOf ==
    ASSUME NEW n \in Nat, NEW d \in Nat, NEW P \in Nat, P < n * d
    PROVE  \E k \in 0 .. n - 1 : k * d <= P /\ P < k * d + d
<1> DEFINE T == {k \in Nat : P < k * d + d}
<1>1. n # 0
    <2>1. 0 * d = 0
        OBVIOUS
    <2> QED
        BY <2>1
<1>2. n - 1 \in T
    <2>1. n - 1 \in Nat
        BY <1>1
    <2>2. (n - 1) * d + d = n * d
        OBVIOUS
    <2> QED
        BY <2>1, <2>2
<1> HIDE DEF T
<1>3. T \subseteq Nat
    BY DEF T
<1>4. PICK m \in T : \A k \in T : m <= k
    BY <1>2, <1>3, Least
<1>5. m \in Nat /\ P < m * d + d /\ m <= n - 1
    BY <1>2, <1>4 DEF T
<1>6. m * d <= P
    <2>1. CASE m = 0
        <3>1. 0 * d = 0
            OBVIOUS
        <3> QED
            BY <2>1, <3>1
    <2>2. CASE m # 0
        <3>1. m - 1 \in Nat /\ m - 1 \notin T
            BY <1>4, <1>5, <2>2
        <3>2. (m - 1) * d + d = m * d /\ m * d \in Nat
            BY <1>5
        <3> QED
            BY <3>1, <3>2 DEF T
    <2> QED
        BY <2>1, <2>2
<1>7. m \in 0 .. n - 1
    BY <1>5
<1>8. m * d <= P /\ P < m * d + d
    BY <1>5, <1>6
<1> QED
    BY <1>7, <1>8

LEMMA IntervalsApart ==
    ASSUME NEW d \in Nat, NEW P \in Nat, NEW k \in Nat, NEW l \in Nat,
           k * d <= P, P < k * d + d, l * d <= P, P < l * d + d
    PROVE  k = l
<1>1. ASSUME NEW i \in Nat, NEW j \in Nat, i < j PROVE i * d + d <= j * d
    <2>1. j = i + 1 + (j - i - 1) /\ j - i - 1 \in Nat
        BY <1>1
    <2> DEFINE e == j - i - 1
    <2>2. e \in Nat /\ j = i + 1 + e
        BY <2>1
    <2> HIDE DEF e
    <2>3. j * d = i * d + d + e * d /\ e * d \in Nat /\ i * d \in Nat
        BY <2>2
    <2> QED
        BY <2>3
<1>2. k * d \in Nat /\ l * d \in Nat
    OBVIOUS
<1> QED
    BY <1>1, <1>2

\* The cell in which pixel q has its centre.
HoldsCentre(c, q) ==
    Holds(40 * c[1] * W, 40 * c[1] * W + 40 * W, 40 * c[2] * H, 40 * c[2] * H + 40 * H, q)

LEMMA CentreInImage ==
    ASSUME Valid, NEW q \in Image
    PROVE  /\ Centre(q[1]) \in Nat /\ Centre(q[1]) < Cols * (40 * W)
           /\ Centre(q[2]) \in Nat /\ Centre(q[2]) < Rows * (40 * H)
<1>1. /\ q[1] \in Nat /\ q[1] + 1 <= size[1] /\ q[2] \in Nat /\ q[2] + 1 <= size[2]
    BY Sizes DEF Image
<1>2. Unit \in Nat /\ size[1] \in Nat /\ size[2] \in Nat
    BY UnitIsEven, Sizes
<1>3. ASSUME NEW u \in Nat, NEW i \in Nat, NEW j \in Nat, i <= j PROVE u * i <= u * j
    <2>1. u * j = u * i + u * (j - i) /\ u * (j - i) \in Nat /\ u * i \in Nat
        BY <1>3
    <2> QED
        BY <2>1
<1>4. Unit * (q[1] + 1) <= Unit * size[1] /\ Unit * (q[2] + 1) <= Unit * size[2]
    BY <1>1, <1>2, <1>3
<1>5. /\ Centre(q[1]) \in Nat /\ Centre(q[1]) < Unit * (q[1] + 1)
      /\ Centre(q[2]) \in Nat /\ Centre(q[2]) < Unit * (q[2] + 1)
    BY <1>1, CentreInPixel
<1>6. /\ Unit * (q[1] + 1) \in Nat /\ Unit * size[1] \in Nat
      /\ Unit * (q[2] + 1) \in Nat /\ Unit * size[2] \in Nat
    BY <1>1, <1>2
<1> QED
    BY <1>4, <1>5, <1>6, Sizes

(* Each centre is in one cell. *)
LEMMA CellOfPixel ==
    ASSUME Valid, NEW q \in Image
    PROVE  \E c \in Cell : \A d \in Cell : HoldsCentre(d, q) <=> d = c
<1> DEFINE X == Centre(q[1])  Y == Centre(q[2])
<1>1. /\ X \in Nat /\ X < Cols * (40 * W) /\ Y \in Nat /\ Y < Rows * (40 * H)
    BY CentreInImage
<1>2. /\ Cols \in Nat /\ Rows \in Nat /\ 40 * W \in Nat /\ 40 * H \in Nat
      /\ W \in Nat /\ H \in Nat
    BY Sizes
<1> HIDE DEF X, Y
<1>3. PICK i \in 0 .. Cols - 1 : i * (40 * W) <= X /\ X < i * (40 * W) + 40 * W
    BY <1>1, <1>2, IntervalOf
<1>4. PICK j \in 0 .. Rows - 1 : j * (40 * H) <= Y /\ Y < j * (40 * H) + 40 * H
    BY <1>1, <1>2, IntervalOf
<1>5. ASSUME NEW d \in Cell
      PROVE  /\ d = <<d[1], d[2]>> /\ d[1] \in 0 .. Cols - 1 /\ d[2] \in 0 .. Rows - 1
             /\ d[1] \in Nat /\ d[2] \in Nat
             /\ HoldsCentre(d, q) <=>
                  /\ d[1] * (40 * W) <= X /\ X < d[1] * (40 * W) + 40 * W
                  /\ d[2] * (40 * H) <= Y /\ Y < d[2] * (40 * H) + 40 * H
    <2>1. /\ d = <<d[1], d[2]>> /\ d[1] \in 0 .. Cols - 1 /\ d[2] \in 0 .. Rows - 1
          /\ d[1] \in Nat /\ d[2] \in Nat
        BY <1>2 DEF Cell
    <2>2. \A k, u \in Nat : 40 * k * u = k * (40 * u)
        OBVIOUS
    <2>3. 40 * d[1] * W = d[1] * (40 * W) /\ 40 * d[2] * H = d[2] * (40 * H)
        BY <1>2, <2>1, <2>2
    <2> QED
        BY <2>1, <2>3 DEF HoldsCentre, Holds, X, Y
<1>6. <<i, j>> \in Cell
    BY DEF Cell
<1>7. HoldsCentre(<<i, j>>, q)
    BY <1>3, <1>4, <1>5, <1>6
<1>8. ASSUME NEW d \in Cell, HoldsCentre(d, q) PROVE d = <<i, j>>
    <2>0. i \in Nat /\ j \in Nat
        BY <1>2
    <2>1. d[1] = i
        BY <1>1, <1>2, <1>3, <1>5, <1>8, <2>0, IntervalsApart
    <2>2. d[2] = j
        BY <1>1, <1>2, <1>4, <1>5, <1>8, <2>0, IntervalsApart
    <2> QED
        BY <2>1, <2>2, <1>5
<1> QED
    BY <1>6, <1>7, <1>8

TileOfCell(polygons, c) ==
    Tile(polygons, 40 * c[1] * W, 40 * c[1] * W + 40 * W, 40 * c[2] * H, 40 * c[2] * H + 40 * H)

LEMMA CellBounds ==
    ASSUME Valid, NEW c \in Cell
    PROVE  /\ c = <<c[1], c[2]>> /\ c[1] \in Nat /\ c[2] \in Nat
           /\ 40 * c[1] * W \in Nat /\ 40 * c[2] * H \in Nat
           /\ Bounds(40 * c[1] * W, 40 * c[1] * W + 40 * W,
                     40 * c[2] * H, 40 * c[2] * H + 40 * H)
<1>1. c = <<c[1], c[2]>> /\ c[1] \in Nat /\ c[2] \in Nat
    BY Sizes DEF Cell
<1>2. W \in Nat /\ H \in Nat
    BY Sizes
<1>3. 40 * c[1] * W \in Nat /\ 40 * c[2] * H \in Nat
    BY <1>1, <1>2
<1> QED
    BY <1>1, <1>2, <1>3 DEF Bounds

(* Whatever its shape, the polygons of a cell share it out. *)
LEMMA CellPolygonsTile ==
    ASSUME Valid, NEW c \in Cell, NEW s \in Shape
    PROVE  TileOfCell(CellPolygons(s, c), c)
<1> DEFINE x0 == 40 * c[1] * W   x1 == x0 + 40 * W   mx == x0 + 20 * W
           y0 == 40 * c[2] * H   y1 == y0 + 40 * H   my == y0 + 20 * H
           slope == IF c[2] % 2 = 0 THEN 6 * H ELSE -6 * H
           A == <<x0, y0>>  B == <<x1, y0>>  C == <<x1, y1>>  D == <<x0, y1>>
<1>1. /\ Bounds(x0, x1, y0, y1) /\ x0 \in Nat /\ y0 \in Nat /\ W \in Nat /\ H \in Nat
      /\ c[1] \in Nat /\ c[2] \in Nat
    BY CellBounds, Sizes
<1>2. CASE s = "triangles"
    <2>1. CASE (c[1] + c[2]) % 2 = 0
        <3>1. CellPolygons(s, c) = {<<A, B, D>>, <<B, C, D>>}
            BY <1>2, <2>1 DEF CellPolygons
        <3> HIDE DEF x0, x1, y0, y1
        <3>2. Tile({<<A, B, D>>, <<B, C, D>>}, x0, x1, y0, y1)
            BY <1>1, TileOfTriangles
        <3> QED
            BY <3>1, <3>2 DEF TileOfCell, x0, x1, y0, y1
    <2>2. CASE (c[1] + c[2]) % 2 # 0
        <3>1. CellPolygons(s, c) = {<<A, B, C>>, <<A, C, D>>}
            BY <1>2, <2>2 DEF CellPolygons
        <3> HIDE DEF x0, x1, y0, y1
        <3>2. Tile({<<A, B, C>>, <<A, C, D>>}, x0, x1, y0, y1)
            BY <1>1, TileOfTriangles
        <3> QED
            BY <3>1, <3>2 DEF TileOfCell, x0, x1, y0, y1
    <2> QED
        BY <2>1, <2>2
<1>3. CASE s = "diamonds"
    <2>1. CellPolygons(s, c) = {<<A, B, <<mx, my>>>>, <<B, C, <<mx, my>>>>,
                                <<C, D, <<mx, my>>>>, <<D, A, <<mx, my>>>>}
        BY <1>3 DEF CellPolygons
    <2>2. mx \in Int /\ my \in Int /\ x0 <= mx /\ mx <= x1 /\ y0 <= my /\ my <= y1
        BY <1>1
    <2> HIDE DEF x0, x1, y0, y1, mx, my
    <2>3. Tile({<<A, B, <<mx, my>>>>, <<B, C, <<mx, my>>>>,
                <<C, D, <<mx, my>>>>, <<D, A, <<mx, my>>>>}, x0, x1, y0, y1)
        BY <1>1, <2>2, TileOfDiamonds
    <2> QED
        BY <2>1, <2>3 DEF TileOfCell, x0, x1, y0, y1
<1>4. CASE s = "trapezoids"
    <2>1. CellPolygons(s, c) = {<<A, B, <<x1, my + slope>>, <<x0, my - slope>>>>,
                                <<<<x0, my - slope>>, <<x1, my + slope>>, C, D>>}
        BY <1>4 DEF CellPolygons
    <2> DEFINE l == my - slope  r == my + slope
    <2>2. l \in Int /\ r \in Int /\ y0 <= l /\ l <= y1 /\ y0 <= r /\ r <= y1
        <3>1. slope \in Int /\ slope <= 6 * H /\ -(6 * H) <= slope
            BY <1>1
        <3> HIDE DEF slope
        <3> QED
            BY <1>1, <3>1
    <2> HIDE DEF l, r, x0, x1, y0, y1
    <2>3. Tile({<<A, B, <<x1, r>>, <<x0, l>>>>, <<<<x0, l>>, <<x1, r>>, C, D>>}, x0, x1, y0, y1)
        BY <1>1, <2>2, TileOfTrapezoids
    <2> QED
        BY <2>1, <2>3 DEF TileOfCell, x0, x1, y0, y1, l, r
<1>5. CASE s = "parallelograms"
    <2>1. CellPolygons(s, c) = {<<A, <<x0 + 8 * W, y0>>, D>>,
                                <<<<x0 + 8 * W, y0>>, B, <<x1 - 8 * W, y1>>, D>>,
                                <<B, C, <<x1 - 8 * W, y1>>>>}
        BY <1>5 DEF CellPolygons
    <2> DEFINE k == x0 + 8 * W  n == x1 - 8 * W
    <2>2. k \in Int /\ n \in Int /\ x0 <= k /\ k <= x1 /\ x0 <= n /\ n <= x1
        BY <1>1
    <2> HIDE DEF k, n, x0, x1, y0, y1
    <2>3. Tile({<<A, <<k, y0>>, D>>, <<<<k, y0>>, B, <<n, y1>>, D>>, <<B, C, <<n, y1>>>>},
               x0, x1, y0, y1)
        BY <1>1, <2>2, TileOfParallelograms
    <2> QED
        BY <2>1, <2>3 DEF TileOfCell, x0, x1, y0, y1, k, n
<1> QED
    BY <1>2, <1>3, <1>4, <1>5 DEF Shape

(***************************************************************************)
(* Sheared rows (parallelograms): the sides between the cells of a row all *)
(* lean the same way, and the last cell reaches beyond the image.          *)
(***************************************************************************)
RowHolds(r, q) == 40 * r * H <= Centre(q[2]) /\ Centre(q[2]) < 40 * r * H + 40 * H
OneOf(S, q) == \E p \in S : \A s \in S : q \in ClipPiece(s) <=> s = p

\* The upper and the lower end of the side in front of sheared cell c of row r.
Upper(c, r, top) == <<40 * c * W + top, 40 * r * H>>
Lower(c, r, bottom) == <<40 * c * W + bottom, 40 * r * H + 40 * H>>
Lean(c, r, top, bottom, q) == Side(Upper(c, r, top), Lower(c, r, bottom), q)
Leaning(top, bottom) == (top = 10 * W /\ bottom = 0) \/ (top = 0 /\ bottom = 10 * W)

(* The ray never crosses a level side. *)
LEMMA Level ==
    ASSUME Valid, NEW q \in Image, NEW a \in Vertex, NEW b \in Vertex, a[2] = b[2]
    PROVE  ~Side(a, b, q)
<1>1. q[2] \in Nat
    BY DEF Image, Valid, Config
<1>2. Centre(q[2]) \in Int /\ a[2] \in Int
    BY <1>1, CentreInPixel DEF Vertex
<1> QED
    BY <1>2, SideOf

(* The ends of a leaning side. *)
LEMMA EndsType ==
    ASSUME Valid, NEW c \in Nat, NEW r \in Nat, NEW t \in Nat
    PROVE  /\ Upper(c, r, t) \in Vertex /\ Lower(c, r, t) \in Vertex
           /\ 40 * c * W \in Nat /\ 40 * r * H \in Nat
<1>1. W \in Nat /\ H \in Nat
    BY Sizes
<1>2. 40 * c * W \in Nat /\ 40 * r * H \in Nat
    BY <1>1
<1> QED
    BY <1>1, <1>2 DEF Upper, Lower, Vertex

LEMMA NextEnds ==
    ASSUME Valid, NEW c \in Nat, NEW r \in Nat, NEW t \in Nat
    PROVE  /\ Upper(c + 1, r, t) = <<40 * c * W + 40 * W + t, 40 * r * H>>
           /\ Lower(c + 1, r, t) = <<40 * c * W + 40 * W + t, 40 * r * H + 40 * H>>
<1>1. W \in Nat /\ H \in Nat
    BY Sizes
<1>2. 40 * (c + 1) * W = 40 * c * W + 40 * W
    BY <1>1
<1> QED
    BY <1>2 DEF Upper, Lower

LEMMA LeanTypes ==
    ASSUME Valid, NEW top, NEW bottom, Leaning(top, bottom)
    PROVE  top \in Nat /\ bottom \in Nat
BY Sizes DEF Leaning

(* A side that is crossed is followed by crossed sides, as far as the last. *)
LEMMA LeansOn ==
    ASSUME Valid, NEW q \in Image, NEW r \in Nat, RowHolds(r, q),
           NEW top, NEW bottom, Leaning(top, bottom), NEW c \in Nat
    PROVE  /\ Lean(c, r, top, bottom, q) => Lean(c + 1, r, top, bottom, q)
           /\ c = Cols => Lean(c, r, top, bottom, q)
<1> DEFINE a == Lower(c, r, bottom)  b == Upper(c, r, top)
           d == Lower(c + 1, r, bottom)  e == Upper(c + 1, r, top)
<1>1. top \in Nat /\ bottom \in Nat
    BY LeanTypes
<1>2. /\ a \in Vertex /\ b \in Vertex /\ d \in Vertex /\ e \in Vertex
      /\ 40 * c * W \in Nat /\ 40 * r * H \in Nat
    <2>1. c + 1 \in Nat
        OBVIOUS
    <2> QED
        BY <1>1, <2>1, EndsType
<1>3. /\ Lean(c, r, top, bottom, q) <=> Side(a, b, q)
      /\ Lean(c + 1, r, top, bottom, q) <=> Side(d, e, q)
    BY <1>2, SideOf DEF Lean
<1>4. W \in Nat /\ H \in Nat
    BY Sizes
<1>5. q[2] \in Nat
    BY DEF Image, Valid, Config
<1>6. Centre(q[2]) \in Nat
    BY <1>5, CentreInPixel
<1>7. Side(a, b, q) => Side(d, e, q)
    <2>1. d[1] = a[1] + 40 * W /\ e[1] = b[1] + 40 * W /\ d[2] = a[2] /\ e[2] = b[2]
        BY <1>1, <1>2, <1>4, NextEnds DEF Upper, Lower
    <2>2. a[2] > Centre(q[2]) /\ b[2] <= Centre(q[2])
        BY <1>2, <1>4, <1>6 DEF RowHolds, Upper, Lower
    <2>3. a[1] <= d[1] /\ b[1] <= e[1]
        BY <1>2, <1>4, <2>1 DEF Vertex
    <2> HIDE DEF a, b, d, e
    <2> QED
        BY <1>2, <2>1, <2>2, <2>3, SideMoves
<1>8. ASSUME c = Cols PROVE Side(a, b, q)
    <2>1. Centre(q[1]) \in Nat /\ Centre(q[1]) < Cols * (40 * W)
        BY CentreInImage
    <2>2. Cols * (40 * W) = 40 * c * W
        BY <1>4, <1>8
    <2>3. Centre(q[1]) < a[1] /\ Centre(q[1]) < b[1]
        BY <1>1, <1>2, <2>1, <2>2 DEF Upper, Lower
    <2>4. a[2] > Centre(q[2]) /\ b[2] <= Centre(q[2])
        BY <1>2, <1>4, <1>6 DEF RowHolds, Upper, Lower
    <2> HIDE DEF a, b
    <2> QED
        BY <1>2, <2>3, <2>4, SideOf
<1> QED
    BY <1>3, <1>7, <1>8

ShearedTriangle(r, top, bottom) ==
    Piece(<<0, r>>, <<<<0, 40 * r * H>>,
                      <<top + bottom, IF top > 0 THEN 40 * r * H ELSE 40 * r * H + 40 * H>>,
                      <<0, 40 * r * H + 40 * H>>>>)
ShearedCell(c, r, top, bottom) ==
    Piece(<<c, r>>, <<Upper(c, r, top), Upper(c + 1, r, top),
                      Lower(c + 1, r, bottom), Lower(c, r, bottom)>>)

(* The pieces of a row and the sides of each that count. *)
LEMMA ShearedPieces ==
    ASSUME Valid, NEW r \in Nat, NEW top, NEW bottom, Leaning(top, bottom)
    PROVE  Sheared(r, top, bottom) = {ShearedTriangle(r, top, bottom)}
                \cup {ShearedCell(c, r, top, bottom) : c \in 0 .. Cols - 1}
<1>1. ASSUME NEW c \in 0 .. Cols - 1
      PROVE  ShearedCell(c, r, top, bottom) =
                LET x0 == 40 * c * W   x1 == x0 + 40 * W
                    y0 == 40 * r * H   y1 == y0 + 40 * H
                IN  Piece(<<c, r>>, <<<<x0 + top, y0>>, <<x1 + top, y0>>,
                                      <<x1 + bottom, y1>>, <<x0 + bottom, y1>>>>)
    <2>1. c \in Nat /\ top \in Nat /\ bottom \in Nat
        BY Sizes, LeanTypes
    <2>2. /\ Upper(c + 1, r, top) = <<40 * c * W + 40 * W + top, 40 * r * H>>
          /\ Lower(c + 1, r, bottom) = <<40 * c * W + 40 * W + bottom, 40 * r * H + 40 * H>>
        BY <2>1, NextEnds
    <2> QED
        BY <2>2 DEF ShearedCell, Upper, Lower
<1> QED
    BY <1>1 DEF Sheared, ShearedTriangle

LEMMA InShearedCell ==
    ASSUME Valid, NEW q \in Image, NEW r \in Nat,
           NEW top, NEW bottom, Leaning(top, bottom), NEW c \in Nat
    PROVE  /\ q \in ClipPiece(ShearedCell(c, r, top, bottom)) => RowHolds(r, q)
           /\ q \in ClipPiece(ShearedCell(c, r, top, bottom)) <=>
                ~(Lean(c, r, top, bottom, q) <=> Lean(c + 1, r, top, bottom, q))
<1> DEFINE a == Upper(c, r, top)  b == Upper(c + 1, r, top)
           d == Lower(c + 1, r, bottom)  e == Lower(c, r, bottom)
<1>1. top \in Nat /\ bottom \in Nat
    BY LeanTypes
<1>2. /\ a \in Vertex /\ b \in Vertex /\ d \in Vertex /\ e \in Vertex
      /\ Quadrangle(a, b, d, e)
      /\ 40 * r * H \in Nat
    <2>1. c + 1 \in Nat
        OBVIOUS
    <2> QED
        BY <1>1, <2>1, EndsType DEF Quadrangle
<1>3. /\ a[2] = 40 * r * H /\ b[2] = 40 * r * H
      /\ d[2] = 40 * r * H + 40 * H /\ e[2] = 40 * r * H + 40 * H
    BY DEF Upper, Lower
<1>4. ShearedCell(c, r, top, bottom) = Piece(<<c, r>>, <<a, b, d, e>>)
    BY DEF ShearedCell
<1>5. /\ Lean(c, r, top, bottom, q) <=> Side(e, a, q)
      /\ Lean(c + 1, r, top, bottom, q) <=> Side(b, d, q)
    BY <1>2, SideOf DEF Lean
<1> HIDE DEF a, b, d, e
<1>6. /\ q \in ClipPiece(Piece(<<c, r>>, <<a, b, d, e>>)) <=> OddQuadrangle(a, b, d, e, q)
      /\ q \in ClipPiece(Piece(<<c, r>>, <<a, b, d, e>>)) => Reaches({a, b, d, e}, q)
    BY <1>2, ClipOfFour
<1>7. ~Side(a, b, q) /\ ~Side(d, e, q)
    BY <1>2, <1>3, Level
<1>8. OddQuadrangle(a, b, d, e, q) <=>
        ~(Lean(c, r, top, bottom, q) <=> Lean(c + 1, r, top, bottom, q))
    BY <1>5, <1>7 DEF OddQuadrangle
<1>9. Reaches({a, b, d, e}, q) => RowHolds(r, q)
    <2>1. q[2] \in Nat /\ H \in Nat
        BY Sizes DEF Image, Valid, Config
    <2>2. Centre(q[2]) \in Nat
        BY <2>1, CentreInPixel
    <2> QED
        BY <1>2, <1>3, <2>1, <2>2 DEF Reaches, RowHolds
<1> QED
    BY <1>4, <1>6, <1>8, <1>9

LEMMA InShearedTriangle ==
    ASSUME Valid, NEW q \in Image, NEW r \in Nat,
           NEW top, NEW bottom, Leaning(top, bottom)
    PROVE  /\ q \in ClipPiece(ShearedTriangle(r, top, bottom)) => RowHolds(r, q)
           /\ q \in ClipPiece(ShearedTriangle(r, top, bottom)) <=> Lean(0, r, top, bottom, q)
<1> DEFINE a == Upper(0, r, 0)  d == Lower(0, r, 0)
           e == <<top + bottom, IF top > 0 THEN 40 * r * H ELSE 40 * r * H + 40 * H>>
<1>1. top \in Nat /\ bottom \in Nat /\ W \in Nat /\ H \in Nat
    BY LeanTypes, Sizes
<1>2. 40 * r * H \in Nat /\ 40 * 0 * W = 0
    BY <1>1
<1>3. /\ a = <<0, 40 * r * H>> /\ d = <<0, 40 * r * H + 40 * H>>
      /\ a \in Vertex /\ d \in Vertex /\ e \in Vertex /\ Triangle(a, e, d)
    BY <1>1, <1>2 DEF Upper, Lower, Vertex, Triangle
<1>4. ShearedTriangle(r, top, bottom) = Piece(<<0, r>>, <<a, e, d>>)
    BY <1>3 DEF ShearedTriangle
<1>5. W > 0
    <2>1. Centre(q[1]) \in Nat /\ Centre(q[1]) < Cols * (40 * W) /\ Cols \in Nat
        BY CentreInImage, Sizes
    <2>2. Cols * (40 * 0) = 0
        BY <2>1
    <2>3. W # 0
        BY <2>1, <2>2
    <2> QED
        BY <1>1, <2>3
<1>6. /\ q \in ClipPiece(Piece(<<0, r>>, <<a, e, d>>)) <=> OddTriangle(a, e, d, q)
      /\ q \in ClipPiece(Piece(<<0, r>>, <<a, e, d>>)) => Reaches({a, e, d}, q)
    <2> HIDE DEF a, e, d
    <2> QED
        BY <1>3, ClipOfThree
<1>7. ~Side(d, a, q)
    <2>1. Centre(q[1]) \in Nat
        BY CentreInImage
    <2>2. Centre(q[1]) >= d[1] /\ Centre(q[1]) >= a[1]
        BY <1>3, <2>1
    <2> HIDE DEF a, d
    <2> QED
        BY <1>3, <2>2, SideOf
<1>8. OddTriangle(a, e, d, q) <=> Lean(0, r, top, bottom, q)
    <2>1. CASE top = 10 * W /\ bottom = 0
        <3>1. e = Upper(0, r, top) /\ d = Lower(0, r, bottom)
            BY <1>1, <1>2, <1>5, <2>1 DEF Upper, Lower
        <3>2. ~Side(a, e, q)
            BY <1>1, <1>3, <1>5, <2>1, Level
        <3>3. Lean(0, r, top, bottom, q) <=> Side(e, d, q)
            BY <3>1 DEF Lean
        <3> HIDE DEF a, d, e
        <3> QED
            BY <1>7, <3>2, <3>3 DEF OddTriangle
    <2>2. CASE top = 0 /\ bottom = 10 * W
        <3>1. a = Upper(0, r, top) /\ e = Lower(0, r, bottom)
            BY <1>1, <1>2, <1>5, <2>2 DEF Upper, Lower
        <3>2. ~Side(e, d, q)
            BY <1>1, <1>3, <1>5, <2>2, Level
        <3>3. Lean(0, r, top, bottom, q) <=> Side(a, e, q)
            BY <3>1 DEF Lean
        <3> HIDE DEF a, d, e
        <3> QED
            BY <1>7, <3>2, <3>3 DEF OddTriangle
    <2> QED
        BY <2>1, <2>2 DEF Leaning
<1>9. Reaches({a, e, d}, q) => RowHolds(r, q)
    <2>1. q[2] \in Nat
        BY DEF Image, Valid, Config
    <2>2. Centre(q[2]) \in Nat
        BY <2>1, CentreInPixel
    <2>3. \A v \in {a, e, d} : 40 * r * H <= v[2] /\ v[2] <= 40 * r * H + 40 * H /\ v[2] \in Int
        BY <1>1, <1>2, <1>3
    <2> HIDE DEF a, e, d
    <2> QED
        BY <1>1, <1>2, <2>2, <2>3 DEF Reaches, RowHolds
<1> HIDE DEF a, d, e
<1> QED
    BY <1>4, <1>6, <1>8, <1>9

(* The pieces of a row are different. *)
LEMMA ShearedDiffer ==
    ASSUME NEW r \in Nat, NEW top, NEW bottom, NEW c, NEW d
    PROVE  /\ ShearedTriangle(r, top, bottom) # ShearedCell(c, r, top, bottom)
           /\ c # d => ShearedCell(c, r, top, bottom) # ShearedCell(d, r, top, bottom)
<1>1. /\ Len(ShearedTriangle(r, top, bottom).polygon) = 3
      /\ Len(ShearedCell(c, r, top, bottom).polygon) = 4
    BY DEF ShearedTriangle, ShearedCell, Piece
<1>2. \A k : ShearedCell(k, r, top, bottom).pos = <<k, r>>
    BY DEF ShearedCell, Piece
<1>3. c # d => <<c, r>> # <<d, r>>
    OBVIOUS
<1> QED
    BY <1>1, <1>2, <1>3

(* The pieces of a row share its pixels out: the sides lean the same way, so that the ray *)
(* crosses all of them from some cell on.                                                 *)
LEMMA ShearedRow ==
    ASSUME Valid, NEW q \in Image, NEW r \in Nat,
           NEW top, NEW bottom, Leaning(top, bottom)
    PROVE  /\ \A p \in Sheared(r, top, bottom) : q \in ClipPiece(p) => RowHolds(r, q)
           /\ RowHolds(r, q) => OneOf(Sheared(r, top, bottom), q)
<1> DEFINE E(c) == Lean(c, r, top, bottom, q)
           T == ShearedTriangle(r, top, bottom)
           C(c) == ShearedCell(c, r, top, bottom)
<1>1. Cols \in Nat /\ Cols > 0
    BY Sizes
<1>2. Sheared(r, top, bottom) = {T} \cup {C(c) : c \in 0 .. Cols - 1}
    BY ShearedPieces
<1>3. /\ q \in ClipPiece(T) => RowHolds(r, q)
      /\ q \in ClipPiece(T) <=> E(0)
    BY InShearedTriangle
<1>4. ASSUME NEW c \in Nat
      PROVE  /\ q \in ClipPiece(C(c)) => RowHolds(r, q)
             /\ q \in ClipPiece(C(c)) <=> ~(E(c) <=> E(c + 1))
    BY InShearedCell
<1>5. ASSUME NEW c, NEW d
      PROVE  T # C(c) /\ (c # d => C(c) # C(d))
    BY ShearedDiffer
<1>6. ASSUME RowHolds(r, q), NEW c \in Nat
      PROVE  (E(c) => E(c + 1)) /\ (c = Cols => E(c))
    BY <1>6, LeansOn
<1> HIDE DEF E, T, C
<1>7. \A p \in Sheared(r, top, bottom) : q \in ClipPiece(p) => RowHolds(r, q)
    BY <1>1, <1>2, <1>3, <1>4
<1>8. ASSUME RowHolds(r, q) PROVE OneOf(Sheared(r, top, bottom), q)
    <2>1. PICK m \in {c \in Nat : E(c)} : \A k \in {c \in Nat : E(c)} : m <= k
        <3>1. Cols \in {c \in Nat : E(c)}
            BY <1>1, <1>6, <1>8
        <3> HIDE DEF E
        <3> QED
            BY <3>1, Least
    <2>2. m \in Nat /\ E(m) /\ m <= Cols /\ \A k \in Nat : E(k) => m <= k
        BY <1>1, <1>6, <1>8, <2>1
    <2>3. \A k \in Nat : m <= k => E(k)
        <3>1. SUFFICES ASSUME NEW k \in Nat, m <= k, ~E(k) PROVE FALSE
            OBVIOUS
        <3> DEFINE U == {u \in Nat : m <= u /\ ~E(u)}
        <3>2. k \in U
            BY <3>1
        <3> HIDE DEF U
        <3>3. PICK l \in U : \A u \in U : l <= u
            <4>1. U \subseteq Nat
                BY DEF U
            <4> QED
                BY <3>2, <4>1, Least
        <3>4. l \in Nat /\ m <= l /\ ~E(l)
            BY <3>3 DEF U
        <3>5. l # m
            BY <2>2, <3>4
        <3>6. l - 1 \in Nat /\ m <= l - 1 /\ l - 1 \notin U
            BY <2>2, <3>3, <3>4, <3>5
        <3>7. E(l - 1)
            BY <3>6 DEF U
        <3>8. E(l - 1 + 1) /\ l - 1 + 1 = l
            BY <1>6, <1>8, <3>4, <3>6, <3>7
        <3> QED
            BY <3>4, <3>8
    <2>4. \A k \in Nat : E(k) <=> m <= k
        BY <2>2, <2>3
    <2>5. \A c \in Nat : q \in ClipPiece(C(c)) <=> c + 1 = m
        BY <1>4, <2>2, <2>4
    <2>6. q \in ClipPiece(T) <=> m = 0
        BY <1>3, <2>2, <2>4
    <2>7. CASE m = 0
        <3>1. \A c \in 0 .. Cols - 1 : q \notin ClipPiece(C(c))
            BY <1>1, <2>5, <2>7
        <3> QED
            BY <1>2, <1>5, <2>6, <2>7, <3>1 DEF OneOf
    <2>8. CASE m # 0
        <3>1. m - 1 \in 0 .. Cols - 1
            BY <1>1, <2>2, <2>8
        <3>2. \A c \in 0 .. Cols - 1 : q \in ClipPiece(C(c)) <=> c = m - 1
            BY <1>1, <2>2, <2>5
        <3>3. q \notin ClipPiece(T)
            BY <2>6, <2>8
        <3>4. \A s \in Sheared(r, top, bottom) : q \in ClipPiece(s) <=> s = C(m - 1)
            BY <1>2, <1>5, <3>1, <3>2, <3>3
        <3> QED
            BY <1>2, <3>1, <3>4 DEF OneOf
    <2> QED
        BY <2>7, <2>8
<1> QED
    BY <1>7, <1>8

(* Each centre is in one row. *)
LEMMA RowOfPixel ==
    ASSUME Valid, NEW q \in Image
    PROVE  \E r \in 0 .. Rows - 1 : \A k \in 0 .. Rows - 1 : RowHolds(k, q) <=> k = r
<1> DEFINE Y == Centre(q[2])
<1>1. Y \in Nat /\ Y < Rows * (40 * H)
    BY CentreInImage
<1>2. Rows \in Nat /\ 40 * H \in Nat /\ H \in Nat
    BY Sizes
<1> HIDE DEF Y
<1>3. PICK r \in 0 .. Rows - 1 : r * (40 * H) <= Y /\ Y < r * (40 * H) + 40 * H
    BY <1>1, <1>2, IntervalOf
<1>4. ASSUME NEW k \in 0 .. Rows - 1
      PROVE  /\ k \in Nat
             /\ RowHolds(k, q) <=> k * (40 * H) <= Y /\ Y < k * (40 * H) + 40 * H
    <2>1. k \in Nat
        BY <1>2
    <2>2. 40 * k * H = k * (40 * H)
        BY <1>2, <2>1
    <2> QED
        BY <2>1, <2>2 DEF RowHolds, Y
<1>5. ASSUME NEW k \in 0 .. Rows - 1, RowHolds(k, q) PROVE k = r
    BY <1>1, <1>2, <1>3, <1>4, <1>5, IntervalsApart
<1> QED
    BY <1>3, <1>4, <1>5

(* The sheared rows share the image out. *)
LEMMA ShearedTile ==
    ASSUME Valid, NEW q \in Image
    PROVE  OneOf(UNION {IF r % 2 = 0 THEN Sheared(r, 10 * W, 0) ELSE Sheared(r, 0, 10 * W)
                        : r \in 0 .. Rows - 1}, q)
<1> DEFINE S(r) == IF r % 2 = 0 THEN Sheared(r, 10 * W, 0) ELSE Sheared(r, 0, 10 * W)
<1>1. PICK r \in 0 .. Rows - 1 : \A k \in 0 .. Rows - 1 : RowHolds(k, q) <=> k = r
    BY RowOfPixel
<1>2. Leaning(10 * W, 0) /\ Leaning(0, 10 * W)
    BY DEF Leaning
<1>3. ASSUME NEW k \in 0 .. Rows - 1
      PROVE  /\ \A p \in S(k) : q \in ClipPiece(p) => RowHolds(k, q)
             /\ RowHolds(k, q) => OneOf(S(k), q)
    <2>1. k \in Nat
        BY Sizes
    <2> QED
        BY <1>2, <2>1, ShearedRow
<1> HIDE DEF S
<1>4. PICK p \in S(r) : \A s \in S(r) : q \in ClipPiece(s) <=> s = p
    BY <1>1, <1>3 DEF OneOf
<1>5. \A s \in UNION {S(k) : k \in 0 .. Rows - 1} : q \in ClipPiece(s) <=> s = p
    BY <1>1, <1>3, <1>4
<1>6. OneOf(UNION {S(k) : k \in 0 .. Rows - 1}, q)
    BY <1>4, <1>5 DEF OneOf
<1> QED
    BY <1>6 DEF S

(* Cells that are each shared out by polygons share the image out. *)
LEMMA CellsTile ==
    ASSUME Valid, NEW q \in Image, NEW F, \A c \in Cell : TileOfCell(F[c], c)
    PROVE  OneOf(UNION {{Piece(c, p) : p \in F[c]} : c \in Cell}, q)
<1>1. PICK c \in Cell : \A d \in Cell : HoldsCentre(d, q) <=> d = c
    BY CellOfPixel
<1>2. ASSUME NEW d \in Cell
      PROVE  /\ HoldsCentre(d, q) =>
                  \E p \in F[d] : \A s \in F[d] : q \in ClipPiece(Piece(d, s)) <=> s = p
             /\ ~HoldsCentre(d, q) => \A s \in F[d] : q \notin ClipPiece(Piece(d, s))
    BY DEF TileOfCell, Tile, HoldsCentre
<1>3. PICK p \in F[c] : \A s \in F[c] : q \in ClipPiece(Piece(c, s)) <=> s = p
    BY <1>1, <1>2
<1>4. \A d, s, t : Piece(d, s) = Piece(c, t) => d = c /\ s = t
    BY DEF Piece
<1>5. ASSUME NEW d \in Cell, NEW s \in F[d]
      PROVE  q \in ClipPiece(Piece(d, s)) <=> Piece(d, s) = Piece(c, p)
    BY <1>1, <1>2, <1>3, <1>4
<1> QED
    BY <1>3, <1>5 DEF OneOf

(***************************************************************************)
(* The pieces of a jigsaw. A tab bends a side; as seen from a pixel that   *)
(* is not between the bent side and the straight one, both are crossed     *)
(* alike.                                                                  *)
(***************************************************************************)
\* How far the point p lies to the right of the line through a and b.
Offset(a, b, p) == (p[1] - b[1]) * (a[2] - b[2]) - (a[1] - b[1]) * (p[2] - b[2])

(* The crossing forms of two sides at the same height differ by the offsets of the ends. *)
LEMMA OffsetIdentity ==
    ASSUME NEW a \in Int, NEW b \in Int, NEW p \in Int, NEW r \in Int,
           NEW u \in Int, NEW v \in Int, NEW m \in Int, NEW n \in Int
    PROVE  (u + v) * (p * n + r * m) - (m + n) * (a * v + b * u)
            = n * ((p - b) * (u + v) - (a - b) * (m + v)) + m * ((r - b) * (u + v) - (a - b) * (v - n))
<1>1. (u + v) * (p * n + r * m) = p * n * u + p * n * v + r * m * u + r * m * v
    OBVIOUS
<1>2. (m + n) * (a * v + b * u) = a * v * m + a * v * n + b * u * m + b * u * n
    OBVIOUS
<1>3. n * ((p - b) * (u + v) - (a - b) * (m + v))
        = p * n * u + p * n * v - b * u * n - b * v * n - a * m * n - a * v * n + b * m * n + b * v * n
    OBVIOUS
<1>4. m * ((r - b) * (u + v) - (a - b) * (v - n))
        = r * m * u + r * m * v - b * u * m - b * v * m - a * v * m + a * m * n + b * v * m - b * m * n
    OBVIOUS
<1> QED
    BY <1>1, <1>2, <1>3, <1>4

(* A crossed side and another whose ends are not on its left, or the other way round. *)
LEMMA SideCompare ==
    ASSUME Valid, NEW k \in Image, NEW a \in Vertex, NEW b \in Vertex,
           NEW p \in Vertex, NEW r \in Vertex,
           a[2] > Centre(k[2]), b[2] <= Centre(k[2]),
           p[2] > Centre(k[2]), r[2] <= Centre(k[2])
    PROVE  /\ Offset(a, b, p) >= 0 /\ Offset(a, b, r) >= 0 /\ Side(a, b, k) => Side(p, r, k)
           /\ Offset(a, b, p) <= 0 /\ Offset(a, b, r) <= 0 /\ Side(p, r, k) => Side(a, b, k)
<1> DEFINE X == Centre(k[1])  Y == Centre(k[2])
           a1 == a[1] - X  b1 == b[1] - X  p1 == p[1] - X  r1 == r[1] - X
           u == a[2] - Y  v == Y - b[2]  m == p[2] - Y  n == Y - r[2]
<1>1. k[1] \in Nat /\ k[2] \in Nat
    BY DEF Image, Valid, Config
<1>2. X \in Int /\ Y \in Int
    BY <1>1, CentreInPixel
<1> HIDE DEF X, Y
<1>3. /\ a1 \in Int /\ b1 \in Int /\ p1 \in Int /\ r1 \in Int
      /\ u \in Int /\ v \in Int /\ m \in Int /\ n \in Int
      /\ u > 0 /\ v >= 0 /\ m > 0 /\ n >= 0
    BY <1>2 DEF Vertex, X, Y
<1>4. /\ Side(a, b, k) <=> a1 * v + b1 * u > 0
      /\ Side(p, r, k) <=> p1 * n + r1 * m > 0
    BY <1>2, CrossingForm DEF Side, X, Y
<1>5. /\ Offset(a, b, p) = (p1 - b1) * (u + v) - (a1 - b1) * (m + v)
      /\ Offset(a, b, r) = (r1 - b1) * (u + v) - (a1 - b1) * (v - n)
    <2>1. /\ p[1] - b[1] = p1 - b1 /\ a[1] - b[1] = a1 - b1 /\ a[2] - b[2] = u + v
          /\ p[2] - b[2] = m + v /\ r[1] - b[1] = r1 - b1 /\ r[2] - b[2] = v - n
        BY <1>2 DEF Vertex
    <2> HIDE DEF a1, b1, p1, r1, u, v, m, n
    <2> QED
        BY <2>1 DEF Offset
<1> HIDE DEF a1, b1, p1, r1, u, v, m, n
<1> DEFINE F == a1 * v + b1 * u  G == p1 * n + r1 * m
           d == (p1 - b1) * (u + v) - (a1 - b1) * (m + v)
           e == (r1 - b1) * (u + v) - (a1 - b1) * (v - n)
<1>6. (u + v) * G - (m + n) * F = n * d + m * e
    BY <1>3, OffsetIdentity
<1>7. F \in Int /\ G \in Int /\ d \in Int /\ e \in Int
    BY <1>3
<1> HIDE DEF F, G, d, e
<1>8. ASSUME d >= 0, e >= 0, F > 0 PROVE G > 0
    <2>1. n * d >= 0 /\ m * e >= 0 /\ (m + n) * F > 0
        BY <1>3, <1>7, <1>8
    <2>2. (u + v) * G > 0
        BY <1>3, <1>6, <1>7, <2>1
    <2>3. ASSUME G <= 0 PROVE (u + v) * G <= 0
        BY <1>3, <1>7, <2>3
    <2> QED
        BY <1>3, <1>7, <2>2, <2>3
<1>9. ASSUME d <= 0, e <= 0, G > 0 PROVE F > 0
    <2>1. n * d <= 0 /\ m * e <= 0 /\ (u + v) * G > 0
        BY <1>3, <1>7, <1>9
    <2>2. (m + n) * F > 0
        BY <1>3, <1>6, <1>7, <2>1
    <2>3. ASSUME F <= 0 PROVE (m + n) * F <= 0
        BY <1>3, <1>7, <2>3
    <2> QED
        BY <1>3, <1>7, <2>2, <2>3
<1> QED
    BY <1>4, <1>5, <1>8, <1>9 DEF F, G, d, e

(***************************************************************************)
(* An edge of a jigsaw between two corners, as the polygon of a piece has  *)
(* it: along a row of corners, or along a column, with the tab on one side *)
(* or the other.                                                           *)
(***************************************************************************)
AcrossBend(x, y, w, t) ==
    << <<x, y>>, <<x + 112 * w, y>>, <<x + 118 * w, y + 11 * t>>, <<x + 160 * w, y + 16 * t>>,
       <<x + 202 * w, y + 11 * t>>, <<x + 208 * w, y>>, <<x + 320 * w, y>> >>
DownBend(x, y, k, s) ==
    << <<x, y>>, <<x, y + 112 * k>>, <<x - 11 * s, y + 118 * k>>, <<x - 16 * s, y + 160 * k>>,
       <<x - 11 * s, y + 202 * k>>, <<x, y + 208 * k>>, <<x, y + 320 * k>> >>

OddBend(e, q) ==
    ~((Side(e[1], e[2], q) <=> Side(e[2], e[3], q))
      <=> ((Side(e[3], e[4], q) <=> Side(e[4], e[5], q))
           <=> (Side(e[5], e[6], q) <=> Side(e[6], e[7], q))))

\* A bend by t in a cell of sides 320 w and 320 k keeps to the middle.
Moderate(x, y, w, k, t) ==
    /\ x \in Int /\ y \in Int /\ w \in Nat /\ k \in Nat /\ t \in Int
    /\ t <= 10 * k /\ -(10 * k) <= t

(* The products that decide on which side of a bend a pixel lies. *)
LEMMA ModerateProducts ==
    ASSUME NEW x, NEW y, NEW w, NEW k, NEW t, Moderate(x, y, w, k, t)
    PROVE  /\ w * k \in Nat /\ w * t \in Int
           /\ w * t <= 10 * (w * k) /\ -(10 * (w * k)) <= w * t
<1>1. /\ 10 * k - t \in Nat /\ 10 * k + t \in Nat
    BY DEF Moderate
<1>2. w * (10 * k - t) >= 0 /\ w * (10 * k + t) >= 0
    BY <1>1 DEF Moderate
<1> QED
    BY <1>2 DEF Moderate

(* A bend along a row, downwards or upwards: a pixel outside of the quarter *)
(* it bends into sees the straight side.                                    *)
LEMMA BendBelow ==
    ASSUME Valid, NEW q \in Image, NEW x, NEW y, NEW w, NEW k, NEW t,
           Moderate(x, y, w, k, t), t >= 0, OddBend(AcrossBend(x, y, w, t), q)
    PROVE  OddTriangle(<<x, y>>, <<x + 320 * w, y>>, <<x + 160 * w, y + 160 * k>>, q)
<1> DEFINE A == <<x, y>>  B == <<x + 320 * w, y>>  M == <<x + 160 * w, y + 160 * k>>
           a == <<x + 112 * w, y>>  b == <<x + 118 * w, y + 11 * t>>
           c == <<x + 160 * w, y + 16 * t>>
           d == <<x + 202 * w, y + 11 * t>>  e == <<x + 208 * w, y>>
           Y == Centre(q[2])
<1>1. /\ x \in Int /\ y \in Int /\ w \in Nat /\ k \in Nat /\ t \in Int /\ t <= 10 * k
    BY DEF Moderate
<1>2. /\ A \in Vertex /\ B \in Vertex /\ M \in Vertex /\ a \in Vertex /\ b \in Vertex
      /\ c \in Vertex /\ d \in Vertex /\ e \in Vertex
    BY <1>1 DEF Vertex
<1>3. Y \in Nat
    BY CentreInImage
<1>4. /\ OddBend(AcrossBend(x, y, w, t), q) <=>
           ~((Side(A, a, q) <=> Side(a, b, q))
             <=> ((Side(b, c, q) <=> Side(c, d, q)) <=> (Side(d, e, q) <=> Side(e, B, q))))
    BY DEF OddBend, AcrossBend
<1>5. /\ w * k \in Nat /\ w * t \in Int /\ w * t <= 10 * (w * k) /\ w * t >= 0
    BY <1>1, ModerateProducts
<1>6. /\ Offset(M, A, a) >= 0 /\ Offset(M, A, b) >= 0 /\ Offset(M, A, c) >= 0
      /\ Offset(M, B, c) <= 0 /\ Offset(M, B, d) <= 0 /\ Offset(M, B, e) <= 0
    BY <1>1, <1>5 DEF Offset
<1>7. ~Side(A, a, q) /\ ~Side(e, B, q) /\ ~Side(A, B, q)
    BY <1>2, Level
<1>8. /\ Side(a, b, q) => (a[2] > Y <=> b[2] <= Y)
      /\ Side(b, c, q) => (b[2] > Y <=> c[2] <= Y)
      /\ Side(c, d, q) => (c[2] > Y <=> d[2] <= Y)
      /\ Side(d, e, q) => (d[2] > Y <=> e[2] <= Y)
    BY <1>2, SideOf
<1>9. /\ A[2] = y /\ B[2] = y /\ a[2] = y /\ b[2] = y + 11 * t /\ c[2] = y + 16 * t
      /\ d[2] = y + 11 * t /\ e[2] = y /\ M[2] = y + 160 * k
      /\ b[1] <= d[1] /\ a[1] <= e[1] /\ c[1] <= c[1]
    BY <1>1
<1>10. /\ Side(M, A, q) <=> Side(A, M, q)
       /\ Side(M, B, q) <=> Side(B, M, q)
       /\ Side(a, b, q) <=> Side(b, a, q)
       /\ Side(b, c, q) <=> Side(c, b, q)
    BY <1>2, SideOf
<1> HIDE DEF A, B, M, a, b, c, d, e, Y
<1>11. y <= Y /\ Y < y + 16 * t
    BY <1>1, <1>3, <1>4, <1>7, <1>8, <1>9
<1>12. M[2] > Y /\ A[2] <= Y /\ B[2] <= Y
    BY <1>1, <1>3, <1>9, <1>11
<1>13. ~Side(M, A, q) /\ Side(M, B, q)
    <2>1. CASE y + 11 * t <= Y
        <3>1. ~Side(a, b, q) /\ ~Side(d, e, q)
            BY <1>1, <1>3, <1>8, <1>9, <1>11, <2>1
        <3>2. c[2] > Y /\ b[2] <= Y /\ d[2] <= Y
            BY <1>9, <1>11, <2>1
        <3>3. Side(c, b, q) => Side(c, d, q)
            BY <1>2, <1>9, <3>2, SideMoves DEF Y
        <3>4. ~Side(c, b, q) /\ Side(c, d, q)
            BY <1>4, <1>7, <1>10, <3>1, <3>3
        <3>5. Side(M, A, q) => Side(c, b, q)
            BY <1>2, <1>6, <1>12, <3>2, SideCompare DEF Y
        <3>6. Side(c, d, q) => Side(M, B, q)
            BY <1>2, <1>6, <1>12, <3>2, SideCompare DEF Y
        <3> QED
            BY <3>4, <3>5, <3>6
    <2>2. CASE ~(y + 11 * t <= Y)
        <3>1. ~Side(b, c, q) /\ ~Side(c, d, q)
            BY <1>1, <1>3, <1>8, <1>9, <1>11, <2>2
        <3>2. b[2] > Y /\ a[2] <= Y /\ d[2] > Y /\ e[2] <= Y
            BY <1>1, <1>3, <1>9, <1>11, <2>2
        <3>3. Side(b, a, q) => Side(d, e, q)
            BY <1>2, <1>9, <3>2, SideMoves DEF Y
        <3>4. ~Side(b, a, q) /\ Side(d, e, q)
            BY <1>4, <1>7, <1>10, <3>1, <3>3
        <3>5. Side(M, A, q) => Side(b, a, q)
            BY <1>2, <1>6, <1>12, <3>2, SideCompare DEF Y
        <3>6. Side(d, e, q) => Side(M, B, q)
            BY <1>2, <1>6, <1>12, <3>2, SideCompare DEF Y
        <3> QED
            BY <3>4, <3>5, <3>6
    <2> QED
        BY <2>1, <2>2
<1>14. OddTriangle(A, B, M, q)
    BY <1>7, <1>10, <1>13 DEF OddTriangle
<1> QED
    BY <1>14 DEF A, B, M

LEMMA BendAbove ==
    ASSUME Valid, NEW q \in Image, NEW x, NEW y, NEW w, NEW k, NEW t,
           Moderate(x, y, w, k, t), t <= 0, OddBend(AcrossBend(x, y, w, t), q)
    PROVE  OddTriangle(<<x + 320 * w, y>>, <<x, y>>, <<x + 160 * w, y - 160 * k>>, q)
<1> DEFINE A == <<x, y>>  B == <<x + 320 * w, y>>  M == <<x + 160 * w, y - 160 * k>>
           a == <<x + 112 * w, y>>  b == <<x + 118 * w, y + 11 * t>>
           c == <<x + 160 * w, y + 16 * t>>
           d == <<x + 202 * w, y + 11 * t>>  e == <<x + 208 * w, y>>
           Y == Centre(q[2])
<1>1. /\ x \in Int /\ y \in Int /\ w \in Nat /\ k \in Nat /\ t \in Int /\ -(10 * k) <= t
    BY DEF Moderate
<1>2. /\ A \in Vertex /\ B \in Vertex /\ M \in Vertex /\ a \in Vertex /\ b \in Vertex
      /\ c \in Vertex /\ d \in Vertex /\ e \in Vertex
    BY <1>1 DEF Vertex
<1>3. Y \in Nat
    BY CentreInImage
<1>4. /\ OddBend(AcrossBend(x, y, w, t), q) <=>
           ~((Side(A, a, q) <=> Side(a, b, q))
             <=> ((Side(b, c, q) <=> Side(c, d, q)) <=> (Side(d, e, q) <=> Side(e, B, q))))
    BY DEF OddBend, AcrossBend
<1>5. /\ w * k \in Nat /\ w * t \in Int /\ -(10 * (w * k)) <= w * t /\ w * t <= 0
    BY <1>1, ModerateProducts
<1>6. /\ Offset(A, M, a) >= 0 /\ Offset(A, M, b) >= 0 /\ Offset(A, M, c) >= 0
      /\ Offset(B, M, c) <= 0 /\ Offset(B, M, d) <= 0 /\ Offset(B, M, e) <= 0
    BY <1>1, <1>5 DEF Offset
<1>7. ~Side(A, a, q) /\ ~Side(e, B, q) /\ ~Side(B, A, q)
    BY <1>2, Level
<1>8. /\ Side(a, b, q) => (a[2] > Y <=> b[2] <= Y)
      /\ Side(b, c, q) => (b[2] > Y <=> c[2] <= Y)
      /\ Side(c, d, q) => (c[2] > Y <=> d[2] <= Y)
      /\ Side(d, e, q) => (d[2] > Y <=> e[2] <= Y)
    BY <1>2, SideOf
<1>9. /\ A[2] = y /\ B[2] = y /\ a[2] = y /\ b[2] = y + 11 * t /\ c[2] = y + 16 * t
      /\ d[2] = y + 11 * t /\ e[2] = y /\ M[2] = y - 160 * k
      /\ b[1] <= d[1] /\ a[1] <= e[1] /\ c[1] <= c[1]
    BY <1>1
<1>10. /\ Side(M, B, q) <=> Side(B, M, q)
       /\ Side(c, d, q) <=> Side(d, c, q)
       /\ Side(d, e, q) <=> Side(e, d, q)
    BY <1>2, SideOf
<1> HIDE DEF A, B, M, a, b, c, d, e, Y
<1>11. y + 16 * t <= Y /\ Y < y
    BY <1>1, <1>3, <1>4, <1>7, <1>8, <1>9
<1>12. M[2] <= Y /\ A[2] > Y /\ B[2] > Y
    BY <1>1, <1>3, <1>9, <1>11
<1>13. ~Side(A, M, q) /\ Side(B, M, q)
    <2>1. CASE Y < y + 11 * t
        <3>1. ~Side(a, b, q) /\ ~Side(d, e, q)
            BY <1>1, <1>3, <1>8, <1>9, <1>11, <2>1
        <3>2. c[2] <= Y /\ b[2] > Y /\ d[2] > Y
            BY <1>1, <1>3, <1>9, <1>11, <2>1
        <3>3. Side(b, c, q) => Side(d, c, q)
            BY <1>2, <1>9, <3>2, SideMoves DEF Y
        <3>4. ~Side(b, c, q) /\ Side(d, c, q)
            BY <1>4, <1>7, <1>10, <3>1, <3>3
        <3>5. Side(A, M, q) => Side(b, c, q)
            BY <1>2, <1>6, <1>12, <3>2, SideCompare DEF Y
        <3>6. Side(d, c, q) => Side(B, M, q)
            BY <1>2, <1>6, <1>12, <3>2, SideCompare DEF Y
        <3> QED
            BY <3>4, <3>5, <3>6
    <2>2. CASE ~(Y < y + 11 * t)
        <3>1. ~Side(b, c, q) /\ ~Side(c, d, q)
            BY <1>1, <1>3, <1>8, <1>9, <1>11, <2>2
        <3>2. b[2] <= Y /\ a[2] > Y /\ d[2] <= Y /\ e[2] > Y
            BY <1>1, <1>3, <1>9, <1>11, <2>2
        <3>3. Side(a, b, q) => Side(e, d, q)
            BY <1>2, <1>9, <3>2, SideMoves DEF Y
        <3>4. ~Side(a, b, q) /\ Side(e, d, q)
            BY <1>4, <1>7, <1>10, <3>1, <3>3
        <3>5. Side(A, M, q) => Side(a, b, q)
            BY <1>2, <1>6, <1>12, <3>2, SideCompare DEF Y
        <3>6. Side(e, d, q) => Side(B, M, q)
            BY <1>2, <1>6, <1>12, <3>2, SideCompare DEF Y
        <3> QED
            BY <3>4, <3>5, <3>6
    <2> QED
        BY <2>1, <2>2
<1>14. OddTriangle(B, A, M, q)
    BY <1>7, <1>10, <1>13 DEF OddTriangle
<1> QED
    BY <1>14 DEF A, B, M

(* A bend along a column, to the right and to the left. *)
LEMMA BendRight ==
    ASSUME Valid, NEW q \in Image, NEW x, NEW y, NEW w, NEW k, NEW s,
           Moderate(y, x, k, w, s), s <= 0,
           ~(OddBend(DownBend(x, y, k, s), q) <=> Side(<<x, y>>, <<x, y + 320 * k>>, q))
    PROVE  OddTriangle(<<x, y + 320 * k>>, <<x, y>>, <<x + 160 * w, y + 160 * k>>, q)
<1> DEFINE A == <<x, y>>  D == <<x, y + 320 * k>>  M == <<x + 160 * w, y + 160 * k>>
           a == <<x, y + 112 * k>>  b == <<x - 11 * s, y + 118 * k>>
           c == <<x - 16 * s, y + 160 * k>>
           d == <<x - 11 * s, y + 202 * k>>  e == <<x, y + 208 * k>>
           X == Centre(q[1])  Y == Centre(q[2])
<1>1. /\ x \in Int /\ y \in Int /\ w \in Nat /\ k \in Nat /\ s \in Int
      /\ s <= 10 * w /\ -(10 * w) <= s
    BY DEF Moderate
<1>2. /\ A \in Vertex /\ D \in Vertex /\ M \in Vertex /\ a \in Vertex /\ b \in Vertex
      /\ c \in Vertex /\ d \in Vertex /\ e \in Vertex
    BY <1>1 DEF Vertex
<1>3. X \in Nat /\ Y \in Nat
    BY CentreInImage
<1>4. /\ OddBend(DownBend(x, y, k, s), q) <=>
           ~((Side(A, a, q) <=> Side(a, b, q))
             <=> ((Side(b, c, q) <=> Side(c, d, q)) <=> (Side(d, e, q) <=> Side(e, D, q))))
    BY DEF OddBend, DownBend
<1>5. /\ k * w \in Nat /\ k * s \in Int /\ k * s <= 10 * (k * w) /\ -(10 * (k * w)) <= k * s
    BY <1>1, ModerateProducts
<1>6. /\ Offset(M, A, a) <= 0 /\ Offset(M, A, b) <= 0 /\ Offset(M, A, c) <= 0
      /\ Offset(D, M, c) <= 0 /\ Offset(D, M, d) <= 0 /\ Offset(D, M, e) <= 0
    BY <1>1, <1>5 DEF Offset
<1>7. /\ A[1] = x /\ D[1] = x /\ a[1] = x /\ b[1] = x - 11 * s /\ c[1] = x - 16 * s
      /\ d[1] = x - 11 * s /\ e[1] = x
      /\ A[2] = y /\ D[2] = y + 320 * k /\ M[2] = y + 160 * k
      /\ a[2] = y + 112 * k /\ b[2] = y + 118 * k /\ c[2] = y + 160 * k
      /\ d[2] = y + 202 * k /\ e[2] = y + 208 * k
    BY <1>1
<1>8. /\ Side(A, a, q) <=> Side(a, A, q)
      /\ Side(a, b, q) <=> Side(b, a, q)
      /\ Side(b, c, q) <=> Side(c, b, q)
      /\ Side(c, d, q) <=> Side(d, c, q)
      /\ Side(d, e, q) <=> Side(e, d, q)
      /\ Side(e, D, q) <=> Side(D, e, q)
      /\ Side(A, D, q) <=> Side(D, A, q)
      /\ Side(A, M, q) <=> Side(M, A, q)
      /\ Side(D, M, q) <=> Side(M, D, q)
    BY <1>2, SideOf
<1> HIDE DEF A, D, M, a, b, c, d, e, X, Y
<1>9. \A u, v \in {A, a, b, c, d, e, D, M} : Side(u, v, q) => (u[2] > Y <=> v[2] <= Y)
    BY <1>2, SideOf DEF Y
<1>10. y <= Y /\ Y < y + 320 * k
    <2>1. ASSUME ~(y <= Y /\ Y < y + 320 * k)
          PROVE  /\ ~Side(A, a, q) /\ ~Side(a, b, q) /\ ~Side(b, c, q) /\ ~Side(c, d, q)
                 /\ ~Side(d, e, q) /\ ~Side(e, D, q) /\ ~Side(A, D, q)
        BY <1>1, <1>3, <1>7, <1>9, <2>1
    <2> QED
        BY <1>4, <2>1 DEF A, D
<1>11. D[2] > Y /\ A[2] <= Y
    BY <1>7, <1>10
<1>12. Side(A, D, q) <=> X < x
    <2>1. X < x => Side(D, A, q)
        BY <1>1, <1>2, <1>3, <1>7, <1>11, SideOf DEF X, Y
    <2>2. x <= X => ~Side(D, A, q)
        BY <1>2, <1>7, SideOf DEF X
    <2> QED
        BY <1>1, <1>3, <1>8, <2>1, <2>2
\* Of the six sides only the one at the height of the centre counts.
<1>13. ASSUME NEW u \in Vertex, NEW v \in Vertex, u[1] \in {x, x - 11 * s, x - 16 * s},
              v[1] \in {x, x - 11 * s, x - 16 * s}, u[2] > Y, v[2] <= Y,
              OddBend(DownBend(x, y, k, s), q) <=> Side(u, v, q)
       PROVE  x <= X /\ Side(u, v, q)
    <2>1. u[1] >= x /\ v[1] >= x
        BY <1>1, <1>13
    <2>2. X < x => Side(u, v, q)
        BY <1>1, <1>3, <1>13, <2>1, SideOf DEF X, Y, Vertex
    <2> QED
        BY <1>1, <1>3, <1>12, <1>13, <2>2 DEF A, D
<1>14. ~(Y < y + 112 * k)
    <2> SUFFICES ASSUME Y < y + 112 * k PROVE FALSE
        OBVIOUS
    <2>1. /\ ~Side(a, b, q) /\ ~Side(b, c, q) /\ ~Side(c, d, q)
          /\ ~Side(d, e, q) /\ ~Side(e, D, q)
        BY <1>1, <1>3, <1>7, <1>9
    <2>2. OddBend(DownBend(x, y, k, s), q) <=> Side(a, A, q)
        BY <1>4, <1>8, <2>1
    <2>3. x <= X /\ Side(a, A, q)
        BY <1>2, <1>7, <1>11, <1>13, <2>2
    <2> QED
        BY <1>1, <1>2, <1>3, <1>7, <1>11, <2>3, SideOf DEF X, Y
<1>15. ~(y + 208 * k <= Y)
    <2> SUFFICES ASSUME y + 208 * k <= Y PROVE FALSE
        OBVIOUS
    <2>1. /\ ~Side(A, a, q) /\ ~Side(a, b, q) /\ ~Side(b, c, q) /\ ~Side(c, d, q)
          /\ ~Side(d, e, q)
        BY <1>1, <1>3, <1>7, <1>9
    <2>2. OddBend(DownBend(x, y, k, s), q) <=> Side(D, e, q)
        BY <1>4, <1>8, <2>1
    <2>3. x <= X /\ Side(D, e, q)
        BY <1>2, <1>7, <1>11, <1>13, <2>2
    <2> QED
        BY <1>1, <1>2, <1>3, <1>7, <1>11, <2>3, SideOf DEF X, Y
<1>16. ASSUME Y < y + 160 * k PROVE OddTriangle(D, A, M, q)
    <2>1. ~Side(c, d, q) /\ ~Side(d, e, q) /\ ~Side(e, D, q) /\ ~Side(A, a, q) /\ ~Side(M, D, q)
        BY <1>1, <1>3, <1>7, <1>9, <1>10, <1>14, <1>16
    <2>2. M[2] > Y /\ c[2] > Y /\ a[2] <= Y
        BY <1>1, <1>3, <1>7, <1>14, <1>16
    <2>3. ASSUME Y < y + 118 * k PROVE x <= X /\ Side(M, A, q)
        <3>1. ~Side(b, c, q) /\ b[2] > Y
            BY <1>1, <1>3, <1>7, <1>9, <2>3
        <3>2. OddBend(DownBend(x, y, k, s), q) <=> Side(b, a, q)
            BY <1>4, <1>8, <2>1, <3>1
        <3>3. x <= X /\ Side(b, a, q)
            BY <1>2, <1>7, <1>13, <2>2, <3>1, <3>2
        <3>4. Side(M, A, q)
            BY <1>2, <1>6, <1>11, <2>2, <3>1, <3>3, SideCompare DEF Y
        <3> QED
            BY <2>1, <3>3, <3>4
    <2>4. ASSUME ~(Y < y + 118 * k) PROVE x <= X /\ Side(M, A, q)
        <3>1. ~Side(a, b, q) /\ b[2] <= Y
            BY <1>1, <1>3, <1>7, <1>9, <2>4
        <3>2. OddBend(DownBend(x, y, k, s), q) <=> Side(c, b, q)
            BY <1>4, <1>8, <2>1, <3>1
        <3>3. x <= X /\ Side(c, b, q)
            BY <1>2, <1>7, <1>13, <2>2, <3>1, <3>2
        <3>4. Side(M, A, q)
            BY <1>2, <1>6, <1>11, <2>2, <3>1, <3>3, SideCompare DEF Y
        <3> QED
            BY <2>1, <3>3, <3>4
    <2>5. x <= X /\ Side(M, A, q)
        BY <2>3, <2>4
    <2> QED
        BY <1>1, <1>3, <1>8, <1>12, <2>1, <2>5 DEF OddTriangle
<1>17. ASSUME ~(Y < y + 160 * k) PROVE OddTriangle(D, A, M, q)
    <2>1. ~Side(A, a, q) /\ ~Side(a, b, q) /\ ~Side(b, c, q) /\ ~Side(e, D, q) /\ ~Side(M, A, q)
        BY <1>1, <1>3, <1>7, <1>9, <1>10, <1>15, <1>17
    <2>2. M[2] <= Y /\ c[2] <= Y /\ e[2] > Y
        BY <1>1, <1>3, <1>7, <1>15, <1>17
    <2>3. ASSUME Y < y + 202 * k PROVE x <= X /\ Side(D, M, q)
        <3>1. ~Side(d, e, q) /\ d[2] > Y
            BY <1>1, <1>3, <1>7, <1>9, <2>3
        <3>2. OddBend(DownBend(x, y, k, s), q) <=> Side(d, c, q)
            BY <1>4, <1>8, <2>1, <3>1
        <3>3. x <= X /\ Side(d, c, q)
            BY <1>2, <1>7, <1>13, <2>2, <3>1, <3>2
        <3>4. Side(D, M, q)
            BY <1>2, <1>6, <1>11, <2>2, <3>1, <3>3, SideCompare DEF Y
        <3> QED
            BY <2>1, <3>3, <3>4
    <2>4. ASSUME ~(Y < y + 202 * k) PROVE x <= X /\ Side(D, M, q)
        <3>1. ~Side(c, d, q) /\ d[2] <= Y
            BY <1>1, <1>3, <1>7, <1>9, <2>4
        <3>2. OddBend(DownBend(x, y, k, s), q) <=> Side(e, d, q)
            BY <1>4, <1>8, <2>1, <3>1
        <3>3. x <= X /\ Side(e, d, q)
            BY <1>2, <1>7, <1>13, <2>2, <3>1, <3>2
        <3>4. Side(D, M, q)
            BY <1>2, <1>6, <1>11, <2>2, <3>1, <3>3, SideCompare DEF Y
        <3> QED
            BY <2>1, <3>3, <3>4
    <2>5. x <= X /\ Side(D, M, q)
        BY <2>3, <2>4
    <2> QED
        BY <1>1, <1>3, <1>8, <1>12, <2>1, <2>5 DEF OddTriangle
<1>18. OddTriangle(D, A, M, q)
    BY <1>16, <1>17
<1> QED
    BY <1>18 DEF A, D, M

LEMMA BendLeft ==
    ASSUME Valid, NEW q \in Image, NEW x, NEW y, NEW w, NEW k, NEW s,
           Moderate(y, x, k, w, s), s >= 0,
           ~(OddBend(DownBend(x, y, k, s), q) <=> Side(<<x, y>>, <<x, y + 320 * k>>, q))
    PROVE  OddTriangle(<<x, y>>, <<x, y + 320 * k>>, <<x - 160 * w, y + 160 * k>>, q)
<1> DEFINE A == <<x, y>>  D == <<x, y + 320 * k>>  M == <<x - 160 * w, y + 160 * k>>
           a == <<x, y + 112 * k>>  b == <<x - 11 * s, y + 118 * k>>
           c == <<x - 16 * s, y + 160 * k>>
           d == <<x - 11 * s, y + 202 * k>>  e == <<x, y + 208 * k>>
           X == Centre(q[1])  Y == Centre(q[2])
<1>1. /\ x \in Int /\ y \in Int /\ w \in Nat /\ k \in Nat /\ s \in Int
      /\ s <= 10 * w /\ -(10 * w) <= s
    BY DEF Moderate
<1>2. /\ A \in Vertex /\ D \in Vertex /\ M \in Vertex /\ a \in Vertex /\ b \in Vertex
      /\ c \in Vertex /\ d \in Vertex /\ e \in Vertex
    BY <1>1 DEF Vertex
<1>3. X \in Nat /\ Y \in Nat
    BY CentreInImage
<1>4. /\ OddBend(DownBend(x, y, k, s), q) <=>
           ~((Side(A, a, q) <=> Side(a, b, q))
             <=> ((Side(b, c, q) <=> Side(c, d, q)) <=> (Side(d, e, q) <=> Side(e, D, q))))
    BY DEF OddBend, DownBend
<1>5. /\ k * w \in Nat /\ k * s \in Int /\ k * s <= 10 * (k * w) /\ -(10 * (k * w)) <= k * s
    BY <1>1, ModerateProducts
<1>6. /\ Offset(M, A, a) >= 0 /\ Offset(M, A, b) >= 0 /\ Offset(M, A, c) >= 0
      /\ Offset(D, M, c) >= 0 /\ Offset(D, M, d) >= 0 /\ Offset(D, M, e) >= 0
    BY <1>1, <1>5 DEF Offset
<1>7. /\ A[1] = x /\ D[1] = x /\ a[1] = x /\ b[1] = x - 11 * s /\ c[1] = x - 16 * s
      /\ d[1] = x - 11 * s /\ e[1] = x
      /\ A[2] = y /\ D[2] = y + 320 * k /\ M[2] = y + 160 * k
      /\ a[2] = y + 112 * k /\ b[2] = y + 118 * k /\ c[2] = y + 160 * k
      /\ d[2] = y + 202 * k /\ e[2] = y + 208 * k
    BY <1>1
<1>8. /\ Side(A, a, q) <=> Side(a, A, q)
      /\ Side(a, b, q) <=> Side(b, a, q)
      /\ Side(b, c, q) <=> Side(c, b, q)
      /\ Side(c, d, q) <=> Side(d, c, q)
      /\ Side(d, e, q) <=> Side(e, d, q)
      /\ Side(e, D, q) <=> Side(D, e, q)
      /\ Side(A, D, q) <=> Side(D, A, q)
      /\ Side(A, M, q) <=> Side(M, A, q)
      /\ Side(D, M, q) <=> Side(M, D, q)
    BY <1>2, SideOf
<1> HIDE DEF A, D, M, a, b, c, d, e, X, Y
<1>9. \A u, v \in {A, a, b, c, d, e, D, M} : Side(u, v, q) => (u[2] > Y <=> v[2] <= Y)
    BY <1>2, SideOf DEF Y
<1>10. y <= Y /\ Y < y + 320 * k
    <2>1. ASSUME ~(y <= Y /\ Y < y + 320 * k)
          PROVE  /\ ~Side(A, a, q) /\ ~Side(a, b, q) /\ ~Side(b, c, q) /\ ~Side(c, d, q)
                 /\ ~Side(d, e, q) /\ ~Side(e, D, q) /\ ~Side(A, D, q)
        BY <1>1, <1>3, <1>7, <1>9, <2>1
    <2> QED
        BY <1>4, <2>1 DEF A, D
<1>11. D[2] > Y /\ A[2] <= Y
    BY <1>7, <1>10
<1>12. Side(A, D, q) <=> X < x
    <2>1. X < x => Side(D, A, q)
        BY <1>1, <1>2, <1>3, <1>7, <1>11, SideOf DEF X, Y
    <2>2. x <= X => ~Side(D, A, q)
        BY <1>2, <1>7, SideOf DEF X
    <2> QED
        BY <1>1, <1>3, <1>8, <2>1, <2>2
\* Of the six sides only the one at the height of the centre counts.
<1>13. ASSUME NEW u \in Vertex, NEW v \in Vertex, u[1] \in {x, x - 11 * s, x - 16 * s},
              v[1] \in {x, x - 11 * s, x - 16 * s}, u[2] > Y, v[2] <= Y,
              OddBend(DownBend(x, y, k, s), q) <=> Side(u, v, q)
       PROVE  X < x /\ ~Side(u, v, q)
    <2>1. u[1] <= x /\ v[1] <= x
        BY <1>1, <1>13
    <2>2. x <= X => ~Side(u, v, q)
        BY <1>1, <1>3, <1>13, <2>1, SideOf DEF X, Y, Vertex
    <2> QED
        BY <1>1, <1>3, <1>12, <1>13, <2>2 DEF A, D
<1>14. ~(Y < y + 112 * k)
    <2> SUFFICES ASSUME Y < y + 112 * k PROVE FALSE
        OBVIOUS
    <2>1. /\ ~Side(a, b, q) /\ ~Side(b, c, q) /\ ~Side(c, d, q)
          /\ ~Side(d, e, q) /\ ~Side(e, D, q)
        BY <1>1, <1>3, <1>7, <1>9
    <2>2. OddBend(DownBend(x, y, k, s), q) <=> Side(a, A, q)
        BY <1>4, <1>8, <2>1
    <2>3. X < x /\ ~Side(a, A, q)
        BY <1>2, <1>7, <1>11, <1>13, <2>2
    <2> QED
        BY <1>1, <1>2, <1>3, <1>7, <1>11, <2>3, SideOf DEF X, Y
<1>15. ~(y + 208 * k <= Y)
    <2> SUFFICES ASSUME y + 208 * k <= Y PROVE FALSE
        OBVIOUS
    <2>1. /\ ~Side(A, a, q) /\ ~Side(a, b, q) /\ ~Side(b, c, q) /\ ~Side(c, d, q)
          /\ ~Side(d, e, q)
        BY <1>1, <1>3, <1>7, <1>9
    <2>2. OddBend(DownBend(x, y, k, s), q) <=> Side(D, e, q)
        BY <1>4, <1>8, <2>1
    <2>3. X < x /\ ~Side(D, e, q)
        BY <1>2, <1>7, <1>11, <1>13, <2>2
    <2> QED
        BY <1>1, <1>2, <1>3, <1>7, <1>11, <2>3, SideOf DEF X, Y
<1>16. ASSUME Y < y + 160 * k PROVE OddTriangle(A, D, M, q)
    <2>1. ~Side(c, d, q) /\ ~Side(d, e, q) /\ ~Side(e, D, q) /\ ~Side(A, a, q) /\ ~Side(M, D, q)
        BY <1>1, <1>3, <1>7, <1>9, <1>10, <1>14, <1>16
    <2>2. M[2] > Y /\ c[2] > Y /\ a[2] <= Y
        BY <1>1, <1>3, <1>7, <1>14, <1>16
    <2>3. ASSUME Y < y + 118 * k PROVE X < x /\ ~Side(M, A, q)
        <3>1. ~Side(b, c, q) /\ b[2] > Y
            BY <1>1, <1>3, <1>7, <1>9, <2>3
        <3>2. OddBend(DownBend(x, y, k, s), q) <=> Side(b, a, q)
            BY <1>4, <1>8, <2>1, <3>1
        <3>3. X < x /\ ~Side(b, a, q)
            BY <1>2, <1>7, <1>13, <2>2, <3>1, <3>2
        <3>4. ~Side(M, A, q)
            BY <1>2, <1>6, <1>11, <2>2, <3>1, <3>3, SideCompare DEF Y
        <3> QED
            BY <2>1, <3>3, <3>4
    <2>4. ASSUME ~(Y < y + 118 * k) PROVE X < x /\ ~Side(M, A, q)
        <3>1. ~Side(a, b, q) /\ b[2] <= Y
            BY <1>1, <1>3, <1>7, <1>9, <2>4
        <3>2. OddBend(DownBend(x, y, k, s), q) <=> Side(c, b, q)
            BY <1>4, <1>8, <2>1, <3>1
        <3>3. X < x /\ ~Side(c, b, q)
            BY <1>2, <1>7, <1>13, <2>2, <3>1, <3>2
        <3>4. ~Side(M, A, q)
            BY <1>2, <1>6, <1>11, <2>2, <3>1, <3>3, SideCompare DEF Y
        <3> QED
            BY <2>1, <3>3, <3>4
    <2>5. X < x /\ ~Side(M, A, q)
        BY <2>3, <2>4
    <2> QED
        BY <1>1, <1>3, <1>8, <1>12, <2>1, <2>5 DEF OddTriangle
<1>17. ASSUME ~(Y < y + 160 * k) PROVE OddTriangle(A, D, M, q)
    <2>1. ~Side(A, a, q) /\ ~Side(a, b, q) /\ ~Side(b, c, q) /\ ~Side(e, D, q) /\ ~Side(M, A, q)
        BY <1>1, <1>3, <1>7, <1>9, <1>10, <1>15, <1>17
    <2>2. M[2] <= Y /\ c[2] <= Y /\ e[2] > Y
        BY <1>1, <1>3, <1>7, <1>15, <1>17
    <2>3. ASSUME Y < y + 202 * k PROVE X < x /\ ~Side(D, M, q)
        <3>1. ~Side(d, e, q) /\ d[2] > Y
            BY <1>1, <1>3, <1>7, <1>9, <2>3
        <3>2. OddBend(DownBend(x, y, k, s), q) <=> Side(d, c, q)
            BY <1>4, <1>8, <2>1, <3>1
        <3>3. X < x /\ ~Side(d, c, q)
            BY <1>2, <1>7, <1>13, <2>2, <3>1, <3>2
        <3>4. ~Side(D, M, q)
            BY <1>2, <1>6, <1>11, <2>2, <3>1, <3>3, SideCompare DEF Y
        <3> QED
            BY <2>1, <3>3, <3>4
    <2>4. ASSUME ~(Y < y + 202 * k) PROVE X < x /\ ~Side(D, M, q)
        <3>1. ~Side(c, d, q) /\ d[2] <= Y
            BY <1>1, <1>3, <1>7, <1>9, <2>4
        <3>2. OddBend(DownBend(x, y, k, s), q) <=> Side(e, d, q)
            BY <1>4, <1>8, <2>1, <3>1
        <3>3. X < x /\ ~Side(e, d, q)
            BY <1>2, <1>7, <1>13, <2>2, <3>1, <3>2
        <3>4. ~Side(D, M, q)
            BY <1>2, <1>6, <1>11, <2>2, <3>1, <3>3, SideCompare DEF Y
        <3> QED
            BY <2>1, <3>3, <3>4
    <2>5. X < x /\ ~Side(D, M, q)
        BY <2>3, <2>4
    <2> QED
        BY <1>1, <1>3, <1>8, <1>12, <2>1, <2>5 DEF OddTriangle
<1>18. OddTriangle(A, D, M, q)
    BY <1>16, <1>17
<1> QED
    BY <1>18 DEF A, D, M

(***************************************************************************)
(* The edges of a jigsaw are such bends, to the one side or to the other.  *)
(***************************************************************************)
\* The corners of the polygon along an edge, with its end.
BendOf(e) == << e[1], e[2], Curve(e[2], e[3], e[4], e[5])[1], e[5],
                Curve(e[5], e[6], e[7], e[8])[1], e[8], e[9] >>

\* An eighth of the lengths W and H.
W1 == size[1] * Rows
H1 == size[2] * Cols

LEMMA Eighths ==
    ASSUME Valid
    PROVE  /\ W1 \in Nat /\ H1 \in Nat /\ W = 8 * W1 /\ H = 8 * H1
           /\ HalfTab \in Nat
<1>1. /\ Cols \in Nat /\ Rows \in Nat /\ size[1] \in Nat /\ size[2] \in Nat
    BY Sizes
<1>2. \A a, b \in Nat : 8 * a * b = 8 * (a * b) /\ a * b \in Nat
    OBVIOUS
<1>3. HalfTab \in Nat
    BY SlicerAssumption
<1>4. W = 8 * W1 /\ W1 \in Nat
    BY <1>1, <1>2 DEF W, W1
<1>5. H = 8 * H1 /\ H1 \in Nat
    BY <1>1, <1>2 DEF H, H1
<1> QED
    BY <1>3, <1>4, <1>5

LEMMA EighthOf == ASSUME NEW n \in Int PROVE (8 * n) \div 8 = n
OBVIOUS

(* An edge along a row, and one along a column, in the lengths of a cell. *)
LEMMA AcrossEdge ==
    ASSUME Valid, NEW i \in Int, NEW j \in Int, NEW dir \in Int
    PROVE  BendOf(PuzzleEdge(<<i, j>>, <<i + 1, j>>, dir))
            = AcrossBend(40 * i * W, 40 * j * H, W1, HalfTab * W1 * dir)
<1> DEFINE x == 40 * i * W   y == 40 * j * H   t == HalfTab * W1 * dir
           e == PuzzleEdge(<<i, j>>, <<i + 1, j>>, dir)
<1>1. /\ W1 \in Nat /\ H1 \in Nat /\ W = 8 * W1 /\ H = 8 * H1 /\ HalfTab \in Nat
    BY Eighths
<1>2. x \in Int /\ y \in Int /\ t \in Int
    BY <1>1
<1>3. ASSUME NEW m \in 1 .. 9
      PROVE  /\ e[m] = <<x + W * Along[m] - 0 * Across[m] * dir, y + 0 * Along[m] + W * Across[m] * dir>>
             /\ Along[m] \in Int /\ Across[m] \in Int
    <2>1. (i + 1 - i) * W = W /\ (j - j) * H = 0
        BY <1>1
    <2>2. Along[m] \in Int /\ Across[m] \in Int
        BY <1>1 DEF Along, Across
    <2> QED
        BY <2>1, <2>2 DEF PuzzleEdge
<1> HIDE DEF x, y, e
<1>4. ASSUME NEW m \in 1 .. 9, NEW l \in Int, NEW h \in Int, Along[m] = l, Across[m] = HalfTab * h
      PROVE  e[m] = <<x + 8 * l * W1, y + 8 * h * t>>
    <2>1. W * l = 8 * l * W1 /\ W * (HalfTab * h) * dir = 8 * h * t
        BY <1>1, <1>4
    <2>2. 0 * (HalfTab * h) * dir = 0 /\ 0 * l = 0
        BY <1>1, <1>4
    <2>3. 8 * l * W1 \in Int /\ 8 * h * t \in Int
        BY <1>1, <1>2, <1>4
    <2> HIDE DEF t
    <2> QED
        BY <1>2, <1>3, <1>4, <2>1, <2>2, <2>3
<1>5. /\ Along[1] = 0 /\ Along[2] = 14 /\ Along[3] = 14 /\ Along[4] = 14 /\ Along[5] = 20
      /\ Along[6] = 26 /\ Along[7] = 26 /\ Along[8] = 26 /\ Along[9] = 40
      /\ Across[1] = HalfTab * 0 /\ Across[2] = HalfTab * 0 /\ Across[3] = HalfTab * 1
      /\ Across[4] = HalfTab * 2 /\ Across[5] = HalfTab * 2 /\ Across[6] = HalfTab * 2
      /\ Across[7] = HalfTab * 1 /\ Across[8] = HalfTab * 0 /\ Across[9] = HalfTab * 0
    BY <1>1 DEF Along, Across
<1> HIDE DEF t
<1>6. /\ e[1] = <<x + 8 * 0 * W1, y + 8 * 0 * t>> /\ e[2] = <<x + 8 * 14 * W1, y + 8 * 0 * t>>
      /\ e[3] = <<x + 8 * 14 * W1, y + 8 * 1 * t>> /\ e[4] = <<x + 8 * 14 * W1, y + 8 * 2 * t>>
      /\ e[5] = <<x + 8 * 20 * W1, y + 8 * 2 * t>> /\ e[6] = <<x + 8 * 26 * W1, y + 8 * 2 * t>>
      /\ e[7] = <<x + 8 * 26 * W1, y + 8 * 1 * t>> /\ e[8] = <<x + 8 * 26 * W1, y + 8 * 0 * t>>
      /\ e[9] = <<x + 8 * 40 * W1, y + 8 * 0 * t>>
    BY <1>4, <1>5
<1>7. /\ e[1] = <<x, y>> /\ e[2] = <<x + 112 * W1, y>>
      /\ e[3] = <<x + 112 * W1, y + 8 * t>> /\ e[4] = <<x + 112 * W1, y + 16 * t>>
      /\ e[5] = <<x + 160 * W1, y + 16 * t>> /\ e[6] = <<x + 208 * W1, y + 16 * t>>
      /\ e[7] = <<x + 208 * W1, y + 8 * t>> /\ e[8] = <<x + 208 * W1, y>>
      /\ e[9] = <<x + 320 * W1, y>>
    BY <1>1, <1>2, <1>6
<1>8. Curve(e[2], e[3], e[4], e[5])[1] = <<x + 118 * W1, y + 11 * t>>
    <2>1. Curve(e[2], e[3], e[4], e[5])[1]
            = <<(8 * (x + 118 * W1)) \div 8, (8 * (y + 11 * t)) \div 8>>
        <3>1. /\ x + 112 * W1 + 3 * (x + 112 * W1) + 3 * (x + 112 * W1) + (x + 160 * W1) = 8 * (x + 118 * W1)
              /\ y + 3 * (y + 8 * t) + 3 * (y + 16 * t) + (y + 16 * t) = 8 * (y + 11 * t)
            BY <1>1, <1>2
        <3> QED
            BY <1>7, <3>1 DEF Curve
    <2>2. x + 118 * W1 \in Int /\ y + 11 * t \in Int
        BY <1>1, <1>2
    <2> QED
        BY <2>1, <2>2, EighthOf
<1>9. Curve(e[5], e[6], e[7], e[8])[1] = <<x + 202 * W1, y + 11 * t>>
    <2>1. Curve(e[5], e[6], e[7], e[8])[1]
            = <<(8 * (x + 202 * W1)) \div 8, (8 * (y + 11 * t)) \div 8>>
        <3>1. /\ x + 160 * W1 + 3 * (x + 208 * W1) + 3 * (x + 208 * W1) + (x + 208 * W1) = 8 * (x + 202 * W1)
              /\ y + 16 * t + 3 * (y + 16 * t) + 3 * (y + 8 * t) + y = 8 * (y + 11 * t)
            BY <1>1, <1>2
        <3> QED
            BY <1>7, <3>1 DEF Curve
    <2>2. x + 202 * W1 \in Int /\ y + 11 * t \in Int
        BY <1>1, <1>2
    <2> QED
        BY <2>1, <2>2, EighthOf
<1>10. BendOf(e) = AcrossBend(x, y, W1, t)
    BY <1>7, <1>8, <1>9 DEF BendOf, AcrossBend
<1> QED
    BY <1>10 DEF x, y, t, e

LEMMA DownEdge ==
    ASSUME Valid, NEW i \in Int, NEW j \in Int, NEW dir \in Int
    PROVE  BendOf(PuzzleEdge(<<i, j>>, <<i, j + 1>>, dir))
            = DownBend(40 * i * W, 40 * j * H, H1, HalfTab * H1 * dir)
<1> DEFINE x == 40 * i * W   y == 40 * j * H   s == HalfTab * H1 * dir
           e == PuzzleEdge(<<i, j>>, <<i, j + 1>>, dir)
<1>1. /\ W1 \in Nat /\ H1 \in Nat /\ W = 8 * W1 /\ H = 8 * H1 /\ HalfTab \in Nat
    BY Eighths
<1>2. x \in Int /\ y \in Int /\ s \in Int
    BY <1>1
<1>3. ASSUME NEW m \in 1 .. 9
      PROVE  /\ e[m] = <<x + 0 * Along[m] - H * Across[m] * dir, y + H * Along[m] + 0 * Across[m] * dir>>
             /\ Along[m] \in Int /\ Across[m] \in Int
    <2>1. (j + 1 - j) * H = H /\ (i - i) * W = 0
        BY <1>1
    <2>2. Along[m] \in Int /\ Across[m] \in Int
        BY <1>1 DEF Along, Across
    <2> QED
        BY <2>1, <2>2 DEF PuzzleEdge
<1> HIDE DEF x, y, e
<1>4. ASSUME NEW m \in 1 .. 9, NEW l \in Int, NEW h \in Int, Along[m] = l, Across[m] = HalfTab * h
      PROVE  e[m] = <<x - 8 * h * s, y + 8 * l * H1>>
    <2>1. H * l = 8 * l * H1 /\ H * (HalfTab * h) * dir = 8 * h * s
        BY <1>1, <1>4
    <2>2. 0 * (HalfTab * h) * dir = 0 /\ 0 * l = 0
        BY <1>1, <1>4
    <2>3. 8 * l * H1 \in Int /\ 8 * h * s \in Int
        BY <1>1, <1>2, <1>4
    <2> HIDE DEF s
    <2> QED
        BY <1>2, <1>3, <1>4, <2>1, <2>2, <2>3
<1>5. /\ Along[1] = 0 /\ Along[2] = 14 /\ Along[3] = 14 /\ Along[4] = 14 /\ Along[5] = 20
      /\ Along[6] = 26 /\ Along[7] = 26 /\ Along[8] = 26 /\ Along[9] = 40
      /\ Across[1] = HalfTab * 0 /\ Across[2] = HalfTab * 0 /\ Across[3] = HalfTab * 1
      /\ Across[4] = HalfTab * 2 /\ Across[5] = HalfTab * 2 /\ Across[6] = HalfTab * 2
      /\ Across[7] = HalfTab * 1 /\ Across[8] = HalfTab * 0 /\ Across[9] = HalfTab * 0
    BY <1>1 DEF Along, Across
<1> HIDE DEF s
<1>6. /\ e[1] = <<x - 8 * 0 * s, y + 8 * 0 * H1>> /\ e[2] = <<x - 8 * 0 * s, y + 8 * 14 * H1>>
      /\ e[3] = <<x - 8 * 1 * s, y + 8 * 14 * H1>> /\ e[4] = <<x - 8 * 2 * s, y + 8 * 14 * H1>>
      /\ e[5] = <<x - 8 * 2 * s, y + 8 * 20 * H1>> /\ e[6] = <<x - 8 * 2 * s, y + 8 * 26 * H1>>
      /\ e[7] = <<x - 8 * 1 * s, y + 8 * 26 * H1>> /\ e[8] = <<x - 8 * 0 * s, y + 8 * 26 * H1>>
      /\ e[9] = <<x - 8 * 0 * s, y + 8 * 40 * H1>>
    BY <1>4, <1>5
<1>7. /\ e[1] = <<x, y>> /\ e[2] = <<x, y + 112 * H1>>
      /\ e[3] = <<x - 8 * s, y + 112 * H1>> /\ e[4] = <<x - 16 * s, y + 112 * H1>>
      /\ e[5] = <<x - 16 * s, y + 160 * H1>> /\ e[6] = <<x - 16 * s, y + 208 * H1>>
      /\ e[7] = <<x - 8 * s, y + 208 * H1>> /\ e[8] = <<x, y + 208 * H1>>
      /\ e[9] = <<x, y + 320 * H1>>
    BY <1>1, <1>2, <1>6
<1>8. Curve(e[2], e[3], e[4], e[5])[1] = <<x - 11 * s, y + 118 * H1>>
    <2>1. Curve(e[2], e[3], e[4], e[5])[1]
            = <<(8 * (x - 11 * s)) \div 8, (8 * (y + 118 * H1)) \div 8>>
        <3>1. /\ y + 112 * H1 + 3 * (y + 112 * H1) + 3 * (y + 112 * H1) + (y + 160 * H1) = 8 * (y + 118 * H1)
              /\ x + 3 * (x - 8 * s) + 3 * (x - 16 * s) + (x - 16 * s) = 8 * (x - 11 * s)
            BY <1>1, <1>2
        <3> QED
            BY <1>7, <3>1 DEF Curve
    <2>2. x - 11 * s \in Int /\ y + 118 * H1 \in Int
        BY <1>1, <1>2
    <2> QED
        BY <2>1, <2>2, EighthOf
<1>9. Curve(e[5], e[6], e[7], e[8])[1] = <<x - 11 * s, y + 202 * H1>>
    <2>1. Curve(e[5], e[6], e[7], e[8])[1]
            = <<(8 * (x - 11 * s)) \div 8, (8 * (y + 202 * H1)) \div 8>>
        <3>1. /\ y + 160 * H1 + 3 * (y + 208 * H1) + 3 * (y + 208 * H1) + (y + 208 * H1) = 8 * (y + 202 * H1)
              /\ x - 16 * s + 3 * (x - 16 * s) + 3 * (x - 8 * s) + x = 8 * (x - 11 * s)
            BY <1>1, <1>2
        <3> QED
            BY <1>7, <3>1 DEF Curve
    <2>2. x - 11 * s \in Int /\ y + 202 * H1 \in Int
        BY <1>1, <1>2
    <2> QED
        BY <2>1, <2>2, EighthOf
<1>10. BendOf(e) = DownBend(x, y, H1, s)
    BY <1>7, <1>8, <1>9 DEF BendOf, DownBend
<1> QED
    BY <1>10 DEF x, y, s, e

(***************************************************************************)
(* The polygon of a piece is four edges of six points each: its crossings  *)
(* are odd when those of an odd number of edges are.                       *)
(***************************************************************************)
(* Parity up to a number of which six more elements, or five, are looked at. *)
UpTo(T, n) == {i \in 1 .. n : i \in T}

LEMMA UpToFinite == ASSUME NEW T, NEW n \in Nat PROVE IsFiniteSet(UpTo(T, n))
<1>1. IsFiniteSet(1 .. n)
    BY FS_Interval
<1>2. UpTo(T, n) \subseteq 1 .. n
    BY DEF UpTo
<1> QED
    BY <1>1, <1>2, FS_Subset

(* The parity of one number more, of five more and of six more. *)
LEMMA OddNext ==
    ASSUME NEW T, NEW n \in Nat
    PROVE  Odd(UpTo(T, n + 1)) <=> ~(Odd(UpTo(T, n)) <=> n + 1 \in T)
BY UpToFinite, OddUpTo DEF UpTo

OddSix(T, n) ==
    ~((n + 1 \in T <=> n + 2 \in T)
      <=> ((n + 3 \in T <=> n + 4 \in T) <=> (n + 5 \in T <=> n + 6 \in T)))

LEMMA OddFive ==
    ASSUME NEW T, NEW n \in Nat
    PROVE  Odd(UpTo(T, n + 5)) <=>
             (Odd(UpTo(T, n)) <=> ((n + 1 \in T <=> n + 2 \in T) <=> ((n + 3 \in T <=> n + 4 \in T) <=> ~(n + 5 \in T))))
<1>1. Odd(UpTo(T, n + 1)) <=> ~(Odd(UpTo(T, n)) <=> n + 1 \in T)
    BY OddNext
<1>2. Odd(UpTo(T, n + 2)) <=> ~(Odd(UpTo(T, n + 1)) <=> n + 2 \in T)
    BY OddNext, n + 1 \in Nat, n + 1 + 1 = n + 2
<1>3. Odd(UpTo(T, n + 3)) <=> ~(Odd(UpTo(T, n + 2)) <=> n + 3 \in T)
    BY OddNext, n + 2 \in Nat, n + 2 + 1 = n + 3
<1>4. Odd(UpTo(T, n + 4)) <=> ~(Odd(UpTo(T, n + 3)) <=> n + 4 \in T)
    BY OddNext, n + 3 \in Nat, n + 3 + 1 = n + 4
<1>5. Odd(UpTo(T, n + 5)) <=> ~(Odd(UpTo(T, n + 4)) <=> n + 5 \in T)
    BY OddNext, n + 4 \in Nat, n + 4 + 1 = n + 5
<1> QED
    BY <1>1, <1>2, <1>3, <1>4, <1>5

LEMMA OddSixMore ==
    ASSUME NEW T, NEW n \in Nat
    PROVE  Odd(UpTo(T, n + 6)) <=> ~(Odd(UpTo(T, n)) <=> OddSix(T, n))
<1>1. Odd(UpTo(T, n + 5)) <=>
             (Odd(UpTo(T, n)) <=> ((n + 1 \in T <=> n + 2 \in T) <=> ((n + 3 \in T <=> n + 4 \in T) <=> ~(n + 5 \in T))))
    BY OddFive
<1>2. Odd(UpTo(T, n + 6)) <=> ~(Odd(UpTo(T, n + 5)) <=> n + 6 \in T)
    BY OddNext, n + 5 \in Nat, n + 5 + 1 = n + 6
<1> QED
    BY <1>1, <1>2 DEF OddSix

(* Of the four times six sides of a piece. *)
LEMMA OddOfTwentyFour ==
    ASSUME NEW T
    PROVE  Odd(UpTo(T, 24)) <=>
             ~((OddSix(T, 1) <=> OddSix(T, 7))
               <=> (OddSix(T, 13) <=>
                    ~((20 \in T <=> 21 \in T) <=> ((22 \in T <=> 23 \in T) <=> (24 \in T <=> 1 \in T)))))
<1>0. ~Odd(UpTo(T, 0))
    BY OddOfNone DEF UpTo
<1>1. Odd(UpTo(T, 1)) <=> 1 \in T
    BY <1>0, OddNext, 0 + 1 = 1
<1>2. Odd(UpTo(T, 7)) <=> ~(Odd(UpTo(T, 1)) <=> OddSix(T, 1))
    BY OddSixMore, 1 + 6 = 7
<1>3. Odd(UpTo(T, 13)) <=> ~(Odd(UpTo(T, 7)) <=> OddSix(T, 7))
    BY OddSixMore, 7 + 6 = 13
<1>4. Odd(UpTo(T, 19)) <=> ~(Odd(UpTo(T, 13)) <=> OddSix(T, 13))
    BY OddSixMore, 13 + 6 = 19
<1>5. Odd(UpTo(T, 24)) <=>
             (Odd(UpTo(T, 19)) <=> ((20 \in T <=> 21 \in T) <=> ((22 \in T <=> 23 \in T) <=> ~(24 \in T))))
    BY OddFive, 19 + 1 = 20, 19 + 2 = 21, 19 + 3 = 22, 19 + 4 = 23, 19 + 5 = 24
<1> QED
    BY <1>1, <1>2, <1>3, <1>4, <1>5

(* The corners of the polygon along an edge. *)
Edge9 == [1 .. 9 -> Vertex]

(* Sequences one after the other. *)
LEMMA Joined ==
    ASSUME NEW s \in Seq(Vertex), NEW t \in Seq(Vertex)
    PROVE  /\ s \o t \in Seq(Vertex) /\ Len(s \o t) = Len(s) + Len(t)
           /\ \A k \in 1 .. Len(s) : (s \o t)[k] = s[k]
           /\ \A k \in 1 .. Len(t) : (s \o t)[Len(s) + k] = t[k]
OBVIOUS

(* The points of a curve and of an edge. *)
LEMMA CurveType ==
    ASSUME NEW a \in Vertex, NEW b \in Vertex, NEW c \in Vertex, NEW d \in Vertex
    PROVE  /\ Curve(a, b, c, d) = <<Curve(a, b, c, d)[1], d>>
           /\ Curve(a, b, c, d)[1] \in Vertex
BY DEF Curve, Vertex

LEMMA BendType ==
    ASSUME NEW e \in Edge9
    PROVE  /\ \A m \in 1 .. 7 : BendOf(e)[m] \in Vertex
           /\ BendOf(e)[1] = e[1] /\ BendOf(e)[7] = e[9]
           /\ Flat(e) \in Seq(Vertex) /\ Len(Flat(e)) = 6
           /\ \A m \in 1 .. 6 : Flat(e)[m] = BendOf(e)[m]
<1> DEFINE m == Curve(e[2], e[3], e[4], e[5])[1]
           n == Curve(e[5], e[6], e[7], e[8])[1]
<1>1. \A k \in 1 .. 9 : e[k] \in Vertex
    BY DEF Edge9
<1>2. /\ Curve(e[2], e[3], e[4], e[5]) = <<m, e[5]>> /\ m \in Vertex
      /\ Curve(e[5], e[6], e[7], e[8]) = <<n, e[8]>> /\ n \in Vertex
    BY <1>1, CurveType, 2 \in 1 .. 9, 3 \in 1 .. 9, 4 \in 1 .. 9, 5 \in 1 .. 9, 6 \in 1 .. 9,
       7 \in 1 .. 9, 8 \in 1 .. 9
<1>3. BendOf(e) = <<e[1], e[2], m, e[5], n, e[8], e[9]>>
    BY DEF BendOf
<1>4. Flat(e) = <<e[1], e[2]>> \o <<m, e[5]>> \o <<n, e[8]>>
    BY <1>2 DEF Flat
<1> HIDE DEF m, n
<1>5. /\ <<e[1], e[2]>> \in Seq(Vertex) /\ <<m, e[5]>> \in Seq(Vertex) /\ <<n, e[8]>> \in Seq(Vertex)
    BY <1>1, <1>2
<1> DEFINE p == <<e[1], e[2]>> \o <<m, e[5]>>
<1>6. /\ p \in Seq(Vertex) /\ Len(p) = 4
      /\ p[1] = e[1] /\ p[2] = e[2] /\ p[3] = m /\ p[4] = e[5]
    BY <1>5
<1> HIDE DEF p
<1>7. /\ p \o <<n, e[8]>> \in Seq(Vertex) /\ Len(p \o <<n, e[8]>>) = 6
      /\ (p \o <<n, e[8]>>)[1] = e[1] /\ (p \o <<n, e[8]>>)[2] = e[2]
      /\ (p \o <<n, e[8]>>)[3] = m /\ (p \o <<n, e[8]>>)[4] = e[5]
      /\ (p \o <<n, e[8]>>)[5] = n /\ (p \o <<n, e[8]>>)[6] = e[8]
    <2> DEFINE t == <<n, e[8]>>
    <2>1. t \in Seq(Vertex) /\ Len(t) = 2 /\ t[1] = n /\ t[2] = e[8]
        BY <1>5
    <2> HIDE DEF t
    <2>2. /\ p \o t \in Seq(Vertex) /\ Len(p \o t) = Len(p) + Len(t)
          /\ \A k \in 1 .. Len(p) : (p \o t)[k] = p[k]
          /\ \A k \in 1 .. Len(t) : (p \o t)[Len(p) + k] = t[k]
        BY <1>6, <2>1, Joined
    <2>3. /\ p \o t \in Seq(Vertex) /\ Len(p \o t) = 6
          /\ (p \o t)[1] = e[1] /\ (p \o t)[2] = e[2]
          /\ (p \o t)[3] = m /\ (p \o t)[4] = e[5]
          /\ (p \o t)[5] = n /\ (p \o t)[6] = e[8]
        BY <1>6, <2>1, <2>2, 4 + 1 = 5, 4 + 2 = 6
    <2> QED
        BY <2>3 DEF t
<1>8. /\ Flat(e) \in Seq(Vertex) /\ Len(Flat(e)) = 6
      /\ Flat(e)[1] = e[1] /\ Flat(e)[2] = e[2] /\ Flat(e)[3] = m /\ Flat(e)[4] = e[5]
      /\ Flat(e)[5] = n /\ Flat(e)[6] = e[8]
    BY <1>4, <1>7 DEF p
<1>9. \A k \in 1 .. 6 : Flat(e)[k] = BendOf(e)[k]
    BY <1>3, <1>8
<1>10. \A k \in 1 .. 7 : BendOf(e)[k] \in Vertex
    BY <1>1, <1>2, <1>3
<1> QED
    BY <1>3, <1>8, <1>9, <1>10

(* The parity along an edge of which the ends and the middle lie to the right. *)
LEMMA OddBendOfRight ==
    ASSUME Valid, NEW q \in Image, NEW b, \A m \in 1 .. 7 : b[m] \in Vertex /\ b[m][1] > Centre(q[1])
    PROVE  OddBend(b, q) <=> ~(b[1][2] > Centre(q[2]) <=> b[7][2] > Centre(q[2]))
<1> DEFINE Above(m) == b[m][2] > Centre(q[2])
<1>0. Centre(q[1]) \in Nat /\ Centre(q[2]) \in Nat
    BY CentreInImage
<1>1. ASSUME NEW m \in 1 .. 6
      PROVE  Side(b[m], b[m + 1], q) <=> ~(Above(m) <=> Above(m + 1))
    <2>1. /\ b[m] \in Vertex /\ b[m + 1] \in Vertex
          /\ Centre(q[1]) < b[m][1] /\ Centre(q[1]) < b[m + 1][1]
        BY <1>0 DEF Vertex
    <2>2. /\ Side(b[m], b[m + 1], q) => (b[m][2] > Centre(q[2]) <=> b[m + 1][2] <= Centre(q[2]))
          /\ (b[m][2] > Centre(q[2]) <=> b[m + 1][2] <= Centre(q[2])) => Side(b[m], b[m + 1], q)
        BY <2>1, SideOf
    <2>3. b[m + 1][2] <= Centre(q[2]) <=> ~(b[m + 1][2] > Centre(q[2]))
        BY <1>0, <2>1 DEF Vertex
    <2> QED
        BY <2>2, <2>3
<1> HIDE DEF Above
<1>2. /\ Side(b[1], b[2], q) <=> ~(Above(1) <=> Above(2))
      /\ Side(b[2], b[3], q) <=> ~(Above(2) <=> Above(3))
      /\ Side(b[3], b[4], q) <=> ~(Above(3) <=> Above(4))
      /\ Side(b[4], b[5], q) <=> ~(Above(4) <=> Above(5))
      /\ Side(b[5], b[6], q) <=> ~(Above(5) <=> Above(6))
      /\ Side(b[6], b[7], q) <=> ~(Above(6) <=> Above(7))
    BY <1>1, 1 + 1 = 2, 2 + 1 = 3, 3 + 1 = 4, 4 + 1 = 5, 5 + 1 = 6, 6 + 1 = 7
<1>3. OddBend(b, q) <=> ~(Above(1) <=> Above(7))
    BY <1>2 DEF OddBend
<1> QED
    BY <1>3 DEF Above

(* The numbers n + 1 to n + 6 of a polygon are the first six corners of b. *)
Follows(P, n, b) ==
    /\ P[n + 1] = b[1] /\ P[n + 2] = b[2] /\ P[n + 3] = b[3]
    /\ P[n + 4] = b[4] /\ P[n + 5] = b[5] /\ P[n + 6] = b[6]

(* The sequence of the corners of a piece, six by six. *)
LEMMA JoinedSix ==
    ASSUME NEW s \in Seq(Vertex), NEW t \in Seq(Vertex), Len(t) = 6
    PROVE  /\ s \o t \in Seq(Vertex) /\ Len(s \o t) = Len(s) + 6
           /\ Follows(s \o t, Len(s), t)
           /\ \A n \in Nat : \A b : n + 6 <= Len(s) /\ Follows(s, n, b) => Follows(s \o t, n, b)
<1>1. /\ s \o t \in Seq(Vertex) /\ Len(s \o t) = Len(s) + Len(t)
      /\ \A k \in 1 .. Len(s) : (s \o t)[k] = s[k]
      /\ \A k \in 1 .. Len(t) : (s \o t)[Len(s) + k] = t[k]
    BY Joined
<1> DEFINE j == s \o t  n == Len(s)
<1>2. /\ j \in Seq(Vertex) /\ Len(j) = n + 6 /\ n \in Nat
      /\ \A k \in 1 .. n : j[k] = s[k]
      /\ \A k \in 1 .. 6 : j[n + k] = t[k]
    BY <1>1
<1> HIDE DEF j, n
<1>3. Follows(j, n, t)
    BY <1>2 DEF Follows
<1>4. ASSUME NEW m \in Nat, NEW b, m + 6 <= n, Follows(s, m, b)
      PROVE  Follows(j, m, b)
    <2>1. /\ m + 1 \in 1 .. n /\ m + 2 \in 1 .. n /\ m + 3 \in 1 .. n
          /\ m + 4 \in 1 .. n /\ m + 5 \in 1 .. n /\ m + 6 \in 1 .. n
        BY <1>2, <1>4
    <2>2. j[m + 1] = s[m + 1] /\ j[m + 2] = s[m + 2] /\ j[m + 3] = s[m + 3]
          /\ j[m + 4] = s[m + 4] /\ j[m + 5] = s[m + 5] /\ j[m + 6] = s[m + 6]
        BY <1>2, <2>1
    <2> QED
        BY <1>4, <2>2 DEF Follows
<1> QED
    BY <1>2, <1>3, <1>4 DEF j, n

LEMMA FourTimesSix ==
    ASSUME NEW a \in Seq(Vertex), NEW b \in Seq(Vertex), NEW c \in Seq(Vertex), NEW d \in Seq(Vertex),
           Len(a) = 6, Len(b) = 6, Len(c) = 6, Len(d) = 6
    PROVE  LET P == a \o b \o c \o d IN
           /\ P \in Seq(Vertex) /\ Len(P) = 24
           /\ Follows(P, 0, a) /\ Follows(P, 6, b) /\ Follows(P, 12, c) /\ Follows(P, 18, d)
<1> DEFINE p == a \o b  r == p \o c  v == r \o d
<1>0. Follows(a, 0, a)
    BY DEF Follows
<1>1. /\ p \in Seq(Vertex) /\ Len(p) = 12
      /\ Follows(p, 0, a) /\ Follows(p, 6, b)
    BY <1>0, JoinedSix
<1> HIDE DEF p
<1>2. /\ r \in Seq(Vertex) /\ Len(r) = 12 + 6
      /\ Follows(r, 0, a) /\ Follows(r, 6, b) /\ Follows(r, 12, c)
    BY <1>1, JoinedSix, 0 + 6 <= 12, 6 + 6 <= 12
<1> HIDE DEF r
<1>3. /\ v \in Seq(Vertex) /\ Len(v) = 18 + 6
      /\ Follows(v, 0, a) /\ Follows(v, 6, b) /\ Follows(v, 12, c) /\ Follows(v, 18, d)
    BY <1>2, JoinedSix, 0 + 6 <= 18, 6 + 6 <= 18, 12 + 6 <= 18, 12 + 6 = 18
<1> QED
    BY <1>3 DEF p, r, v

(* Four edges around a cell, each from the end of the one before. *)
Linked(e, f, g, h) ==
    /\ e \in Edge9 /\ f \in Edge9 /\ g \in Edge9 /\ h \in Edge9
    /\ e[9] = f[1] /\ f[9] = g[1] /\ g[9] = h[1] /\ h[9] = e[1]
OddAround(e, f, g, h, q) ==
    ~((OddBend(BendOf(e), q) <=> OddBend(BendOf(f), q))
      <=> (OddBend(BendOf(g), q) <=> OddBend(BendOf(h), q)))

Round(e, f, g, h) == Flat(e) \o Flat(f) \o Flat(g) \o Flat(h)

(* The polygon around a cell has twenty-four corners. *)
LEMMA RoundType ==
    ASSUME NEW e, NEW f, NEW g, NEW h, Linked(e, f, g, h)
    PROVE  /\ Round(e, f, g, h) \in Seq(Vertex) /\ Len(Round(e, f, g, h)) = 24
           /\ Follows(Round(e, f, g, h), 0, BendOf(e)) /\ Follows(Round(e, f, g, h), 6, BendOf(f))
           /\ Follows(Round(e, f, g, h), 12, BendOf(g)) /\ Follows(Round(e, f, g, h), 18, BendOf(h))
           /\ BendOf(e)[7] = BendOf(f)[1] /\ BendOf(f)[7] = BendOf(g)[1]
           /\ BendOf(g)[7] = BendOf(h)[1] /\ BendOf(h)[7] = BendOf(e)[1]
<1>1. /\ Flat(e) \in Seq(Vertex) /\ Len(Flat(e)) = 6
      /\ Flat(f) \in Seq(Vertex) /\ Len(Flat(f)) = 6
      /\ Flat(g) \in Seq(Vertex) /\ Len(Flat(g)) = 6
      /\ Flat(h) \in Seq(Vertex) /\ Len(Flat(h)) = 6
    BY BendType DEF Linked
<1>2. ASSUME NEW b \in Edge9, NEW P, NEW n, Follows(P, n, Flat(b))
      PROVE  Follows(P, n, BendOf(b))
    BY <1>2, BendType DEF Follows
<1> DEFINE P == Round(e, f, g, h)
<1>3. /\ P \in Seq(Vertex) /\ Len(P) = 24
      /\ Follows(P, 0, Flat(e)) /\ Follows(P, 6, Flat(f))
      /\ Follows(P, 12, Flat(g)) /\ Follows(P, 18, Flat(h))
    BY <1>1, FourTimesSix DEF Round
<1>4. /\ BendOf(e)[7] = BendOf(f)[1] /\ BendOf(f)[7] = BendOf(g)[1]
      /\ BendOf(g)[7] = BendOf(h)[1] /\ BendOf(h)[7] = BendOf(e)[1]
    BY BendType DEF Linked
<1> HIDE DEF P
<1>5. /\ Follows(P, 0, BendOf(e)) /\ Follows(P, 6, BendOf(f))
      /\ Follows(P, 12, BendOf(g)) /\ Follows(P, 18, BendOf(h))
    BY <1>2, <1>3 DEF Linked
<1> QED
    BY <1>3, <1>4, <1>5 DEF P

LEMMA CornersOf ==
    ASSUME NEW P \in Seq(Vertex)
    PROVE  /\ DOMAIN P = 1 .. Len(P) /\ Len(P) \in Nat
           /\ \A m \in 1 .. Len(P) : P[m] \in Vertex
           /\ Range(P) \subseteq Vertex
           /\ \A m \in 1 .. Len(P) : P[m] \in Range(P)
BY DEF Range

LEMMA CrossingsAt ==
    ASSUME Valid, NEW q \in Image, NEW P \in Seq(Vertex), NEW m \in 1 .. Len(P), NEW k \in 1 .. Len(P),
           k = IF m = 1 THEN Len(P) ELSE m - 1
    PROVE  m \in Crossings(P, Centre(q[1]), Centre(q[2])) <=> Side(P[k], P[m], q)
<1>1. DOMAIN P = 1 .. Len(P) /\ P[m] \in Vertex /\ P[k] \in Vertex
    BY CornersOf
<1>2. m \in Crossings(P, Centre(q[1]), Centre(q[2])) <=> Side(P[m], P[k], q)
    BY <1>1 DEF Crossings, Side
<1> QED
    BY <1>1, <1>2, SideOf

(* The sides of the polygon that belong to an edge, by the numbers of their ends. *)
LEMMA SidesOfEdge ==
    ASSUME Valid, NEW q \in Image, NEW P \in Seq(Vertex), NEW n \in Nat, n + 7 <= Len(P),
           NEW b, Follows(P, n, b), P[n + 7] = b[7],
           NEW T, T = Crossings(P, Centre(q[1]), Centre(q[2]))
    PROVE  OddSix(T, n + 1) <=> OddBend(b, q)
<1>1. ASSUME NEW m \in Nat, m # 0, m < Len(P)
      PROVE  m + 1 \in T <=> Side(P[m], P[m + 1], q)
    <2> DEFINE u == m + 1
    <2>1. u \in 1 .. Len(P) /\ m \in 1 .. Len(P) /\ m = IF u = 1 THEN Len(P) ELSE u - 1
        BY <1>1
    <2> HIDE DEF u
    <2>2. u \in T <=> Side(P[m], P[u], q)
        BY <2>1, CrossingsAt
    <2> QED
        BY <2>2 DEF u
<1>2. /\ n + 2 \in T <=> Side(P[n + 1], P[n + 2], q)
      /\ n + 3 \in T <=> Side(P[n + 2], P[n + 3], q)
      /\ n + 4 \in T <=> Side(P[n + 3], P[n + 4], q)
      /\ n + 5 \in T <=> Side(P[n + 4], P[n + 5], q)
      /\ n + 6 \in T <=> Side(P[n + 5], P[n + 6], q)
      /\ n + 7 \in T <=> Side(P[n + 6], P[n + 7], q)
    <2>1. n + 2 \in T <=> Side(P[n + 1], P[n + 2], q)
        <3>1. n + 1 \in Nat /\ n + 1 # 0 /\ n + 1 < Len(P) /\ n + 1 + 1 = n + 2
            OBVIOUS
        <3>2. n + 1 + 1 \in T <=> Side(P[n + 1], P[n + 1 + 1], q)
            BY <1>1, <3>1
        <3> QED
            BY <3>1, <3>2
    <2>2. n + 3 \in T <=> Side(P[n + 2], P[n + 3], q)
        <3>1. n + 2 \in Nat /\ n + 2 # 0 /\ n + 2 < Len(P) /\ n + 2 + 1 = n + 3
            OBVIOUS
        <3>2. n + 2 + 1 \in T <=> Side(P[n + 2], P[n + 2 + 1], q)
            BY <1>1, <3>1
        <3> QED
            BY <3>1, <3>2
    <2>3. n + 4 \in T <=> Side(P[n + 3], P[n + 4], q)
        <3>1. n + 3 \in Nat /\ n + 3 # 0 /\ n + 3 < Len(P) /\ n + 3 + 1 = n + 4
            OBVIOUS
        <3>2. n + 3 + 1 \in T <=> Side(P[n + 3], P[n + 3 + 1], q)
            BY <1>1, <3>1
        <3> QED
            BY <3>1, <3>2
    <2>4. n + 5 \in T <=> Side(P[n + 4], P[n + 5], q)
        <3>1. n + 4 \in Nat /\ n + 4 # 0 /\ n + 4 < Len(P) /\ n + 4 + 1 = n + 5
            OBVIOUS
        <3>2. n + 4 + 1 \in T <=> Side(P[n + 4], P[n + 4 + 1], q)
            BY <1>1, <3>1
        <3> QED
            BY <3>1, <3>2
    <2>5. n + 6 \in T <=> Side(P[n + 5], P[n + 6], q)
        <3>1. n + 5 \in Nat /\ n + 5 # 0 /\ n + 5 < Len(P) /\ n + 5 + 1 = n + 6
            OBVIOUS
        <3>2. n + 5 + 1 \in T <=> Side(P[n + 5], P[n + 5 + 1], q)
            BY <1>1, <3>1
        <3> QED
            BY <3>1, <3>2
    <2>6. n + 7 \in T <=> Side(P[n + 6], P[n + 7], q)
        <3>1. n + 6 \in Nat /\ n + 6 # 0 /\ n + 6 < Len(P) /\ n + 6 + 1 = n + 7
            OBVIOUS
        <3>2. n + 6 + 1 \in T <=> Side(P[n + 6], P[n + 6 + 1], q)
            BY <1>1, <3>1
        <3> QED
            BY <3>1, <3>2
    <2> QED
        BY <2>1, <2>2, <2>3, <2>4, <2>5, <2>6
<1>3. /\ n + 1 + 1 = n + 2 /\ n + 1 + 2 = n + 3 /\ n + 1 + 3 = n + 4
      /\ n + 1 + 4 = n + 5 /\ n + 1 + 5 = n + 6 /\ n + 1 + 6 = n + 7
    OBVIOUS
<1>4. OddSix(T, n + 1) <=>
        ~((n + 2 \in T <=> n + 3 \in T)
          <=> ((n + 4 \in T <=> n + 5 \in T) <=> (n + 6 \in T <=> n + 7 \in T)))
    BY <1>3 DEF OddSix
<1>5. P[n + 1] = b[1] /\ P[n + 2] = b[2] /\ P[n + 3] = b[3] /\ P[n + 4] = b[4]
      /\ P[n + 5] = b[5] /\ P[n + 6] = b[6] /\ P[n + 7] = b[7]
    BY DEF Follows
<1> QED
    BY <1>2, <1>4, <1>5 DEF OddBend

(* A pixel is inside when an odd number of the four edges is crossed an odd *)
(* number of times.                                                         *)
LEMMA InsideAround ==
    ASSUME Valid, NEW q \in Image, NEW e, NEW f, NEW g, NEW h, Linked(e, f, g, h)
    PROVE  Odd(Crossings(Round(e, f, g, h), Centre(q[1]), Centre(q[2])))
             <=> OddAround(e, f, g, h, q)
<1> DEFINE P == Round(e, f, g, h)
           T == Crossings(P, Centre(q[1]), Centre(q[2]))
           a == BendOf(e)  b == BendOf(f)  c == BendOf(g)  d == BendOf(h)
<1>0. P \in Seq(Vertex) /\ Len(P) = 24
    BY RoundType
<1>1. Follows(P, 0, a) /\ Follows(P, 6, b) /\ Follows(P, 12, c) /\ Follows(P, 18, d)
    BY RoundType
<1>2. a[7] = b[1] /\ b[7] = c[1] /\ c[7] = d[1] /\ d[7] = a[1]
    BY RoundType
<1> HIDE DEF P, a, b, c, d
<1>3. T = UpTo(T, 24)
    <2>1. DOMAIN P = 1 .. 24
        BY <1>0
    <2> QED
        BY <2>1 DEF UpTo, Crossings
<1>4. ASSUME NEW m \in 1 .. 24, NEW k \in 1 .. 24, k = IF m = 1 THEN 24 ELSE m - 1
      PROVE  m \in T <=> Side(P[k], P[m], q)
    BY <1>0, <1>4, CrossingsAt
<1>5. P[7] = b[1] /\ P[13] = c[1] /\ P[19] = d[1] /\ P[1] = a[1]
    BY <1>1 DEF Follows
<1>6. P[0 + 7] = a[7] /\ P[6 + 7] = b[7] /\ P[12 + 7] = c[7]
    BY <1>2, <1>5
<1>7. /\ P[19] = d[1] /\ P[20] = d[2] /\ P[21] = d[3] /\ P[22] = d[4]
      /\ P[23] = d[5] /\ P[24] = d[6] /\ P[1] = d[7]
    BY <1>1, <1>2, <1>5 DEF Follows
<1>8. /\ 20 \in T <=> Side(d[1], d[2], q)
      /\ 21 \in T <=> Side(d[2], d[3], q)
      /\ 22 \in T <=> Side(d[3], d[4], q)
      /\ 23 \in T <=> Side(d[4], d[5], q)
      /\ 24 \in T <=> Side(d[5], d[6], q)
      /\ 1 \in T <=> Side(d[6], d[7], q)
    <2> HIDE DEF T
    <2>1. /\ 20 \in T <=> Side(P[19], P[20], q)
        BY <1>4
    <2>2. /\ 21 \in T <=> Side(P[20], P[21], q)
        BY <1>4
    <2>3. /\ 22 \in T <=> Side(P[21], P[22], q)
        BY <1>4
    <2>4. /\ 23 \in T <=> Side(P[22], P[23], q)
        BY <1>4
    <2>5. /\ 24 \in T <=> Side(P[23], P[24], q)
        BY <1>4
    <2>6. /\ 1 \in T <=> Side(P[24], P[1], q)
        BY <1>4
    <2> QED
        BY <1>7, <2>1, <2>2, <2>3, <2>4, <2>5, <2>6
<1>17. T = Crossings(P, Centre(q[1]), Centre(q[2]))
    OBVIOUS
<1> HIDE DEF T
<1>9. OddSix(T, 1) <=> OddBend(a, q)
    <2>1. 0 \in Nat /\ 0 + 7 <= Len(P) /\ P[0 + 7] = a[7] /\ Follows(P, 0, a)
        BY <1>0, <1>1, <1>6
    <2>2. OddSix(T, 0 + 1) <=> OddBend(a, q)
        BY <1>0, <1>17, <2>1, SidesOfEdge
    <2> QED
        BY <2>2
<1>10. OddSix(T, 7) <=> OddBend(b, q)
    <2>1. 6 \in Nat /\ 6 + 7 <= Len(P) /\ P[6 + 7] = b[7] /\ Follows(P, 6, b)
        BY <1>0, <1>1, <1>6
    <2>2. OddSix(T, 6 + 1) <=> OddBend(b, q)
        BY <1>0, <1>17, <2>1, SidesOfEdge
    <2> QED
        BY <2>2
<1>11. OddSix(T, 13) <=> OddBend(c, q)
    <2>1. 12 \in Nat /\ 12 + 7 <= Len(P) /\ P[12 + 7] = c[7] /\ Follows(P, 12, c)
        BY <1>0, <1>1, <1>6
    <2>2. OddSix(T, 12 + 1) <=> OddBend(c, q)
        BY <1>0, <1>17, <2>1, SidesOfEdge
    <2> QED
        BY <2>2
<1>12. Odd(T) <=>
             ~((OddSix(T, 1) <=> OddSix(T, 7))
               <=> (OddSix(T, 13) <=>
                    ~((20 \in T <=> 21 \in T) <=> ((22 \in T <=> 23 \in T) <=> (24 \in T <=> 1 \in T)))))
    BY <1>3, OddOfTwentyFour
<1> HIDE DEF T
<1>13. OddBend(d, q) <=>
        ~((20 \in T <=> 21 \in T) <=> ((22 \in T <=> 23 \in T) <=> (24 \in T <=> 1 \in T)))
    BY <1>8 DEF OddBend
<1>14. Odd(T) <=> ~((OddBend(a, q) <=> OddBend(b, q)) <=> (OddBend(c, q) <=> OddBend(d, q)))
    BY <1>9, <1>10, <1>11, <1>12, <1>13
<1> QED
    BY <1>14 DEF OddAround, T, P, a, b, c, d

(* Without a corner to the left of it, a pixel is not inside: the sides that *)
(* are crossed are those between a corner above and a corner below.          *)
LEMMA AroundToTheRight ==
    ASSUME Valid, NEW q \in Image, NEW e, NEW f, NEW g, NEW h, Linked(e, f, g, h),
           ~\E v \in Range(Round(e, f, g, h)) : v[1] <= Centre(q[1])
    PROVE  ~OddAround(e, f, g, h, q)
<1> DEFINE P == Round(e, f, g, h)
           a == BendOf(e)  b == BendOf(f)  c == BendOf(g)  d == BendOf(h)
           Above(p) == p[2] > Centre(q[2])
<1>0. P \in Seq(Vertex) /\ Len(P) = 24
    BY RoundType
<1>1. Follows(P, 0, a) /\ Follows(P, 6, b) /\ Follows(P, 12, c) /\ Follows(P, 18, d)
    BY RoundType
<1>2. a[7] = b[1] /\ b[7] = c[1] /\ c[7] = d[1] /\ d[7] = a[1]
    BY RoundType
<1>3. ASSUME NEW m \in 1 .. 24
      PROVE  P[m] \in Vertex /\ P[m][1] > Centre(q[1])
    <2>1. P[m] \in Range(P) /\ P[m] \in Vertex
        BY <1>0, CornersOf
    <2>2. ~(P[m][1] <= Centre(q[1])) /\ Centre(q[1]) \in Nat
        BY <2>1, CentreInImage
    <2> QED
        BY <2>1, <2>2 DEF Vertex
<1> HIDE DEF P, a, b, c, d
<1>4. ASSUME NEW k, NEW n \in {0, 6, 12, 18}, Follows(P, n, k), NEW m \in 1 .. 24, k[7] = P[m]
      PROVE  OddBend(k, q) <=> ~(Above(k[1]) <=> Above(k[7]))
    <2>1. /\ n + 1 \in 1 .. 24 /\ n + 2 \in 1 .. 24 /\ n + 3 \in 1 .. 24
          /\ n + 4 \in 1 .. 24 /\ n + 5 \in 1 .. 24 /\ n + 6 \in 1 .. 24
        OBVIOUS
    <2>2. /\ k[1] \in Vertex /\ k[1][1] > Centre(q[1]) /\ k[2] \in Vertex /\ k[2][1] > Centre(q[1])
          /\ k[3] \in Vertex /\ k[3][1] > Centre(q[1]) /\ k[4] \in Vertex /\ k[4][1] > Centre(q[1])
          /\ k[5] \in Vertex /\ k[5][1] > Centre(q[1]) /\ k[6] \in Vertex /\ k[6][1] > Centre(q[1])
          /\ k[7] \in Vertex /\ k[7][1] > Centre(q[1])
        BY <1>3, <1>4, <2>1 DEF Follows
    <2>3. \A i \in 1 .. 7 : k[i] \in Vertex /\ k[i][1] > Centre(q[1])
        <3>1. \A i \in 1 .. 7 : i \in {1, 2, 3, 4, 5, 6, 7}
            OBVIOUS
        <3> QED
            BY <2>2, <3>1
    <2> QED
        BY <2>3, OddBendOfRight
<1>5. P[1] = a[1] /\ P[7] = b[1] /\ P[13] = c[1] /\ P[19] = d[1]
    BY <1>1 DEF Follows
<1> HIDE DEF Above
<1>6. /\ OddBend(a, q) <=> ~(Above(a[1]) <=> Above(b[1]))
      /\ OddBend(b, q) <=> ~(Above(b[1]) <=> Above(c[1]))
      /\ OddBend(c, q) <=> ~(Above(c[1]) <=> Above(d[1]))
      /\ OddBend(d, q) <=> ~(Above(d[1]) <=> Above(a[1]))
    BY <1>1, <1>2, <1>4, <1>5
<1> QED
    BY <1>6 DEF OddAround, a, b, c, d

(* So the pixels of a piece follow from the parities along its edges. *)
LEMMA ClipOfRound ==
    ASSUME Valid, NEW q \in Image, NEW e, NEW f, NEW g, NEW h, Linked(e, f, g, h), NEW c
    PROVE  q \in ClipPiece(Piece(c, Round(e, f, g, h))) <=> OddAround(e, f, g, h, q)
<1> DEFINE P == Round(e, f, g, h)
<1>1. P \in Seq(Vertex) /\ Len(P) = 24
    BY RoundType
<1>2. Odd(Crossings(P, Centre(q[1]), Centre(q[2]))) <=> OddAround(e, f, g, h, q)
    BY InsideAround
<1>3. OddAround(e, f, g, h, q) => \E v \in Range(P) : v[1] <= Centre(q[1])
    BY AroundToTheRight
<1> HIDE DEF P
<1>4. Range(P) \subseteq Vertex /\ DOMAIN P = 1 .. Len(P) /\ Len(P) \in Nat
    BY <1>1, CornersOf
<1>5. q \in ClipPiece(Piece(c, P)) <=> Odd(Crossings(P, Centre(q[1]), Centre(q[2])))
    BY <1>2, <1>3, <1>4, ClipIsInside
<1> QED
    BY <1>2, <1>5 DEF P

(***************************************************************************)
(* The lines between the corners of the grid. Two cells share a line,      *)
(* which one walks forth and the other back, with the same crossings.      *)
(***************************************************************************)
LEMMA EdgeEnds ==
    ASSUME Config, NEW a \in Int \X Int, NEW b \in Int \X Int, NEW dir \in Int
    PROVE  /\ PuzzleEdge(a, b, dir) \in Edge9
           /\ PuzzleEdge(a, b, dir)[1] = <<40 * a[1] * W, 40 * a[2] * H>>
           /\ PuzzleEdge(a, b, dir)[9] = <<40 * b[1] * W, 40 * b[2] * H>>
<1> DEFINE dx == (b[1] - a[1]) * W   dy == (b[2] - a[2]) * H
<1>1. W \in Int /\ H \in Int /\ HalfTab \in Int
    BY SlicerAssumption DEF Config, W, H, Cols, Rows
<1>2. /\ dx \in Int /\ dy \in Int /\ 40 * a[1] * W \in Int /\ 40 * a[2] * H \in Int
    BY <1>1
<1>3. ASSUME NEW i \in 1 .. 9
      PROVE  Along[i] \in Int /\ Across[i] \in Int
    <2>1. i \in {1, 2, 3, 4, 5, 6, 7, 8, 9}
        OBVIOUS
    <2> QED
        BY <2>1, <1>1 DEF Along, Across
<1>4. /\ Along[1] = 0 /\ Across[1] = 0 /\ Along[9] = 40 /\ Across[9] = 0
    BY DEF Along, Across
<1>5. PuzzleEdge(a, b, dir) = [i \in 1 .. 9 |-> <<40 * a[1] * W + dx * Along[i] - dy * Across[i] * dir,
                                                  40 * a[2] * H + dy * Along[i] + dx * Across[i] * dir>>]
    BY DEF PuzzleEdge
<1>6. /\ 40 * a[1] * W + dx * 40 = 40 * b[1] * W
      /\ 40 * a[2] * H + dy * 40 = 40 * b[2] * H
    <2>1. dx = b[1] * W - a[1] * W /\ dy = b[2] * H - a[2] * H
        BY <1>1
    <2>2. /\ 40 * a[1] * W = 40 * (a[1] * W) /\ 40 * b[1] * W = 40 * (b[1] * W)
          /\ 40 * a[2] * H = 40 * (a[2] * H) /\ 40 * b[2] * H = 40 * (b[2] * H)
          /\ a[1] * W \in Int /\ b[1] * W \in Int /\ a[2] * H \in Int /\ b[2] * H \in Int
        BY <1>1
    <2> HIDE DEF dx, dy
    <2> QED
        BY <1>2, <2>1, <2>2
<1> HIDE DEF dx, dy
<1>7. PuzzleEdge(a, b, dir) \in Edge9
    <2>1. ASSUME NEW i \in 1 .. 9
          PROVE  <<40 * a[1] * W + dx * Along[i] - dy * Across[i] * dir,
                   40 * a[2] * H + dy * Along[i] + dx * Across[i] * dir>> \in Vertex
        BY <1>2, <1>3 DEF Vertex
    <2> QED
        BY <1>5, <2>1 DEF Edge9
<1>8. PuzzleEdge(a, b, dir)[1] = <<40 * a[1] * W + dx * 0 - dy * 0 * dir, 40 * a[2] * H + dy * 0 + dx * 0 * dir>>
    BY <1>4, <1>5
<1>9. PuzzleEdge(a, b, dir)[9] = <<40 * a[1] * W + dx * 40 - dy * 0 * dir, 40 * a[2] * H + dy * 40 + dx * 0 * dir>>
    BY <1>4, <1>5
<1>10. dx * 0 = 0 /\ dy * 0 = 0 /\ 0 * dir = 0 /\ dx * 0 * dir = 0 /\ dy * 0 * dir = 0
    BY <1>2
<1> QED
    BY <1>2, <1>6, <1>7, <1>8, <1>9, <1>10

\* A corner of the grid.
Corner(i, j) == <<40 * i * W, 40 * j * H>>

LEMMA EdgeBetween ==
    ASSUME Config, NEW i \in Int, NEW j \in Int, NEW k \in Int, NEW l \in Int, NEW dir \in Int
    PROVE  /\ PuzzleEdge(<<i, j>>, <<k, l>>, dir) \in Edge9
           /\ PuzzleEdge(<<i, j>>, <<k, l>>, dir)[1] = Corner(i, j)
           /\ PuzzleEdge(<<i, j>>, <<k, l>>, dir)[9] = Corner(k, l)
<1> DEFINE a == <<i, j>>  b == <<k, l>>
<1>1. a \in Int \X Int /\ b \in Int \X Int /\ a[1] = i /\ a[2] = j /\ b[1] = k /\ b[2] = l
    OBVIOUS
<1> HIDE DEF a, b
<1>2. /\ PuzzleEdge(a, b, dir) \in Edge9
      /\ PuzzleEdge(a, b, dir)[1] = <<40 * a[1] * W, 40 * a[2] * H>>
      /\ PuzzleEdge(a, b, dir)[9] = <<40 * b[1] * W, 40 * b[2] * H>>
    BY <1>1, EdgeEnds
<1> QED
    BY <1>1, <1>2 DEF a, b, Corner

LEMMA CurveReversed ==
    ASSUME NEW a \in Vertex, NEW b \in Vertex, NEW c \in Vertex, NEW d \in Vertex
    PROVE  Curve(d, c, b, a)[1] = Curve(a, b, c, d)[1]
<1>1. /\ d[1] + 3 * c[1] + 3 * b[1] + a[1] = a[1] + 3 * b[1] + 3 * c[1] + d[1]
      /\ d[2] + 3 * c[2] + 3 * b[2] + a[2] = a[2] + 3 * b[2] + 3 * c[2] + d[2]
    BY DEF Vertex
<1> QED
    BY <1>1 DEF Curve

(* The parity along an edge is that along the edge walked backwards. *)
LEMMA BendReversed ==
    ASSUME Valid, NEW q \in Image, NEW e \in Edge9
    PROVE  OddBend(BendOf(Reverse(e)), q) <=> OddBend(BendOf(e), q)
<1> DEFINE f == Reverse(e)
           m == Curve(e[2], e[3], e[4], e[5])[1]
           n == Curve(e[5], e[6], e[7], e[8])[1]
<1>1. \A k \in 1 .. 9 : e[k] \in Vertex
    BY DEF Edge9
<1>2. /\ e[1] \in Vertex /\ e[2] \in Vertex /\ e[3] \in Vertex /\ e[4] \in Vertex
      /\ e[5] \in Vertex /\ e[6] \in Vertex /\ e[7] \in Vertex /\ e[8] \in Vertex /\ e[9] \in Vertex
    BY <1>1
<1>3. /\ f[1] = e[9] /\ f[2] = e[8] /\ f[3] = e[7] /\ f[4] = e[6] /\ f[5] = e[5]
      /\ f[6] = e[4] /\ f[7] = e[3] /\ f[8] = e[2] /\ f[9] = e[1]
    <2>1. Len(e) = 9
        BY DEF Edge9
    <2> QED
        BY <2>1 DEF Reverse
<1>4. m \in Vertex /\ n \in Vertex
    BY <1>2, CurveType
<1>6. /\ Curve(f[2], f[3], f[4], f[5])[1] = n
      /\ Curve(f[5], f[6], f[7], f[8])[1] = m
    <2> DEFINE p2 == e[2]  p3 == e[3]  p4 == e[4]  p5 == e[5]  p6 == e[6]  p7 == e[7]  p8 == e[8]
    <2>0. /\ p2 \in Vertex /\ p3 \in Vertex /\ p4 \in Vertex /\ p5 \in Vertex
          /\ p6 \in Vertex /\ p7 \in Vertex /\ p8 \in Vertex
        BY <1>2
    <2> HIDE DEF p2, p3, p4, p5, p6, p7, p8
    <2>1. Curve(p8, p7, p6, p5)[1] = Curve(p5, p6, p7, p8)[1]
        BY <2>0, CurveReversed
    <2>2. Curve(p5, p4, p3, p2)[1] = Curve(p2, p3, p4, p5)[1]
        BY <2>0, CurveReversed
    <2> USE DEF p2, p3, p4, p5, p6, p7, p8
    <2>3. /\ Curve(f[2], f[3], f[4], f[5]) = Curve(e[8], e[7], e[6], e[5])
          /\ Curve(f[5], f[6], f[7], f[8]) = Curve(e[5], e[4], e[3], e[2])
        BY <1>3
    <2> QED
        BY <2>1, <2>2, <2>3
<1> HIDE DEF m, n, f
<1>7. BendOf(e) = <<e[1], e[2], m, e[5], n, e[8], e[9]>>
    BY DEF BendOf, m, n
<1>8. BendOf(f) = <<e[9], e[8], n, e[5], m, e[2], e[1]>>
    BY <1>3, <1>6 DEF BendOf
<1>9. /\ Side(e[9], e[8], q) <=> Side(e[8], e[9], q)
      /\ Side(e[8], n, q) <=> Side(n, e[8], q)
      /\ Side(n, e[5], q) <=> Side(e[5], n, q)
      /\ Side(e[5], m, q) <=> Side(m, e[5], q)
      /\ Side(m, e[2], q) <=> Side(e[2], m, q)
      /\ Side(e[2], e[1], q) <=> Side(e[1], e[2], q)
    BY <1>2, <1>4, SideOf
<1>10. OddBend(BendOf(e), q) <=>
        ~((Side(e[1], e[2], q) <=> Side(e[2], m, q))
          <=> ((Side(m, e[5], q) <=> Side(e[5], n, q)) <=> (Side(n, e[8], q) <=> Side(e[8], e[9], q))))
    BY <1>7 DEF OddBend
<1>11. OddBend(BendOf(f), q) <=>
        ~((Side(e[9], e[8], q) <=> Side(e[8], n, q))
          <=> ((Side(n, e[5], q) <=> Side(e[5], m, q)) <=> (Side(m, e[2], q) <=> Side(e[2], e[1], q))))
    BY <1>8 DEF OddBend
<1>12. OddBend(BendOf(f), q) <=> OddBend(BendOf(e), q)
    BY <1>9, <1>10, <1>11
<1> QED
    BY <1>12 DEF f

(***************************************************************************)
(* The lines of a jigsaw between two corners of the grid, along row j and  *)
(* along column i, with the direction of the tab.                          *)
(***************************************************************************)
AcrossDir(i, j) == IF j = 0 \/ j = Rows THEN 0 ELSE -tabs.h[<<i, j - 1>>]
DownDir(i, j) == IF i = 0 \/ i = Cols THEN 0 ELSE tabs.v[<<i - 1, j>>]
AcrossLine(i, j) == PuzzleEdge(<<i, j>>, <<i + 1, j>>, AcrossDir(i, j))
DownLine(i, j) == PuzzleEdge(<<i, j>>, <<i, j + 1>>, DownDir(i, j))
OddAcross(i, j, q) == OddBend(BendOf(AcrossLine(i, j)), q)
OddDown(i, j, q) == OddBend(BendOf(DownLine(i, j)), q)

OddCell(c, q) ==
    ~((OddAcross(c[1], c[2], q) <=> OddDown(c[1] + 1, c[2], q))
      <=> (OddAcross(c[1], c[2] + 1, q) <=> OddDown(c[1], c[2], q)))

Tabbed == Valid /\ TabTypes /\ tabs # None

(* The direction of a tab, none at the border of the image. *)
LEMMA Directions ==
    ASSUME Tabbed
    PROVE  /\ \A i \in 0 .. Cols - 1, j \in 0 .. Rows : AcrossDir(i, j) \in {-1, 0, 1}
           /\ \A i \in 0 .. Cols, j \in 0 .. Rows - 1 : DownDir(i, j) \in {-1, 0, 1}
<1>1. /\ tabs.h \in [(0 .. Cols - 1) \X (0 .. Rows - 2) -> {1, -1}]
      /\ tabs.v \in [(0 .. Cols - 2) \X (0 .. Rows - 1) -> {1, -1}]
    BY DEF Tabbed, TabTypes
<1>2. Cols \in Nat /\ Rows \in Nat
    BY Sizes DEF Tabbed
<1>3. ASSUME NEW i \in 0 .. Cols - 1, NEW j \in 0 .. Rows, ~(j = 0 \/ j = Rows)
      PROVE  tabs.h[<<i, j - 1>>] \in {1, -1}
    <2>1. j - 1 \in 0 .. Rows - 2
        BY <1>2, <1>3
    <2> QED
        BY <1>1, <2>1
<1>4. ASSUME NEW i \in 0 .. Cols, NEW j \in 0 .. Rows - 1, ~(i = 0 \/ i = Cols)
      PROVE  tabs.v[<<i - 1, j>>] \in {1, -1}
    <2>1. i - 1 \in 0 .. Cols - 2
        BY <1>2, <1>4
    <2> QED
        BY <1>1, <2>1
<1> QED
    BY <1>3, <1>4 DEF AcrossDir, DownDir

(* The edges of a cell are lines, walked forth at its top and right. *)
LEMMA EdgesAreLines ==
    ASSUME Tabbed, NEW c \in Cell
    PROVE  /\ Top(c) = AcrossLine(c[1], c[2])
           /\ Right(c) = DownLine(c[1] + 1, c[2])
           /\ Bottom(c) = Reverse(AcrossLine(c[1], c[2] + 1))
           /\ Left(c) = Reverse(DownLine(c[1], c[2]))
<1>1. Cols \in Nat /\ Rows \in Nat /\ Cols > 0 /\ Rows > 0 /\ Config
    BY Sizes DEF Tabbed, Valid
<1> DEFINE i == c[1]  j == c[2]
<1>2. c = <<i, j>> /\ i \in 0 .. Cols - 1 /\ j \in 0 .. Rows - 1
    BY DEF Cell
<1> HIDE DEF i, j
<1>3. i + 1 \in 0 .. Cols /\ j + 1 \in 0 .. Rows /\ i \in 0 .. Cols /\ j \in 0 .. Rows
    BY <1>1, <1>2
<1>4. /\ AcrossDir(i, j) \in Int /\ AcrossDir(i, j + 1) \in Int
      /\ DownDir(i, j) \in Int /\ DownDir(i + 1, j) \in Int
    BY <1>2, <1>3, Directions
<1>5. AcrossDir(i, j) = IF j = 0 THEN 0 ELSE -tabs.h[<<i, j - 1>>]
    BY <1>1, <1>2 DEF AcrossDir
<1>6. DownDir(i + 1, j) = IF i = Cols - 1 THEN 0 ELSE tabs.v[<<i, j>>]
    BY <1>1, <1>2 DEF DownDir
<1>7. -AcrossDir(i, j + 1) = IF j = Rows - 1 THEN 0 ELSE tabs.h[<<i, j>>]
    <2>1. AcrossDir(i, j + 1) = IF j = Rows - 1 THEN 0 ELSE -tabs.h[<<i, j>>]
        BY <1>1, <1>2 DEF AcrossDir
    <2>2. j # Rows - 1 => tabs.h[<<i, j>>] \in Int
        <3>1. tabs.h \in [(0 .. Cols - 1) \X (0 .. Rows - 2) -> {1, -1}]
            BY DEF Tabbed, TabTypes
        <3>2. j # Rows - 1 => j \in 0 .. Rows - 2
            BY <1>1, <1>2
        <3> QED
            BY <1>2, <3>1, <3>2
    <2> QED
        BY <2>1, <2>2
<1>8. -DownDir(i, j) = IF i = 0 THEN 0 ELSE -tabs.v[<<i - 1, j>>]
    BY <1>1, <1>2 DEF DownDir
<1>9. Top(c) = AcrossLine(i, j)
    BY <1>2, <1>5 DEF Top, AcrossLine, i, j
<1>10. Right(c) = DownLine(i + 1, j)
    BY <1>2, <1>6 DEF Right, DownLine, i, j
<1>11. Bottom(c) = Reverse(AcrossLine(i, j + 1))
    <2>1. Bottom(c) = PuzzleEdge(<<i + 1, j + 1>>, <<i, j + 1>>, -AcrossDir(i, j + 1))
        BY <1>2, <1>7 DEF Bottom, i, j
    <2>2. <<i + 1, j + 1>> \in Int \X Int /\ <<i, j + 1>> \in Int \X Int /\ -AcrossDir(i, j + 1) \in Int
          /\ -(-AcrossDir(i, j + 1)) = AcrossDir(i, j + 1)
        BY <1>2, <1>4
    <2>3. PuzzleEdge(<<i + 1, j + 1>>, <<i, j + 1>>, -AcrossDir(i, j + 1))
            = Reverse(PuzzleEdge(<<i, j + 1>>, <<i + 1, j + 1>>, -(-AcrossDir(i, j + 1))))
        BY <1>1, <2>2, EdgeReversed
    <2> QED
        BY <2>1, <2>2, <2>3 DEF AcrossLine
<1>12. Left(c) = Reverse(DownLine(i, j))
    <2>1. Left(c) = PuzzleEdge(<<i, j + 1>>, <<i, j>>, -DownDir(i, j))
        BY <1>2, <1>8 DEF Left, i, j
    <2>2. <<i, j + 1>> \in Int \X Int /\ <<i, j>> \in Int \X Int /\ -DownDir(i, j) \in Int
          /\ -(-DownDir(i, j)) = DownDir(i, j)
        BY <1>2, <1>4
    <2>3. PuzzleEdge(<<i, j + 1>>, <<i, j>>, -DownDir(i, j))
            = Reverse(PuzzleEdge(<<i, j>>, <<i, j + 1>>, -(-DownDir(i, j))))
        BY <1>1, <2>2, EdgeReversed
    <2> QED
        BY <2>1, <2>2, <2>3 DEF DownLine
<1> QED
    BY <1>9, <1>10, <1>11, <1>12 DEF i, j

(* The pixels of a piece follow from the parities of the lines around its *)
(* cell.                                                                  *)
LEMMA ClipOfJigsaw ==
    ASSUME Tabbed, NEW q \in Image, NEW c \in Cell
    PROVE  q \in ClipPiece(Piece(c, Flat(Top(c)) \o Flat(Right(c)) \o Flat(Bottom(c)) \o Flat(Left(c))))
             <=> OddCell(c, q)
<1>1. Cols \in Nat /\ Rows \in Nat /\ Cols > 0 /\ Rows > 0 /\ Config /\ Valid
    BY Sizes DEF Tabbed, Valid
<1>2. c \in Int \X Int /\ c[1] \in 0 .. Cols - 1 /\ c[2] \in 0 .. Rows - 1
    BY <1>1 DEF Cell
<1>3. c[1] + 1 \in 0 .. Cols /\ c[2] + 1 \in 0 .. Rows /\ c[1] \in 0 .. Cols /\ c[2] \in 0 .. Rows
    BY <1>1, <1>2
<1>4. /\ AcrossDir(c[1], c[2]) \in Int /\ AcrossDir(c[1], c[2] + 1) \in Int
      /\ DownDir(c[1], c[2]) \in Int /\ DownDir(c[1] + 1, c[2]) \in Int
    BY <1>2, <1>3, Directions
<1>5. /\ AcrossLine(c[1], c[2]) \in Edge9 /\ AcrossLine(c[1], c[2] + 1) \in Edge9
      /\ DownLine(c[1], c[2]) \in Edge9 /\ DownLine(c[1] + 1, c[2]) \in Edge9
    <2>1. c[1] \in Int /\ c[2] \in Int /\ c[1] + 1 \in Int /\ c[2] + 1 \in Int
        BY <1>2
    <2>2. AcrossLine(c[1], c[2]) \in Edge9
        BY <1>1, <1>4, <2>1, EdgeBetween DEF AcrossLine
    <2>3. AcrossLine(c[1], c[2] + 1) \in Edge9
        BY <1>1, <1>4, <2>1, EdgeBetween DEF AcrossLine
    <2>4. DownLine(c[1], c[2]) \in Edge9
        BY <1>1, <1>4, <2>1, EdgeBetween DEF DownLine
    <2>5. DownLine(c[1] + 1, c[2]) \in Edge9
        BY <1>1, <1>4, <2>1, EdgeBetween DEF DownLine
    <2> QED
        BY <2>2, <2>3, <2>4, <2>5
<1>6. \E d1, d2, d3, d4 \in Int :
        /\ Top(c) = PuzzleEdge(c, <<c[1] + 1, c[2]>>, d1)
        /\ Right(c) = PuzzleEdge(<<c[1] + 1, c[2]>>, <<c[1] + 1, c[2] + 1>>, d2)
        /\ Bottom(c) = PuzzleEdge(<<c[1] + 1, c[2] + 1>>, <<c[1], c[2] + 1>>, d3)
        /\ Left(c) = PuzzleEdge(<<c[1], c[2] + 1>>, c, d4)
    <2>1. /\ tabs.h \in [(0 .. Cols - 1) \X (0 .. Rows - 2) -> {1, -1}]
          /\ tabs.v \in [(0 .. Cols - 2) \X (0 .. Rows - 1) -> {1, -1}]
        BY DEF Tabbed, TabTypes
    <2>2. c = <<c[1], c[2]>>
        BY <1>2
    <2>3. (IF c[2] = 0 THEN 0 ELSE -tabs.h[<<c[1], c[2] - 1>>]) \in Int
        <3>1. c[2] # 0 => <<c[1], c[2] - 1>> \in (0 .. Cols - 1) \X (0 .. Rows - 2)
            BY <1>1, <1>2
        <3> QED
            BY <2>1, <3>1
    <2>4. (IF c[1] = Cols - 1 THEN 0 ELSE tabs.v[c]) \in Int
        <3>1. c[1] # Cols - 1 => c \in (0 .. Cols - 2) \X (0 .. Rows - 1)
            BY <1>1, <1>2
        <3> QED
            BY <2>1, <3>1
    <2>5. (IF c[2] = Rows - 1 THEN 0 ELSE tabs.h[c]) \in Int
        <3>1. c[2] # Rows - 1 => c \in (0 .. Cols - 1) \X (0 .. Rows - 2)
            BY <1>1, <1>2
        <3> QED
            BY <2>1, <3>1
    <2>6. (IF c[1] = 0 THEN 0 ELSE -tabs.v[<<c[1] - 1, c[2]>>]) \in Int
        <3>1. c[1] # 0 => <<c[1] - 1, c[2]>> \in (0 .. Cols - 2) \X (0 .. Rows - 1)
            BY <1>1, <1>2
        <3> QED
            BY <2>1, <3>1
    <2> QED
        BY <2>3, <2>4, <2>5, <2>6 DEF Top, Right, Bottom, Left
<1>7. Linked(Top(c), Right(c), Bottom(c), Left(c))
    <2>1. /\ <<c[1] + 1, c[2]>> \in Int \X Int /\ <<c[1] + 1, c[2] + 1>> \in Int \X Int
          /\ <<c[1], c[2] + 1>> \in Int \X Int
        BY <1>2
    <2>2. PICK d1 \in Int : Top(c) = PuzzleEdge(c, <<c[1] + 1, c[2]>>, d1)
        BY <1>6
    <2>3. PICK d2 \in Int : Right(c) = PuzzleEdge(<<c[1] + 1, c[2]>>, <<c[1] + 1, c[2] + 1>>, d2)
        BY <1>6
    <2>4. PICK d3 \in Int : Bottom(c) = PuzzleEdge(<<c[1] + 1, c[2] + 1>>, <<c[1], c[2] + 1>>, d3)
        BY <1>6
    <2>5. PICK d4 \in Int : Left(c) = PuzzleEdge(<<c[1], c[2] + 1>>, c, d4)
        BY <1>6
    <2>0. /\ c[1] \in Int /\ c[2] \in Int /\ c[1] + 1 \in Int /\ c[2] + 1 \in Int
          /\ c = <<c[1], c[2]>>
        BY <1>2
    <2> DEFINE i == c[1]  j == c[2]  k == c[1] + 1  l == c[2] + 1
    <2>10. i \in Int /\ j \in Int /\ k \in Int /\ l \in Int /\ c = <<i, j>>
        BY <2>0
    <2>11. /\ Top(c) = PuzzleEdge(<<i, j>>, <<k, j>>, d1)
           /\ Right(c) = PuzzleEdge(<<k, j>>, <<k, l>>, d2)
           /\ Bottom(c) = PuzzleEdge(<<k, l>>, <<i, l>>, d3)
           /\ Left(c) = PuzzleEdge(<<i, l>>, <<i, j>>, d4)
        BY <2>2, <2>3, <2>4, <2>5, <2>10
    <2> HIDE DEF i, j, k, l
    <2>13. Config
        BY <1>1
    <2>15. d1 \in Int /\ d2 \in Int /\ d3 \in Int /\ d4 \in Int
        BY <2>2, <2>3, <2>4, <2>5
    <2>14. i \in Int /\ j \in Int /\ k \in Int /\ l \in Int
        BY <2>10
    <2>6. Top(c) \in Edge9 /\ Top(c)[1] = Corner(i, j) /\ Top(c)[9] = Corner(k, j)
        <3>1. Top(c) = PuzzleEdge(<<i, j>>, <<k, j>>, d1)
            BY <2>11
        <3> QED
            BY <2>13, <2>14, <2>15, <3>1, EdgeBetween
    <2>7. Right(c) \in Edge9 /\ Right(c)[1] = Corner(k, j) /\ Right(c)[9] = Corner(k, l)
        <3>1. Right(c) = PuzzleEdge(<<k, j>>, <<k, l>>, d2)
            BY <2>11
        <3> QED
            BY <2>13, <2>14, <2>15, <3>1, EdgeBetween
    <2>8. Bottom(c) \in Edge9 /\ Bottom(c)[1] = Corner(k, l) /\ Bottom(c)[9] = Corner(i, l)
        <3>1. Bottom(c) = PuzzleEdge(<<k, l>>, <<i, l>>, d3)
            BY <2>11
        <3> QED
            BY <2>13, <2>14, <2>15, <3>1, EdgeBetween
    <2>9. Left(c) \in Edge9 /\ Left(c)[1] = Corner(i, l) /\ Left(c)[9] = Corner(i, j)
        <3>1. Left(c) = PuzzleEdge(<<i, l>>, <<i, j>>, d4)
            BY <2>11
        <3> QED
            BY <2>13, <2>14, <2>15, <3>1, EdgeBetween
    <2> QED
        BY <2>6, <2>7, <2>8, <2>9 DEF Linked
<1>8. q \in ClipPiece(Piece(c, Round(Top(c), Right(c), Bottom(c), Left(c))))
        <=> OddAround(Top(c), Right(c), Bottom(c), Left(c), q)
    BY <1>1, <1>7, ClipOfRound
<1>9. /\ OddBend(BendOf(Top(c)), q) <=> OddAcross(c[1], c[2], q)
      /\ OddBend(BendOf(Right(c)), q) <=> OddDown(c[1] + 1, c[2], q)
      /\ OddBend(BendOf(Bottom(c)), q) <=> OddAcross(c[1], c[2] + 1, q)
      /\ OddBend(BendOf(Left(c)), q) <=> OddDown(c[1], c[2], q)
    BY <1>1, <1>5, EdgesAreLines, BendReversed DEF OddAcross, OddDown
<1> QED
    BY <1>8, <1>9 DEF OddAround, OddCell, Round

(* The quarters of a cell, or of its neighbours beyond the grid, between a side and the middle. *)
Middle(i, j) == <<40 * i * W + 20 * W, 40 * j * H + 20 * H>>
North(i, j, q) == OddTriangle(Corner(i, j), Corner(i + 1, j), Middle(i, j), q)
East(i, j, q) == OddTriangle(Corner(i + 1, j), Corner(i + 1, j + 1), Middle(i, j), q)
South(i, j, q) == OddTriangle(Corner(i + 1, j + 1), Corner(i, j + 1), Middle(i, j), q)
West(i, j, q) == OddTriangle(Corner(i, j + 1), Corner(i, j), Middle(i, j), q)

(* The quarters of a cell share its pixels out. *)
LEMMA CornersOfCell ==
    ASSUME Valid, NEW i \in Int, NEW j \in Int
    PROVE  LET x0 == 40 * i * W  x1 == 40 * i * W + 40 * W
               y0 == 40 * j * H  y1 == 40 * j * H + 40 * H
               mx == 40 * i * W + 20 * W  my == 40 * j * H + 20 * H
           IN  /\ Bounds(x0, x1, y0, y1)
               /\ mx \in Int /\ my \in Int /\ x0 <= mx /\ mx <= x1 /\ y0 <= my /\ my <= y1
               /\ Corner(i, j) = <<x0, y0>> /\ Corner(i + 1, j) = <<x1, y0>>
               /\ Corner(i + 1, j + 1) = <<x1, y1>> /\ Corner(i, j + 1) = <<x0, y1>>
               /\ Middle(i, j) = <<mx, my>>
<1>1. W \in Nat /\ H \in Nat
    BY Sizes
<1>2. /\ 40 * (i + 1) * W = 40 * i * W + 40 * W /\ 40 * i * W \in Int
      /\ 40 * (j + 1) * H = 40 * j * H + 40 * H /\ 40 * j * H \in Int
    <2>1. i * W \in Int /\ j * H \in Int
        BY <1>1
    <2>2. 40 * (i + 1) * W = 40 * (i * W) + 40 * W /\ 40 * i * W = 40 * (i * W)
        BY <1>1
    <2>3. 40 * (j + 1) * H = 40 * (j * H) + 40 * H /\ 40 * j * H = 40 * (j * H)
        BY <1>1
    <2> QED
        BY <1>1, <2>1, <2>2, <2>3
<1> QED
    BY <1>1, <1>2 DEF Bounds, Corner, Middle

LEMMA QuartersOfCell ==
    ASSUME Valid, NEW q \in Image, NEW i \in Int, NEW j \in Int
    PROVE  /\ North(i, j, q) \/ East(i, j, q) \/ South(i, j, q) \/ West(i, j, q)
                => HoldsCentre(<<i, j>>, q)
           /\ HoldsCentre(<<i, j>>, q)
                => OneQuarter(Corner(i, j), Corner(i + 1, j), Corner(i + 1, j + 1),
                              Corner(i, j + 1), Middle(i, j), q)
<1> DEFINE x0 == 40 * i * W  x1 == 40 * i * W + 40 * W
           y0 == 40 * j * H  y1 == 40 * j * H + 40 * H
           mx == 40 * i * W + 20 * W  my == 40 * j * H + 20 * H
           A == Corner(i, j)  B == Corner(i + 1, j)  C == Corner(i + 1, j + 1)
           D == Corner(i, j + 1)  M == Middle(i, j)
<1>1. /\ Bounds(x0, x1, y0, y1)
      /\ mx \in Int /\ my \in Int /\ x0 <= mx /\ mx <= x1 /\ y0 <= my /\ my <= y1
      /\ A = <<x0, y0>> /\ B = <<x1, y0>> /\ C = <<x1, y1>> /\ D = <<x0, y1>> /\ M = <<mx, my>>
    BY CornersOfCell
<1>2. HoldsCentre(<<i, j>>, q) <=> Holds(x0, x1, y0, y1, q)
    BY DEF HoldsCentre
<1>3. /\ North(i, j, q) <=> OddTriangle(A, B, M, q)
      /\ East(i, j, q) <=> OddTriangle(B, C, M, q)
      /\ South(i, j, q) <=> OddTriangle(C, D, M, q)
      /\ West(i, j, q) <=> OddTriangle(D, A, M, q)
    BY DEF North, East, South, West
<1> HIDE DEF x0, x1, y0, y1, mx, my, A, B, C, D, M
<1>4. \A v \in {A, B, C, D, M} : v \in Vertex /\ InBox(v, x0, x1, y0, y1)
    BY <1>1 DEF InBox, Bounds, Vertex
<1>5. ASSUME NEW a \in {A, B, C, D, M}, NEW b \in {A, B, C, D, M}, NEW c \in {A, B, C, D, M},
             OddTriangle(a, b, c, q)
      PROVE  Holds(x0, x1, y0, y1, q)
    <2>1. Triangle(a, b, c) /\ \A v \in {a, b, c} : InBox(v, x0, x1, y0, y1)
        BY <1>4 DEF Triangle
    <2>2. q \in ClipPiece(Piece(<<0, 0>>, <<a, b, c>>))
        BY <1>5, <2>1, ClipOfThree
    <2> QED
        BY <1>1, <2>1, <2>2, TriangleInBox
<1>6. Holds(x0, x1, y0, y1, q) => OneQuarter(A, B, C, D, M, q)
    BY <1>1, QuartersOf
<1> QED
    BY <1>2, <1>3, <1>5, <1>6 DEF A, B, C, D, M

(* Without tabs, the pixels between the left and the right side of a cell are its own. *)
Straight(i, j, q) == Side(Corner(i, j), Corner(i, j + 1), q)

LEMMA StraightCell ==
    ASSUME Valid, NEW q \in Image, NEW c \in Cell
    PROVE  HoldsCentre(c, q) <=> ~(Straight(c[1], c[2], q) <=> Straight(c[1] + 1, c[2], q))
<1> DEFINE i == c[1]  j == c[2]
           x0 == 40 * i * W  x1 == 40 * i * W + 40 * W
           y0 == 40 * j * H  y1 == 40 * j * H + 40 * H
           A == Corner(i, j)  B == Corner(i + 1, j)  C == Corner(i + 1, j + 1)  D == Corner(i, j + 1)
<1>0. i \in Int /\ j \in Int
    BY CellBounds
<1> HIDE DEF i, j
<1>1. /\ Bounds(x0, x1, y0, y1)
      /\ A = <<x0, y0>> /\ B = <<x1, y0>> /\ C = <<x1, y1>> /\ D = <<x0, y1>>
    BY <1>0, CornersOfCell
<1>2. HoldsCentre(c, q) <=> Holds(x0, x1, y0, y1, q)
    BY DEF HoldsCentre, i, j
<1>3. /\ Straight(i, j, q) <=> Side(A, D, q)
      /\ Straight(i + 1, j, q) <=> Side(B, C, q)
    BY DEF Straight
<1> HIDE DEF x0, x1, y0, y1, A, B, C, D
<1>4. /\ A \in Vertex /\ B \in Vertex /\ C \in Vertex /\ D \in Vertex /\ Quadrangle(A, B, C, D)
      /\ A[2] = B[2] /\ C[2] = D[2]
    BY <1>1 DEF Bounds, Vertex, Quadrangle
<1>5. Tile({<<A, B, C, D>>}, x0, x1, y0, y1)
    BY <1>1, TileOfOne
<1>6. q \in ClipPiece(Piece(c, <<A, B, C, D>>)) <=> Holds(x0, x1, y0, y1, q)
    BY <1>5 DEF Tile
<1>7. q \in ClipPiece(Piece(c, <<A, B, C, D>>)) <=> OddQuadrangle(A, B, C, D, q)
    BY <1>4, ClipOfFour
<1>8. ~Side(A, B, q) /\ ~Side(C, D, q) /\ (Side(D, A, q) <=> Side(A, D, q))
    BY <1>4, Level, SideOf
<1>9. OddQuadrangle(A, B, C, D, q) <=> ~(Side(A, D, q) <=> Side(B, C, q))
    BY <1>8 DEF OddQuadrangle
<1>10. HoldsCentre(c, q) <=> ~(Straight(i, j, q) <=> Straight(i + 1, j, q))
    BY <1>2, <1>3, <1>6, <1>7, <1>9
<1> QED
    BY <1>10 DEF i, j

(***************************************************************************)
(* A tab keeps to the quarter of the cell it reaches into, whose pixels it *)
(* takes from the cell.                                                    *)
(***************************************************************************)
TabsKept == Tabbed /\ TabsFit

(* When tabs fit, a tab is at most as long as a quarter of the cell is *)
(* high.                                                               *)
LEMMA TabLengths ==
    ASSUME TabsKept
    PROVE  /\ Valid /\ W1 \in Nat /\ H1 \in Nat /\ W = 8 * W1 /\ H = 8 * H1
           /\ HalfTab * W1 \in Nat /\ HalfTab * H1 \in Nat
           /\ HalfTab * W1 <= 10 * H1 /\ HalfTab * H1 <= 10 * W1
<1>1. /\ Valid /\ W1 \in Nat /\ H1 \in Nat /\ W = 8 * W1 /\ H = 8 * H1 /\ HalfTab \in Nat
    BY Eighths DEF TabsKept, Tabbed
<1>2. 4 * HalfTab * (8 * W1) <= 40 * (8 * H1) /\ 4 * HalfTab * (8 * H1) <= 40 * (8 * W1)
    BY <1>1 DEF TabsKept, TabsFit
<1>3. /\ 4 * HalfTab * (8 * W1) = 32 * (HalfTab * W1) /\ HalfTab * W1 \in Nat
      /\ 4 * HalfTab * (8 * H1) = 32 * (HalfTab * H1) /\ HalfTab * H1 \in Nat
    BY <1>1
<1> QED
    BY <1>1, <1>2, <1>3

(* A line along a row, and one along a column, is crossed like the straight *)
(* one but for pixels of the quarter it bends into.                         *)
LEMMA AcrossKept ==
    ASSUME TabsKept, NEW q \in Image, NEW i \in 0 .. Cols - 1, NEW j \in 0 .. Rows, OddAcross(i, j, q)
    PROVE  /\ AcrossDir(i, j) >= 0 => North(i, j, q)
           /\ AcrossDir(i, j) <= 0 => South(i, j - 1, q)
<1> DEFINE x == 40 * i * W  y == 40 * j * H  dir == AcrossDir(i, j)  t == HalfTab * W1 * dir
<1>1. /\ Valid /\ W1 \in Nat /\ H1 \in Nat /\ W = 8 * W1 /\ H = 8 * H1
      /\ HalfTab * W1 \in Nat /\ HalfTab * W1 <= 10 * H1
    BY TabLengths
<1>2. i \in Int /\ j \in Int /\ dir \in {-1, 0, 1} /\ dir \in Int
    BY <1>1, Directions, Sizes DEF TabsKept
<1>3. BendOf(AcrossLine(i, j)) = AcrossBend(x, y, W1, t)
    BY <1>1, <1>2, AcrossEdge DEF AcrossLine
<1>4. t \in Int /\ t <= 10 * H1 /\ -(10 * H1) <= t /\ (dir >= 0 => t >= 0) /\ (dir <= 0 => t <= 0)
    BY <1>1, <1>2
<1>5. x \in Int /\ y \in Int
    BY <1>1, <1>2
<1> HIDE DEF x, y, dir, t
<1>6. Moderate(x, y, W1, H1, t)
    BY <1>1, <1>4, <1>5 DEF Moderate
<1>7. OddBend(AcrossBend(x, y, W1, t), q)
    BY <1>3 DEF OddAcross
<1>8. /\ Corner(i, j) = <<x, y>> /\ Corner(i + 1, j) = <<x + 320 * W1, y>>
      /\ Middle(i, j) = <<x + 160 * W1, y + 160 * H1>>
    <2>1. 40 * W = 320 * W1 /\ 20 * W = 160 * W1 /\ 20 * H = 160 * H1
        BY <1>1
    <2> QED
        BY <1>1, <1>2, <2>1, CornersOfCell DEF x, y
<1>9. Middle(i, j - 1) = <<x + 160 * W1, y - 160 * H1>>
    <2>1. 40 * (j - 1) * H + 20 * H = 40 * j * H - 160 * H1
        <3>1. 40 * (j - 1) * H = 40 * (j * H) - 40 * H /\ 40 * j * H = 40 * (j * H) /\ j * H \in Int
            BY <1>1, <1>2
        <3> QED
            BY <1>1, <3>1
    <2>2. 20 * W = 160 * W1
        BY <1>1
    <2> QED
        BY <2>1, <2>2 DEF Middle, x, y
<1>10. ASSUME dir >= 0 PROVE North(i, j, q)
    BY <1>1, <1>4, <1>6, <1>7, <1>8, <1>10, BendBelow DEF North
<1>11. ASSUME dir <= 0 PROVE South(i, j - 1, q)
    <2>1. j - 1 + 1 = j
        BY <1>2
    <2>2. OddTriangle(<<x + 320 * W1, y>>, <<x, y>>, <<x + 160 * W1, y - 160 * H1>>, q)
        BY <1>1, <1>4, <1>6, <1>7, <1>11, BendAbove
    <2> QED
        BY <1>8, <1>9, <2>1, <2>2 DEF South
<1> QED
    BY <1>10, <1>11 DEF dir

LEMMA DownKept ==
    ASSUME TabsKept, NEW q \in Image, NEW i \in 0 .. Cols, NEW j \in 0 .. Rows - 1,
           ~(OddDown(i, j, q) <=> Straight(i, j, q))
    PROVE  /\ DownDir(i, j) <= 0 => West(i, j, q)
           /\ DownDir(i, j) >= 0 => East(i - 1, j, q)
<1> DEFINE x == 40 * i * W  y == 40 * j * H  dir == DownDir(i, j)  s == HalfTab * H1 * dir
<1>1. /\ Valid /\ W1 \in Nat /\ H1 \in Nat /\ W = 8 * W1 /\ H = 8 * H1
      /\ HalfTab * H1 \in Nat /\ HalfTab * H1 <= 10 * W1
    BY TabLengths
<1>2. i \in Int /\ j \in Int /\ dir \in {-1, 0, 1} /\ dir \in Int
    BY <1>1, Directions, Sizes DEF TabsKept
<1>3. BendOf(DownLine(i, j)) = DownBend(x, y, H1, s)
    BY <1>1, <1>2, DownEdge DEF DownLine
<1>4. s \in Int /\ s <= 10 * W1 /\ -(10 * W1) <= s /\ (dir >= 0 => s >= 0) /\ (dir <= 0 => s <= 0)
    BY <1>1, <1>2
<1>5. x \in Int /\ y \in Int
    BY <1>1, <1>2
<1> HIDE DEF x, y, dir, s
<1>6. Moderate(y, x, H1, W1, s)
    BY <1>1, <1>4, <1>5 DEF Moderate
<1>8. /\ Corner(i, j) = <<x, y>> /\ Corner(i, j + 1) = <<x, y + 320 * H1>>
      /\ Middle(i, j) = <<x + 160 * W1, y + 160 * H1>>
    <2>1. 40 * H = 320 * H1 /\ 20 * W = 160 * W1 /\ 20 * H = 160 * H1
        BY <1>1
    <2> QED
        BY <1>1, <1>2, <2>1, CornersOfCell DEF x, y
<1>7. ~(OddBend(DownBend(x, y, H1, s), q) <=> Side(<<x, y>>, <<x, y + 320 * H1>>, q))
    BY <1>3, <1>8 DEF OddDown, Straight
<1>9. Middle(i - 1, j) = <<x - 160 * W1, y + 160 * H1>>
    <2>1. 40 * (i - 1) * W + 20 * W = 40 * i * W - 160 * W1
        <3>1. 40 * (i - 1) * W = 40 * (i * W) - 40 * W /\ 40 * i * W = 40 * (i * W) /\ i * W \in Int
            BY <1>1, <1>2
        <3> QED
            BY <1>1, <3>1
    <2>2. 20 * H = 160 * H1
        BY <1>1
    <2> QED
        BY <2>1, <2>2 DEF Middle, x, y
<1>10. ASSUME dir <= 0 PROVE West(i, j, q)
    <2>2. OddTriangle(<<x, y + 320 * H1>>, <<x, y>>, <<x + 160 * W1, y + 160 * H1>>, q)
        BY <1>1, <1>4, <1>6, <1>7, <1>10, BendRight
    <2> QED
        BY <1>8, <2>2 DEF West
<1>11. ASSUME dir >= 0 PROVE East(i - 1, j, q)
    <2>1. i - 1 + 1 = i
        BY <1>2
    <2>2. OddTriangle(<<x, y>>, <<x, y + 320 * H1>>, <<x - 160 * W1, y + 160 * H1>>, q)
        BY <1>1, <1>4, <1>6, <1>7, <1>11, BendLeft
    <2> QED
        BY <1>8, <1>9, <2>1, <2>2 DEF East
<1> QED
    BY <1>10, <1>11 DEF dir

(***************************************************************************)
(* So a tab takes pixels of the quarter it reaches into, from the cell of  *)
(* the quarter to its neighbour, and each pixel has one piece still.       *)
(***************************************************************************)
LEMMA HoldsOnce ==
    ASSUME Valid, NEW q \in Image, NEW i \in Int, NEW j \in Int, NEW k \in Int, NEW l \in Int,
           HoldsCentre(<<i, j>>, q), HoldsCentre(<<k, l>>, q)
    PROVE  k = i /\ l = j
<1>1. ASSUME NEW d \in Nat, NEW P \in Nat, NEW m \in Int, NEW n \in Int,
             40 * m * d <= P, P < 40 * m * d + 40 * d, 40 * n * d <= P, P < 40 * n * d + 40 * d
      PROVE  ~(m < n)
    <2>1. SUFFICES ASSUME m < n PROVE FALSE
        OBVIOUS
    <2>2. n - m - 1 \in Nat
        BY <2>1
    <2>3. (n - m - 1) * d >= 0
        BY <2>2
    <2>4. (n - m - 1) * d = n * d - m * d - d /\ 40 * n * d = 40 * (n * d) /\ 40 * m * d = 40 * (m * d)
          /\ n * d \in Int /\ m * d \in Int
        OBVIOUS
    <2> QED
        BY <1>1, <2>3, <2>4
<1>2. W \in Nat /\ H \in Nat /\ Centre(q[1]) \in Nat /\ Centre(q[2]) \in Nat
    BY Sizes, CentreInImage
<1>3. /\ 40 * i * W <= Centre(q[1]) /\ Centre(q[1]) < 40 * i * W + 40 * W
      /\ 40 * k * W <= Centre(q[1]) /\ Centre(q[1]) < 40 * k * W + 40 * W
      /\ 40 * j * H <= Centre(q[2]) /\ Centre(q[2]) < 40 * j * H + 40 * H
      /\ 40 * l * H <= Centre(q[2]) /\ Centre(q[2]) < 40 * l * H + 40 * H
    BY DEF HoldsCentre, Holds
<1>4. ~(i < k) /\ ~(k < i) /\ ~(j < l) /\ ~(l < j)
    BY <1>1, <1>2, <1>3
<1> QED
    BY <1>4

Deviates(i, j, q) == ~(OddDown(i, j, q) <=> Straight(i, j, q))

(* Which lines can make a difference to a pixel: of the four around its cell, the one *)
(* whose quarter the pixel is in.                                                     *)
LEMMA AcrossNear ==
    ASSUME TabsKept, NEW q \in Image, NEW c \in Cell, HoldsCentre(c, q),
           NEW i \in 0 .. Cols - 1, NEW j \in 0 .. Rows, OddAcross(i, j, q)
    PROVE  /\ j \in 1 .. Rows - 1 /\ i = c[1]
           /\ \/ j = c[2] /\ North(c[1], c[2], q)
              \/ j = c[2] + 1 /\ South(c[1], c[2], q)
<1>1. Valid /\ Cols \in Nat /\ Rows \in Nat /\ Rows > 0
    BY Sizes DEF TabsKept, Tabbed
<1>2. c = <<c[1], c[2]>> /\ c[1] \in Int /\ c[2] \in Int
    BY <1>1, CellBounds
<1>3. i \in Int /\ j \in Int /\ j - 1 \in Int
    OBVIOUS
<1>4. AcrossDir(i, j) \in {-1, 0, 1}
    BY Directions DEF TabsKept
<1>5. North(i, j, q) => i = c[1] /\ j = c[2]
    <2>1. North(i, j, q) => HoldsCentre(<<i, j>>, q)
        BY <1>1, <1>3, QuartersOfCell
    <2>2. HoldsCentre(<<c[1], c[2]>>, q)
        BY <1>2
    <2> QED
        BY <1>1, <1>2, <1>3, <2>1, <2>2, HoldsOnce
<1>6. South(i, j - 1, q) => i = c[1] /\ j - 1 = c[2]
    <2>1. South(i, j - 1, q) => HoldsCentre(<<i, j - 1>>, q)
        BY <1>1, <1>3, QuartersOfCell
    <2>2. HoldsCentre(<<c[1], c[2]>>, q)
        BY <1>2
    <2> QED
        BY <1>1, <1>2, <1>3, <2>1, <2>2, HoldsOnce
<1>7. /\ AcrossDir(i, j) >= 0 => North(i, j, q)
      /\ AcrossDir(i, j) <= 0 => South(i, j - 1, q)
    BY AcrossKept
<1>8. AcrossDir(i, j) # 0
    BY <1>2, <1>5, <1>6, <1>7
<1>9. j \in 1 .. Rows - 1
    BY <1>1, <1>8 DEF AcrossDir
<1>10. CASE AcrossDir(i, j) > 0
    BY <1>4, <1>5, <1>7, <1>9, <1>10
<1>11. CASE AcrossDir(i, j) < 0
    <2>1. South(i, j - 1, q) /\ i = c[1] /\ j - 1 = c[2]
        BY <1>4, <1>6, <1>7, <1>11
    <2> QED
        BY <1>2, <1>9, <2>1
<1> QED
    BY <1>4, <1>8, <1>10, <1>11

LEMMA DownNear ==
    ASSUME TabsKept, NEW q \in Image, NEW c \in Cell, HoldsCentre(c, q),
           NEW i \in 0 .. Cols, NEW j \in 0 .. Rows - 1, Deviates(i, j, q)
    PROVE  /\ i \in 1 .. Cols - 1 /\ j = c[2]
           /\ \/ i = c[1] /\ West(c[1], c[2], q)
              \/ i = c[1] + 1 /\ East(c[1], c[2], q)
<1>1. Valid /\ Cols \in Nat /\ Rows \in Nat /\ Cols > 0
    BY Sizes DEF TabsKept, Tabbed
<1>2. c = <<c[1], c[2]>> /\ c[1] \in Int /\ c[2] \in Int
    BY <1>1, CellBounds
<1>3. i \in Int /\ j \in Int /\ i - 1 \in Int
    OBVIOUS
<1>4. DownDir(i, j) \in {-1, 0, 1}
    BY Directions DEF TabsKept
<1>5. West(i, j, q) => i = c[1] /\ j = c[2]
    <2>1. West(i, j, q) => HoldsCentre(<<i, j>>, q)
        BY <1>1, <1>3, QuartersOfCell
    <2>2. HoldsCentre(<<c[1], c[2]>>, q)
        BY <1>2
    <2> QED
        BY <1>1, <1>2, <1>3, <2>1, <2>2, HoldsOnce
<1>6. East(i - 1, j, q) => i - 1 = c[1] /\ j = c[2]
    <2>1. East(i - 1, j, q) => HoldsCentre(<<i - 1, j>>, q)
        BY <1>1, <1>3, QuartersOfCell
    <2>2. HoldsCentre(<<c[1], c[2]>>, q)
        BY <1>2
    <2> QED
        BY <1>1, <1>2, <1>3, <2>1, <2>2, HoldsOnce
<1>7. /\ DownDir(i, j) <= 0 => West(i, j, q)
      /\ DownDir(i, j) >= 0 => East(i - 1, j, q)
    BY DownKept DEF Deviates
<1>8. DownDir(i, j) # 0
    BY <1>2, <1>5, <1>6, <1>7
<1>9. i \in 1 .. Cols - 1
    BY <1>1, <1>8 DEF DownDir
<1>10. CASE DownDir(i, j) < 0
    BY <1>4, <1>5, <1>7, <1>9, <1>10
<1>11. CASE DownDir(i, j) > 0
    <2>1. East(i - 1, j, q) /\ i - 1 = c[1] /\ j = c[2]
        BY <1>4, <1>6, <1>7, <1>11
    <2> QED
        BY <1>2, <1>9, <2>1
<1> QED
    BY <1>4, <1>8, <1>10, <1>11

(* The parity around a cell in terms of the lines that deviate. *)
LEMMA OddCellIs ==
    ASSUME TabsKept, NEW q \in Image, NEW c \in Cell, \A d \in Cell : HoldsCentre(d, q) <=> d = c,
           NEW d \in Cell
    PROVE  OddCell(d, q) <=>
             ((OddAcross(d[1], d[2], q) <=> OddAcross(d[1], d[2] + 1, q))
              <=> ((Deviates(d[1], d[2], q) <=> Deviates(d[1] + 1, d[2], q)) <=> d = c))
<1>1. Valid
    BY DEF TabsKept, Tabbed
<1>2. d = c <=> ~(Straight(d[1], d[2], q) <=> Straight(d[1] + 1, d[2], q))
    BY <1>1, StraightCell
<1> QED
    BY <1>2 DEF OddCell, Deviates

(* Each pixel belongs to the one cell with odd parity: its own, or the *)
(* neighbour whose tab reaches it.                                     *)
LEMMA JigsawShares ==
    ASSUME TabsKept, NEW q \in Image
    PROVE  \E e \in Cell : \A d \in Cell : OddCell(d, q) <=> d = e
<1>1. Valid /\ Cols \in Nat /\ Rows \in Nat /\ Cols > 0 /\ Rows > 0
    BY Sizes DEF TabsKept, Tabbed
<1>2. PICK c \in Cell : \A d \in Cell : HoldsCentre(d, q) <=> d = c
    BY <1>1, CellOfPixel
<1> DEFINE i == c[1]  j == c[2]
           A(u, v) == OddAcross(u, v, q)
           D(u, v) == Deviates(u, v, q)
           N == North(i, j, q)  E == East(i, j, q)  S == South(i, j, q)  V == West(i, j, q)
<1>3. c = <<i, j>> /\ i \in 0 .. Cols - 1 /\ j \in 0 .. Rows - 1
    BY <1>2 DEF Cell
<1>4. HoldsCentre(c, q)
    BY <1>2
<1>5. \/ N /\ ~E /\ ~S /\ ~V
      \/ E /\ ~N /\ ~S /\ ~V
      \/ S /\ ~N /\ ~E /\ ~V
      \/ V /\ ~N /\ ~E /\ ~S
    <2>1. OneQuarter(Corner(i, j), Corner(i + 1, j), Corner(i + 1, j + 1),
                     Corner(i, j + 1), Middle(i, j), q)
        BY <1>1, <1>3, <1>4, QuartersOfCell
    <2> QED
        BY <2>1 DEF OneQuarter, North, East, South, West
<1>6. ASSUME NEW u \in 0 .. Cols - 1, NEW v \in 0 .. Rows, A(u, v)
      PROVE  v \in 1 .. Rows - 1 /\ u = i /\ ((v = j /\ N) \/ (v = j + 1 /\ S))
    BY <1>2, <1>4, <1>6, AcrossNear
<1>7. ASSUME NEW u \in 0 .. Cols, NEW v \in 0 .. Rows - 1, D(u, v)
      PROVE  u \in 1 .. Cols - 1 /\ v = j /\ ((u = i /\ V) \/ (u = i + 1 /\ E))
    BY <1>2, <1>4, <1>7, DownNear
<1>8. ASSUME NEW d \in Cell
      PROVE  /\ d = <<d[1], d[2]>> /\ d[1] \in 0 .. Cols - 1 /\ d[2] \in 0 .. Rows - 1
             /\ d[1] + 1 \in 0 .. Cols /\ d[2] + 1 \in 0 .. Rows
             /\ d[1] \in 0 .. Cols /\ d[2] \in 0 .. Rows
    BY <1>1 DEF Cell
<1>9. ASSUME NEW d \in Cell
      PROVE  OddCell(d, q) <=>
               ((A(d[1], d[2]) <=> A(d[1], d[2] + 1)) <=> ((D(d[1], d[2]) <=> D(d[1] + 1, d[2])) <=> d = c))
    BY <1>2, OddCellIs
<1> HIDE DEF A, D, N, E, S, V, i, j
<1>10. ASSUME \A u \in 0 .. Cols - 1, v \in 0 .. Rows : ~A(u, v),
             \A u \in 0 .. Cols, v \in 0 .. Rows - 1 : ~D(u, v)
      PROVE  \E e \in Cell : \A d \in Cell : OddCell(d, q) <=> d = e
    <2>1. ASSUME NEW d \in Cell PROVE OddCell(d, q) <=> d = c
        <3>1. ~A(d[1], d[2]) /\ ~A(d[1], d[2] + 1) /\ ~D(d[1], d[2]) /\ ~D(d[1] + 1, d[2])
            BY <1>8, <1>10
        <3> QED
            BY <1>9, <3>1
    <2> QED
        BY <1>2, <2>1
<1>11. ASSUME A(i, j), N, j \in 1 .. Rows - 1
      PROVE  \E e \in Cell : \A d \in Cell : OddCell(d, q) <=> d = e
    <2> DEFINE e == <<i, j - 1>>
    <2>1. e \in Cell
        BY <1>1, <1>3, <1>11 DEF Cell
    <2>2. ASSUME NEW d \in Cell PROVE OddCell(d, q) <=> d = e
        <3>1. ~D(d[1], d[2]) /\ ~D(d[1] + 1, d[2])
            BY <1>5, <1>6, <1>7, <1>8, <1>11
        <3>2. A(d[1], d[2]) <=> d = c
            BY <1>3, <1>5, <1>6, <1>7, <1>8, <1>11
        <3>3. A(d[1], d[2] + 1) <=> d = e
            BY <1>3, <1>5, <1>6, <1>7, <1>8, <1>11
        <3> HIDE DEF e
        <3> QED
            BY <1>9, <3>1, <3>2, <3>3
    <2> QED
        BY <2>1, <2>2
<1>12. ASSUME A(i, j + 1), S, j + 1 \in 1 .. Rows - 1
      PROVE  \E e \in Cell : \A d \in Cell : OddCell(d, q) <=> d = e
    <2> DEFINE e == <<i, j + 1>>
    <2>1. e \in Cell
        BY <1>1, <1>3, <1>12 DEF Cell
    <2>2. ASSUME NEW d \in Cell PROVE OddCell(d, q) <=> d = e
        <3>1. ~D(d[1], d[2]) /\ ~D(d[1] + 1, d[2])
            BY <1>5, <1>6, <1>7, <1>8, <1>12
        <3>2. A(d[1], d[2]) <=> d = e
            BY <1>3, <1>5, <1>6, <1>7, <1>8, <1>12
        <3>3. A(d[1], d[2] + 1) <=> d = c
            BY <1>3, <1>5, <1>6, <1>7, <1>8, <1>12
        <3> HIDE DEF e
        <3> QED
            BY <1>9, <3>1, <3>2, <3>3
    <2> QED
        BY <2>1, <2>2
<1>13. ASSUME D(i, j), V, i \in 1 .. Cols - 1
      PROVE  \E e \in Cell : \A d \in Cell : OddCell(d, q) <=> d = e
    <2> DEFINE e == <<i - 1, j>>
    <2>1. e \in Cell
        BY <1>1, <1>3, <1>13 DEF Cell
    <2>2. ASSUME NEW d \in Cell PROVE OddCell(d, q) <=> d = e
        <3>1. ~A(d[1], d[2]) /\ ~A(d[1], d[2] + 1)
            BY <1>5, <1>6, <1>7, <1>8, <1>13
        <3>2. D(d[1], d[2]) <=> d = c
            BY <1>3, <1>5, <1>6, <1>7, <1>8, <1>13
        <3>3. D(d[1] + 1, d[2]) <=> d = e
            BY <1>3, <1>5, <1>6, <1>7, <1>8, <1>13
        <3> HIDE DEF e
        <3> QED
            BY <1>9, <3>1, <3>2, <3>3
    <2> QED
        BY <2>1, <2>2
<1>14. ASSUME D(i + 1, j), E, i + 1 \in 1 .. Cols - 1
      PROVE  \E e \in Cell : \A d \in Cell : OddCell(d, q) <=> d = e
    <2> DEFINE e == <<i + 1, j>>
    <2>1. e \in Cell
        BY <1>1, <1>3, <1>14 DEF Cell
    <2>2. ASSUME NEW d \in Cell PROVE OddCell(d, q) <=> d = e
        <3>1. ~A(d[1], d[2]) /\ ~A(d[1], d[2] + 1)
            BY <1>5, <1>6, <1>7, <1>8, <1>14
        <3>2. D(d[1], d[2]) <=> d = e
            BY <1>3, <1>5, <1>6, <1>7, <1>8, <1>14
        <3>3. D(d[1] + 1, d[2]) <=> d = c
            BY <1>3, <1>5, <1>6, <1>7, <1>8, <1>14
        <3> HIDE DEF e
        <3> QED
            BY <1>9, <3>1, <3>2, <3>3
    <2> QED
        BY <2>1, <2>2
<1>15. ASSUME NEW u \in 0 .. Cols - 1, NEW v \in 0 .. Rows, A(u, v)
       PROVE  \E e \in Cell : \A d \in Cell : OddCell(d, q) <=> d = e
    BY <1>6, <1>11, <1>12, <1>15
<1>16. ASSUME NEW u \in 0 .. Cols, NEW v \in 0 .. Rows - 1, D(u, v)
       PROVE  \E e \in Cell : \A d \in Cell : OddCell(d, q) <=> d = e
    BY <1>7, <1>13, <1>14, <1>16
<1> QED
    BY <1>10, <1>15, <1>16

(* Every pixel of a jigsaw is in one piece. *)
LEMMA JigsawTile ==
    ASSUME TabsKept, NEW q \in Image
    PROVE  OneOf({Piece(c, Flat(Top(c)) \o Flat(Right(c)) \o Flat(Bottom(c)) \o Flat(Left(c))) : c \in Cell}, q)
<1> DEFINE F(c) == Piece(c, Flat(Top(c)) \o Flat(Right(c)) \o Flat(Bottom(c)) \o Flat(Left(c)))
<1>1. PICK e \in Cell : \A d \in Cell : OddCell(d, q) <=> d = e
    BY JigsawShares
<1>2. \A d \in Cell : q \in ClipPiece(F(d)) <=> OddCell(d, q)
    BY ClipOfJigsaw DEF TabsKept
<1>3. \A c, d : F(c) = F(d) => c = d
    BY DEF Piece
<1> HIDE DEF F
<1>4. \A s \in {F(c) : c \in Cell} : q \in ClipPiece(s) <=> s = F(e)
    BY <1>1, <1>2, <1>3
<1>5. OneOf({F(c) : c \in Cell}, q)
    BY <1>1, <1>4 DEF OneOf
<1> QED
    BY <1>5 DEF F

(***************************************************************************)
(* The pieces of a merge. The sides of the outline are the segments of the *)
(* group, each once, so that those the ray crosses can be counted among    *)
(* the sides of the cells.                                                 *)
(***************************************************************************)
(* The outline of a group meets every corner once. *)
Outlines(o, n, g) ==
    /\ n \in Nat \ {0} /\ DOMAIN o = 1 .. n /\ Len(o) = n
    /\ \A i, k \in 1 .. n : o[i] = o[k] => i = k
    /\ {<<o[k], o[IF k = n THEN 1 ELSE k + 1]>> : k \in 1 .. n} = Range(Segments(g))

LEMMA OutlineMeetsCornersOnce ==
    ASSUME NEW g, NEW n, NEW P, Surrounds(Segments(g), n, P)
    PROVE  Outlines(GroupOutline(g), n, g)
<1> DEFINE walk == Walk(Segments(g))
           outline == [k \in 1 .. n |-> walk[k - 1]]
<1>1. Returns(walk) = {n}
    BY OutlineCloses
<1>0. /\ n \in Nat /\ n # 0
      /\ \A i, k \in 0 .. n - 1 : P[i] = P[k] => i = k
    BY DEF Surrounds
<1>2. (CHOOSE m \in {n} : \A k \in {n} : m <= k) = n
    BY <1>0
<1>3. PICK j \in 0 .. n - 1 :
        \A k \in 0 .. n : walk[k] = P[IF j + k < n THEN j + k ELSE j + k - n]
    BY WalkAround
<1> HIDE DEF walk
<1>4. GroupOutline(g) = LET m == CHOOSE i \in Returns(walk) : \A k \in Returns(walk) : i <= k
                        IN  [k \in 1 .. m |-> walk[k - 1]]
    BY DEF GroupOutline, walk
<1>5. GroupOutline(g) = outline
    BY <1>1, <1>2, <1>4
<1> DEFINE turn(k) == IF j + (k - 1) < n THEN j + (k - 1) ELSE j + (k - 1) - n
<1>6. ASSUME NEW i \in 1 .. n
      PROVE  turn(i) \in 0 .. n - 1 /\ outline[i] = P[turn(i)]
    <2>1. i - 1 \in 0 .. n
        BY <1>0
    <2> QED
        BY <1>0, <1>3, <2>1
<1>7. \A i, k \in 1 .. n : turn(i) = turn(k) => i = k
    BY <1>0
<1>8. DOMAIN outline = 1 .. n /\ Len(outline) = n
    BY <1>0
<1> HIDE DEF outline, turn
<1>9. \A i, k \in 1 .. n : outline[i] = outline[k] => i = k
    BY <1>0, <1>6, <1>7
<1>10. LET o == GroupOutline(g)  m == Len(o)
       IN  {<<o[k], o[IF k = m THEN 1 ELSE k + 1]>> : k \in 1 .. m} = Range(Segments(g))
    BY OutlineIsWhole
<1> QED
    BY <1>0, <1>5, <1>8, <1>9, <1>10 DEF Outlines

Magnified(p) == <<Unit * p[1], Unit * p[2]>>
Magnify(o) == [k \in DOMAIN o |-> Magnified(o[k])]

(* Pixels in units. *)
LEMMA MagnifiedType ==
    ASSUME Valid, NEW p \in Int \X Int
    PROVE  /\ Magnified(p) \in Vertex
           /\ Magnified(p)[1] = Unit * p[1] /\ Magnified(p)[2] = Unit * p[2]
<1>1. Unit \in Int
    BY UnitIsEven
<1> QED
    BY <1>1 DEF Magnified, Vertex

(* The segments of a group that the ray from the centre of pixel q crosses. *)
Crossed(s, q) == {e \in s : Side(Magnified(e[1]), Magnified(e[2]), q)}

(* The crossings of the outline are those of the segments. *)
LEMMA CrossingsOfOutline ==
    ASSUME Valid, NEW q \in Image, NEW g, NEW n, NEW o, Outlines(o, n, g),
           \A k \in 1 .. n : o[k] \in Int \X Int
    PROVE  Odd(Crossings(Magnify(o), Centre(q[1]), Centre(q[2])))
             <=> Odd(Crossed(Range(Segments(g)), q))
<1> DEFINE X == Centre(q[1])  Y == Centre(q[2])  E == Range(Segments(g))
           S == Crossings(Magnify(o), X, Y)
           T == Crossed(E, q)
           prev(k) == IF k = 1 THEN n ELSE k - 1
           next(k) == IF k = n THEN 1 ELSE k + 1
           f == [k \in S |-> <<o[prev(k)], o[k]>>]
<1>0. /\ n \in Nat /\ n # 0 /\ DOMAIN o = 1 .. n /\ Len(o) = n
      /\ \A i, k \in 1 .. n : o[i] = o[k] => i = k
      /\ {<<o[k], o[next(k)]>> : k \in 1 .. n} = E
    BY DEF Outlines
<1>1. q[1] \in Nat /\ q[2] \in Nat
    BY DEF Image, Valid, Config
<1>2. X \in Int /\ Y \in Int
    BY <1>1, CentreInPixel
<1>3. /\ \A k \in 1 .. n : prev(k) \in 1 .. n /\ next(k) \in 1 .. n
      /\ \A k \in 1 .. n : next(prev(k)) = k /\ prev(next(k)) = k
    BY <1>0
<1>4. /\ DOMAIN Magnify(o) = 1 .. n /\ Len(Magnify(o)) = n
      /\ \A k \in 1 .. n : Magnify(o)[k] = Magnified(o[k]) /\ Magnified(o[k]) \in Vertex
    BY <1>0, MagnifiedType DEF Magnify
<1> HIDE DEF X, Y, next
<1>5. \A k : k \in S <=> k \in 1 .. n /\ Crosses(Magnified(o[k]), Magnified(o[prev(k)]), X, Y)
    <2> DEFINE M == Magnify(o)
    <2>1. /\ DOMAIN M = 1 .. n /\ Len(M) = n
          /\ \A k \in 1 .. n : M[k] = Magnified(o[k])
        BY <1>4
    <2> HIDE DEF M
    <2>2. S = {k \in 1 .. n : Crosses(M[k], M[prev(k)], X, Y)}
        BY <2>1 DEF Crossings, M
    <2> HIDE DEF S, prev
    <2> QED
        BY <1>3, <2>1, <2>2
<1> HIDE DEF S, prev, E
<1>6. ASSUME NEW k \in 1 .. n
      PROVE  k \in S <=> Side(Magnified(o[prev(k)]), Magnified(o[k]), q)
    <2>1. Magnified(o[k]) \in Vertex /\ Magnified(o[prev(k)]) \in Vertex
        BY <1>3, <1>4
    <2>2. Crosses(Magnified(o[k]), Magnified(o[prev(k)]), X, Y)
            <=> Crosses(Magnified(o[prev(k)]), Magnified(o[k]), X, Y)
        BY <1>2, <2>1, CrossingSymmetric
    <2> QED
        BY <1>5, <2>2 DEF Side, X, Y
<1>7. S \subseteq 1 .. n
    BY <1>5
<1>8. ASSUME NEW k \in 1 .. n PROVE <<o[prev(k)], o[k]>> \in E
    <2>1. prev(k) \in 1 .. n /\ next(prev(k)) = k
        BY <1>3
    <2> QED
        BY <1>0, <2>1
<1>9. ASSUME NEW k \in S PROVE f[k] = <<o[prev(k)], o[k]>> /\ f[k] \in T
    BY <1>6, <1>7, <1>8 DEF Crossed
<1>10. ASSUME NEW e \in T PROVE \E k \in S : f[k] = e
    <2>1. e \in E /\ Side(Magnified(e[1]), Magnified(e[2]), q)
        BY DEF Crossed
    <2>2. PICK i \in 1 .. n : e = <<o[i], o[next(i)]>>
        BY <1>0, <2>1
    <2>3. next(i) \in 1 .. n /\ prev(next(i)) = i
        BY <1>3
    <2>4. e[1] = o[i] /\ e[2] = o[next(i)]
        BY <2>2
    <2>5. next(i) \in S
        BY <1>6, <2>1, <2>3, <2>4
    <2> QED
        BY <2>2, <2>3, <2>5
<1>11. f \in [S -> T]
    BY <1>9
<1>12. \A i, k \in S : f[i] = f[k] => i = k
    BY <1>0, <1>7, <1>9
<1> HIDE DEF f, T
<1>13. f \in Injection(S, T) /\ f \in Surjection(S, T)
    BY <1>10, <1>11, <1>12 DEF Injection, Surjection, IsInjective
<1>14. ExistsBijection(S, T)
    BY <1>13 DEF ExistsBijection, Bijection
<1>15. IsFiniteSet(S)
    <2>1. IsFiniteSet(1 .. n)
        BY <1>0, FS_Interval
    <2> QED
        BY <1>7, <2>1, FS_Subset
<1>16. Cardinality(T) = Cardinality(S)
    BY <1>14, <1>15, FS_Bijection
<1> QED
    BY <1>16 DEF Odd, S, T, X, Y, E

(***************************************************************************)
(* The cells of a group that lie in one row are next to each other, in     *)
(* each of the templates: the row has one upright side at its left and one *)
(* at its right.                                                           *)
(***************************************************************************)
(* The cells of S in a row are next to each other. *)
RowsJoined(S) ==
    \A r \in Int : \E a, b \in Int : \A i \in Int : <<i, r>> \in S <=> a <= i /\ i <= b

LEMMA RowsOfGroup ==
    ASSUME NEW c \in Point, NEW g, g = <<c>> \/ \E i \in 1 .. 6 : g = Place(i, c)
    PROVE  Range(g) \subseteq Point /\ RowsJoined(Range(g))
<1> DEFINE x == c[1]  y == c[2]
           A == <<x, y>>  B == <<x + 1, y>>  C == <<x, y + 1>>  D == <<x + 1, y + 1>>
<1>0. x \in Int /\ y \in Int /\ c = <<x, y>>
    BY DEF Point
<1>1. Range(g) \in {{A}, {A, B}, {A, C}, {A, B, C}, {A, B, D}, {A, C, D}, {B, C, D}}
    <2>1. CASE g = <<c>>
        <3>1. Range(g) = {c}
            BY <2>1 DEF Range
        <3> QED
            BY <1>0, <3>1
    <2>2. ASSUME NEW i \in 1 .. 6, g = Place(i, c)
          PROVE  Range(g) \in {{A}, {A, B}, {A, C}, {A, B, C}, {A, B, D}, {A, C, D}, {B, C, D}}
        <3>1. i \in {1, 2, 3, 4, 5, 6}
            OBVIOUS
        <3>2. /\ Place(1, c) = <<A, B>> /\ Place(2, c) = <<A, C>>
              /\ Place(3, c) = <<A, B, C>> /\ Place(4, c) = <<A, B, D>>
              /\ Place(5, c) = <<A, C, D>> /\ Place(6, c) = <<B, C, D>>
            BY <1>0 DEF Place, Template
        <3> HIDE DEF A, B, C, D
        <3>3. \A p, s : Range(<<p, s>>) = {p, s}
            BY DEF Range
        <3>4. \A p, s, t : Range(<<p, s, t>>) = {p, s, t}
            BY DEF Range
        <3> QED
            BY <2>2, <3>1, <3>2, <3>3, <3>4
    <2> QED
        BY <2>1, <2>2
<1>2. Range(g) \subseteq Point
    BY <1>0, <1>1 DEF Point
<1>3. ASSUME NEW r \in Int, r = y
      PROVE  \E a, b \in Int : \A i \in Int : <<i, r>> \in Range(g) <=> a <= i /\ i <= b
    <2>1. CASE A \in Range(g) /\ B \in Range(g)
        <3>1. \A i \in Int : <<i, r>> \in Range(g) <=> x <= i /\ i <= x + 1
            BY <1>0, <1>1, <1>3, <2>1
        <3>2. x + 1 \in Int
            BY <1>0
        <3> QED
            BY <1>0, <3>1, <3>2
    <2>2. CASE A \in Range(g) /\ B \notin Range(g)
        <3>1. \A i \in Int : <<i, r>> \in Range(g) <=> x <= i /\ i <= x
            BY <1>0, <1>1, <1>3, <2>2
        <3> QED
            BY <1>0, <3>1
    <2>3. CASE A \notin Range(g)
        <3>1. \A i \in Int : <<i, r>> \in Range(g) <=> x + 1 <= i /\ i <= x + 1
            BY <1>0, <1>1, <1>3, <2>3
        <3>2. x + 1 \in Int
            BY <1>0
        <3> QED
            BY <3>1, <3>2
    <2> QED
        BY <2>1, <2>2, <2>3
<1>4. ASSUME NEW r \in Int, r = y + 1
      PROVE  \E a, b \in Int : \A i \in Int : <<i, r>> \in Range(g) <=> a <= i /\ i <= b
    <2>1. CASE C \in Range(g) /\ D \in Range(g)
        <3>1. \A i \in Int : <<i, r>> \in Range(g) <=> x <= i /\ i <= x + 1
            BY <1>0, <1>1, <1>4, <2>1
        <3>2. x + 1 \in Int
            BY <1>0
        <3> QED
            BY <1>0, <3>1, <3>2
    <2>2. CASE C \in Range(g) /\ D \notin Range(g)
        <3>1. \A i \in Int : <<i, r>> \in Range(g) <=> x <= i /\ i <= x
            BY <1>0, <1>1, <1>4, <2>2
        <3> QED
            BY <1>0, <3>1
    <2>3. CASE C \notin Range(g) /\ D \in Range(g)
        <3>1. \A i \in Int : <<i, r>> \in Range(g) <=> x + 1 <= i /\ i <= x + 1
            BY <1>0, <1>1, <1>4, <2>3
        <3>2. x + 1 \in Int
            BY <1>0
        <3> QED
            BY <3>1, <3>2
    <2>4. CASE C \notin Range(g) /\ D \notin Range(g)
        <3>1. \A i \in Int : <<i, r>> \in Range(g) <=> 1 <= i /\ i <= 0
            BY <1>0, <1>1, <1>4, <2>4
        <3> QED
            BY <3>1
    <2> QED
        BY <2>1, <2>2, <2>3, <2>4
<1>5. ASSUME NEW r \in Int, r # y, r # y + 1
      PROVE  \E a, b \in Int : \A i \in Int : <<i, r>> \in Range(g) <=> a <= i /\ i <= b
    <2>1. \A i \in Int : <<i, r>> \in Range(g) <=> 1 <= i /\ i <= 0
        BY <1>0, <1>1, <1>5
    <2> QED
        BY <2>1
<1> QED
    BY <1>2, <1>3, <1>4, <1>5 DEF RowsJoined

(* The sides of a group: level ones, and upright ones between a cell of the *)
(* group and a cell that is not.                                            *)
UprightSide(e, S) ==
    \E x, y \in Int :
        \/ /\ e = <<<<x, y>>, <<x, y + 1>>>>
           /\ <<x - 1, y>> \in S /\ <<x, y>> \notin S
        \/ /\ e = <<<<x, y + 1>>, <<x, y>>>>
           /\ <<x, y>> \in S /\ <<x - 1, y>> \notin S
LevelSide(e) == e[1] \in Point /\ e[2] \in Point /\ e[1][2] = e[2][2]

LEMMA GroupSidesAre ==
    ASSUME NEW g, Range(g) \subseteq Point
    PROVE  /\ \A e \in GroupSides(g) : LevelSide(e) \/ UprightSide(e, Range(g))
           /\ \A e : UprightSide(e, Range(g)) => e \in GroupSides(g)
<1> DEFINE S == Range(g)
<1>1. ASSUME NEW c \in S, NEW e \in Sides(c, S) PROVE LevelSide(e) \/ UprightSide(e, S)
    <2> DEFINE x == c[1]  y == c[2]
    <2>0. x \in Int /\ y \in Int /\ c = <<x, y>>
        BY DEF Point
    <2>1. \/ e = <<<<x, y>>, <<x + 1, y>>>> \/ e = <<<<x + 1, y + 1>>, <<x, y + 1>>>>
          \/ e = <<<<x + 1, y>>, <<x + 1, y + 1>>>> /\ <<x + 1, y>> \notin S
          \/ e = <<<<x, y + 1>>, <<x, y>>>> /\ <<x - 1, y>> \notin S
        BY DEF Sides
    <2>2. CASE e = <<<<x, y>>, <<x + 1, y>>>> \/ e = <<<<x + 1, y + 1>>, <<x, y + 1>>>>
        BY <2>0, <2>2 DEF LevelSide, Point
    <2>3. CASE e = <<<<x + 1, y>>, <<x + 1, y + 1>>>> /\ <<x + 1, y>> \notin S
        <3>1. (x + 1) - 1 = x /\ x + 1 \in Int
            BY <2>0
        <3>2. <<(x + 1) - 1, y>> \in S
            BY <2>0, <3>1
        <3> QED
            BY <2>0, <2>3, <3>1, <3>2 DEF UprightSide
    <2>4. CASE e = <<<<x, y + 1>>, <<x, y>>>> /\ <<x - 1, y>> \notin S
        <3>1. <<x, y>> \in S
            BY <2>0
        <3>2. x \in Int /\ y \in Int /\ e = <<<<x, y + 1>>, <<x, y>>>> /\ <<x - 1, y>> \notin S
            BY <2>0, <2>4
        <3> HIDE DEF x, y, S
        <3> QED
            BY <3>1, <3>2 DEF UprightSide
    <2> QED
        BY <2>1, <2>2, <2>3, <2>4
<1>2. ASSUME NEW e, UprightSide(e, S) PROVE e \in GroupSides(g)
    <2>1. PICK x \in Int, y \in Int :
            \/ /\ e = <<<<x, y>>, <<x, y + 1>>>>
               /\ <<x - 1, y>> \in S /\ <<x, y>> \notin S
            \/ /\ e = <<<<x, y + 1>>, <<x, y>>>>
               /\ <<x, y>> \in S /\ <<x - 1, y>> \notin S
        BY <1>2 DEF UprightSide
    <2>2. CASE e = <<<<x, y>>, <<x, y + 1>>>> /\ <<x - 1, y>> \in S /\ <<x, y>> \notin S
        <3>1. (x - 1) + 1 = x
            OBVIOUS
        <3>2. e \in Sides(<<x - 1, y>>, S)
            BY <2>2, <3>1 DEF Sides
        <3> QED
            BY <2>2, <3>2 DEF GroupSides
    <2>3. CASE e = <<<<x, y + 1>>, <<x, y>>>> /\ <<x, y>> \in S /\ <<x - 1, y>> \notin S
        <3>1. e \in Sides(<<x, y>>, S)
            BY <2>3 DEF Sides
        <3> QED
            BY <2>3, <3>1 DEF GroupSides
    <2> QED
        BY <2>1, <2>2, <2>3
<1> QED
    BY <1>1, <1>2 DEF GroupSides

(* Division rounds down: what lies beyond a quotient. *)
LEMMA BeyondInterval ==
    ASSUME NEW n \in Nat, NEW d \in Nat, d > 0, NEW x \in Int
    PROVE  /\ n \div d \in Nat
           /\ x * d <= n <=> x <= n \div d
<1> DEFINE k == n \div d  m == n % d
<1>1. k \in Nat /\ m \in Nat /\ m < d /\ n = d * k + m
    OBVIOUS
<1> HIDE DEF k, m
<1>2. ASSUME x <= k PROVE x * d <= n
    <2>1. (k - x) * d >= 0
        BY <1>1, <1>2
    <2>2. d * k = x * d + (k - x) * d
        BY <1>1
    <2> DEFINE u == (k - x) * d  v == x * d  w == d * k
    <2>3. u \in Int /\ v \in Int /\ w \in Int
        BY <1>1
    <2> HIDE DEF u, v, w
    <2> QED
        BY <1>1, <2>1, <2>2, <2>3 DEF u, v, w
<1>3. ASSUME x > k PROVE x * d > n
    <2>1. (x - k - 1) * d >= 0
        BY <1>1, <1>3
    <2>2. x * d = d * k + d + (x - k - 1) * d
        BY <1>1
    <2> DEFINE u == (x - k - 1) * d  v == x * d  w == d * k
    <2>3. u \in Int /\ v \in Int /\ w \in Int
        BY <1>1
    <2> HIDE DEF u, v, w
    <2> QED
        BY <1>1, <2>1, <2>2, <2>3 DEF u, v, w
<1>4. x <= k => x * d <= n
    BY <1>2
<1>5. x > k => x * d > n
    BY <1>3
<1>6. x * d \in Int
    OBVIOUS
<1> QED
    BY <1>1, <1>4, <1>5, <1>6 DEF k

(* A multiple of the unit is beyond the centre of a pixel when it is beyond *)
(* the pixel.                                                               *)
LEMMA BeyondCentre ==
    ASSUME Valid, NEW k \in Nat, NEW m \in Int
    PROVE  Unit * m <= Centre(k) <=> m <= k
<1>1. Unit \in Nat /\ Unit > 0
    BY UnitIsEven
<1>2. Centre(k) \in Nat /\ Unit * k < Centre(k) /\ Centre(k) < Unit * (k + 1)
    BY CentreInPixel
<1> DEFINE U == Unit
<1> HIDE DEF U
<1>3. U \in Nat /\ U > 0
    BY <1>1 DEF U
<1>4. U * m \in Int /\ U * k \in Int /\ U * (k + 1) \in Int
    BY <1>3
<1>5. m <= k => U * m <= U * k
    <2> SUFFICES ASSUME m <= k PROVE U * m <= U * k
        OBVIOUS
    <2>1. U * (k - m) >= 0
        BY <1>3
    <2>2. U * k = U * m + U * (k - m)
        BY <1>3
    <2>3. U * (k - m) \in Int
        BY <1>3
    <2> QED
        BY <1>4, <2>1, <2>2, <2>3
<1>6. m > k => U * m >= U * (k + 1)
    <2> SUFFICES ASSUME m > k PROVE U * m >= U * (k + 1)
        OBVIOUS
    <2>1. U * (m - (k + 1)) >= 0
        BY <1>3
    <2>2. U * m = U * (k + 1) + U * (m - (k + 1))
        BY <1>3
    <2>3. U * (m - (k + 1)) \in Int
        BY <1>3
    <2> QED
        BY <1>4, <2>1, <2>2, <2>3
<1>7. Unit * m \in Int
    BY <1>1
<1> QED
    BY <1>2, <1>4, <1>5, <1>6, <1>7 DEF U

(* The column and the row of the cell that pixel q belongs to. *)
ColumnOf(q) == q[1] \div CellW
RowOf(q) == q[2] \div CellH

LEMMA CellOf ==
    ASSUME Valid, HasPixels, NEW q \in Image
    PROVE  /\ ColumnOf(q) \in Nat /\ RowOf(q) \in Nat /\ q[1] \in Nat /\ q[2] \in Nat
           /\ \A x \in Int : x * CellW <= q[1] <=> x <= ColumnOf(q)
           /\ \A y \in Int : y * CellH <= q[2] <=> y <= RowOf(q)
<1>1. q[1] \in Nat /\ q[2] \in Nat
    BY DEF Image, Valid, Config
<1> QED
    BY <1>1, BeyondInterval DEF HasPixels, ColumnOf, RowOf

GridCorner(p) == Magnified(Pixel(p))

(* A corner of the grid as a pixel sees it. *)
LEMMA GridCornerType ==
    ASSUME Valid, HasPixels, NEW p \in Point, NEW q \in Image
    PROVE  /\ GridCorner(p) \in Vertex
           /\ GridCorner(p)[1] <= Centre(q[1]) <=> p[1] <= ColumnOf(q)
           /\ GridCorner(p)[2] <= Centre(q[2]) <=> p[2] <= RowOf(q)
<1>1. Pixel(p) \in Int \X Int /\ Pixel(p)[1] = p[1] * CellW /\ Pixel(p)[2] = p[2] * CellH
    BY DEF Pixel, Point, HasPixels
<1>2. /\ GridCorner(p) \in Vertex
      /\ GridCorner(p)[1] = Unit * Pixel(p)[1] /\ GridCorner(p)[2] = Unit * Pixel(p)[2]
    BY <1>1, MagnifiedType DEF GridCorner
<1>3. p[1] \in Int /\ p[2] \in Int /\ Pixel(p)[1] \in Int /\ Pixel(p)[2] \in Int
    BY <1>1 DEF Point
<1>4. q[1] \in Nat /\ q[2] \in Nat
    BY CellOf
<1>5. /\ Unit * Pixel(p)[1] <= Centre(q[1]) <=> Pixel(p)[1] <= q[1]
      /\ Unit * Pixel(p)[2] <= Centre(q[2]) <=> Pixel(p)[2] <= q[2]
    BY <1>3, <1>4, BeyondCentre
<1>6. /\ p[1] * CellW <= q[1] <=> p[1] <= ColumnOf(q)
      /\ p[2] * CellH <= q[2] <=> p[2] <= RowOf(q)
    BY <1>3, CellOf
<1> QED
    BY <1>1, <1>2, <1>5, <1>6

(* The ray from a pixel crosses the upright sides to the right in its row. *)
LEMMA UprightCrossed ==
    ASSUME Valid, HasPixels, NEW q \in Image, NEW x \in Int, NEW y \in Int
    PROVE  /\ Side(GridCorner(<<x, y>>), GridCorner(<<x, y + 1>>), q)
                <=> y = RowOf(q) /\ x > ColumnOf(q)
           /\ Side(GridCorner(<<x, y + 1>>), GridCorner(<<x, y>>), q)
                <=> y = RowOf(q) /\ x > ColumnOf(q)
<1> DEFINE p == <<x, y>>  s == <<x, y + 1>>  a == GridCorner(p)  b == GridCorner(s)
<1>1. p \in Point /\ s \in Point /\ p[1] = x /\ s[1] = x /\ p[2] = y /\ s[2] = y + 1
    BY DEF Point
<1> HIDE DEF p, s
<1>2. /\ a \in Vertex /\ b \in Vertex
      /\ a[1] <= Centre(q[1]) <=> x <= ColumnOf(q)
      /\ b[1] <= Centre(q[1]) <=> x <= ColumnOf(q)
      /\ a[2] <= Centre(q[2]) <=> y <= RowOf(q)
      /\ b[2] <= Centre(q[2]) <=> y + 1 <= RowOf(q)
    BY <1>1, GridCornerType
<1> HIDE DEF a, b
<1>3. ColumnOf(q) \in Nat /\ RowOf(q) \in Nat /\ q[1] \in Nat /\ q[2] \in Nat
    BY CellOf
<1>4. Centre(q[1]) \in Int /\ Centre(q[2]) \in Int
    BY <1>3, CentreInPixel
<1>5. a[1] \in Int /\ a[2] \in Int /\ b[1] \in Int /\ b[2] \in Int
    BY <1>2 DEF Vertex
<1>6. /\ Side(a, b, q) <=> Side(b, a, q)
      /\ Side(a, b, q) => (a[2] > Centre(q[2]) <=> b[2] <= Centre(q[2]))
      /\ Centre(q[1]) >= a[1] /\ Centre(q[1]) >= b[1] => ~Side(a, b, q)
      /\ Centre(q[1]) < a[1] /\ Centre(q[1]) < b[1]
            /\ (a[2] > Centre(q[2]) <=> b[2] <= Centre(q[2])) => Side(a, b, q)
    BY <1>2, SideOf
<1>7. (a[2] > Centre(q[2]) <=> b[2] <= Centre(q[2])) <=> y = RowOf(q)
    BY <1>2, <1>3, <1>4, <1>5
<1>8. Side(a, b, q) <=> y = RowOf(q) /\ x > ColumnOf(q)
    BY <1>2, <1>3, <1>4, <1>5, <1>6, <1>7
<1> QED
    BY <1>6, <1>8 DEF a, b, p, s

(* And none of the level ones. *)
LEMMA LevelCrossed ==
    ASSUME Valid, HasPixels, NEW q \in Image, NEW e, LevelSide(e)
    PROVE  ~Side(GridCorner(e[1]), GridCorner(e[2]), q)
<1>1. GridCorner(e[1]) \in Vertex /\ GridCorner(e[2]) \in Vertex
    BY GridCornerType DEF LevelSide
<1>2. GridCorner(e[1])[2] = GridCorner(e[2])[2]
    BY DEF LevelSide, GridCorner, Magnified, Pixel
<1> QED
    BY <1>1, <1>2, Level

RightSide(b, r) == <<Pixel(<<b + 1, r>>), Pixel(<<b + 1, r + 1>>)>>
LeftSide(a, r) == <<Pixel(<<a, r + 1>>), Pixel(<<a, r>>)>>

(* Of the sides of a group the ray crosses those at the two ends of a row. *)
LEMMA CrossedSides ==
    ASSUME Valid, HasPixels, NEW q \in Image, NEW g, Range(g) \subseteq Point,
           NEW a \in Int, NEW b \in Int,
           \A i \in Int : <<i, RowOf(q)>> \in Range(g) <=> a <= i /\ i <= b
    PROVE  Crossed(Pixels(GroupSides(g)), q) =
              {e \in {RightSide(b, RowOf(q))} : a <= b /\ b + 1 > ColumnOf(q)}
              \cup {e \in {LeftSide(a, RowOf(q))} : a <= b /\ a > ColumnOf(q)}
<1> DEFINE S == Range(g)  r == RowOf(q)  k == ColumnOf(q)
           R == RightSide(b, r)  L == LeftSide(a, r)
           T == Crossed(Pixels(GroupSides(g)), q)
<1>0. r \in Int /\ k \in Int
    BY CellOf
<1>1. /\ \A e \in GroupSides(g) : LevelSide(e) \/ UprightSide(e, S)
      /\ \A e : UprightSide(e, S) => e \in GroupSides(g)
    BY GroupSidesAre
<1> HIDE DEF r, k, S
<1>2. ASSUME NEW x \in Int, NEW y \in Int
      PROVE  /\ Side(GridCorner(<<x, y>>), GridCorner(<<x, y + 1>>), q) <=> y = r /\ x > k
             /\ Side(GridCorner(<<x, y + 1>>), GridCorner(<<x, y>>), q) <=> y = r /\ x > k
    BY UprightCrossed DEF r, k
<1>3. \A e \in GroupSides(g) : LevelSide(e) => ~Side(GridCorner(e[1]), GridCorner(e[2]), q)
    BY LevelCrossed
<1>4. \A i \in Int : <<i, r>> \in S <=> a <= i /\ i <= b
    BY DEF S, r
<1>5. ASSUME NEW x \in Int
      PROVE  /\ <<x - 1, r>> \in S /\ <<x, r>> \notin S <=> a <= b /\ x = b + 1
             /\ <<x, r>> \in S /\ <<x - 1, r>> \notin S <=> a <= b /\ x = a
    <2>1. x - 1 \in Int
        OBVIOUS
    <2>2. /\ <<x - 1, r>> \in S <=> a <= x - 1 /\ x - 1 <= b
          /\ <<x, r>> \in S <=> a <= x /\ x <= b
        BY <1>4, <2>1
    <2> QED
        BY <2>2
<1>6. ASSUME NEW e \in GroupSides(g), Side(GridCorner(e[1]), GridCorner(e[2]), q)
      PROVE  \/ <<Pixel(e[1]), Pixel(e[2])>> = R /\ a <= b /\ b + 1 > k
             \/ <<Pixel(e[1]), Pixel(e[2])>> = L /\ a <= b /\ a > k
    <2>1. UprightSide(e, S)
        BY <1>1, <1>3, <1>6
    <2>2. PICK x \in Int, y \in Int :
            \/ /\ e = <<<<x, y>>, <<x, y + 1>>>>
               /\ <<x - 1, y>> \in S /\ <<x, y>> \notin S
            \/ /\ e = <<<<x, y + 1>>, <<x, y>>>>
               /\ <<x, y>> \in S /\ <<x - 1, y>> \notin S
        BY <2>1 DEF UprightSide
    <2>3. y = r /\ x > k
        BY <1>2, <1>6, <2>2
    <2>4. CASE e = <<<<x, y>>, <<x, y + 1>>>> /\ <<x - 1, y>> \in S /\ <<x, y>> \notin S
        <3>1. a <= b /\ x = b + 1
            BY <1>5, <2>3, <2>4
        <3> QED
            BY <2>3, <2>4, <3>1 DEF RightSide
    <2>5. CASE e = <<<<x, y + 1>>, <<x, y>>>> /\ <<x, y>> \in S /\ <<x - 1, y>> \notin S
        <3>1. a <= b /\ x = a
            BY <1>5, <2>3, <2>5
        <3> QED
            BY <2>3, <2>5, <3>1 DEF LeftSide
    <2> QED
        BY <2>2, <2>4, <2>5
<1>7. ASSUME NEW p \in T
      PROVE  (p = R /\ a <= b /\ b + 1 > k) \/ (p = L /\ a <= b /\ a > k)
    <2>1. PICK e \in GroupSides(g) : p = <<Pixel(e[1]), Pixel(e[2])>>
        BY DEF Crossed, Pixels
    <2>2. Side(Magnified(p[1]), Magnified(p[2]), q)
        BY DEF Crossed
    <2>3. Side(GridCorner(e[1]), GridCorner(e[2]), q)
        BY <2>1, <2>2 DEF GridCorner
    <2> QED
        BY <1>6, <2>1, <2>3
<1>8. ASSUME NEW e \in GroupSides(g), Side(GridCorner(e[1]), GridCorner(e[2]), q)
      PROVE  <<Pixel(e[1]), Pixel(e[2])>> \in T
    <2> DEFINE p == <<Pixel(e[1]), Pixel(e[2])>>
    <2>1. p \in Pixels(GroupSides(g))
        BY DEF Pixels
    <2>2. Side(Magnified(p[1]), Magnified(p[2]), q)
        BY <1>8 DEF GridCorner
    <2> HIDE DEF p
    <2>3. p \in T
        BY <2>1, <2>2 DEF Crossed
    <2> QED
        BY <2>3 DEF p
<1>9. ASSUME a <= b, b + 1 > k PROVE R \in T
    <2> DEFINE e == <<<<b + 1, r>>, <<b + 1, r + 1>>>>
    <2>1. b + 1 \in Int
        OBVIOUS
    <2>2. UprightSide(e, S)
        BY <1>0, <1>5, <1>9, <2>1 DEF UprightSide
    <2>3. Side(GridCorner(e[1]), GridCorner(e[2]), q)
        BY <1>0, <1>2, <1>9, <2>1
    <2> QED
        BY <1>1, <1>8, <2>2, <2>3 DEF RightSide
<1>10. ASSUME a <= b, a > k PROVE L \in T
    <2> DEFINE e == <<<<a, r + 1>>, <<a, r>>>>
    <2>1. UprightSide(e, S)
        BY <1>0, <1>5, <1>10 DEF UprightSide
    <2>2. Side(GridCorner(e[1]), GridCorner(e[2]), q)
        BY <1>0, <1>2, <1>10
    <2> QED
        BY <1>1, <1>8, <2>1, <2>2 DEF LeftSide
<1> HIDE DEF R, L, T
<1>11. T = {e \in {R} : a <= b /\ b + 1 > k} \cup {e \in {L} : a <= b /\ a > k}
    BY <1>7, <1>9, <1>10
<1> QED
    BY <1>11 DEF T, R, L, r, k

(* So it crosses an odd number when it starts in one of the cells. *)
LEMMA OddInGroup ==
    ASSUME Valid, HasPixels, NEW q \in Image, NEW g, Range(g) \subseteq Point, RowsJoined(Range(g))
    PROVE  LET T == Crossed(Pixels(GroupSides(g)), q)
           IN  /\ Odd(T) <=> <<ColumnOf(q), RowOf(q)>> \in Range(g)
               /\ Odd(T) => \E e \in GroupSides(g) : e[1] \in Point /\ e[1][1] <= ColumnOf(q)
<1> DEFINE S == Range(g)  r == RowOf(q)  k == ColumnOf(q)
           T == Crossed(Pixels(GroupSides(g)), q)
<1>0. r \in Int /\ k \in Int
    BY CellOf
<1>1. PICK a \in Int, b \in Int : \A i \in Int : <<i, r>> \in S <=> a <= i /\ i <= b
    BY <1>0 DEF RowsJoined
<1> DEFINE R == RightSide(b, r)  L == LeftSide(a, r)
<1>2. T = {e \in {R} : a <= b /\ b + 1 > k} \cup {e \in {L} : a <= b /\ a > k}
    BY <1>1, CrossedSides
<1>3. ASSUME R = L PROVE b + 1 = a
    <2> DEFINE p == <<b + 1, r>>  s == <<a, r + 1>>
    <2>1. p \in Point /\ s \in Point
        BY <1>0 DEF Point
    <2>2. Pixel(p) = Pixel(s)
        BY <1>3 DEF RightSide, LeftSide
    <2>3. p = s
        BY <2>1, <2>2, GridCornersDiffer
    <2> QED
        BY <2>3
<1>4. <<k, r>> \in S <=> a <= k /\ k <= b
    BY <1>0, <1>1
<1> HIDE DEF T, R, L
<1>5. ~Odd({}) /\ IsFiniteSet({})
    BY FS_EmptySet DEF Odd
<1>6. \A e : IsFiniteSet({e}) /\ Odd({e})
    <2> SUFFICES ASSUME NEW e PROVE IsFiniteSet({e}) /\ Odd({e})
        OBVIOUS
    <2>1. {} \cup {e} = {e} /\ e \notin {}
        OBVIOUS
    <2> QED
        BY <1>5, <2>1, OddStep
<1>7. CASE a > b \/ b + 1 <= k
    <2>1. T = {}
        BY <1>0, <1>2, <1>7
    <2> QED
        BY <1>0, <1>4, <1>5, <1>7, <2>1 DEF T
<1>8. CASE a <= k /\ k <= b
    <2>1. T = {R}
        BY <1>0, <1>2, <1>8
    <2>2. Odd(T)
        BY <1>6, <2>1
    <2> DEFINE e == <<<<a, r + 1>>, <<a, r>>>>
    <2>3. UprightSide(e, S)
        <3>1. <<a, r>> \in S
            BY <1>0, <1>1, <1>8
        <3>2. a - 1 \in Int /\ <<a - 1, r>> \notin S
            BY <1>0, <1>1, <1>8
        <3> QED
            BY <1>0, <3>1, <3>2 DEF UprightSide
    <2>4. e \in GroupSides(g)
        BY <2>3, GroupSidesAre
    <2>5. e[1] \in Point /\ e[1][1] <= k
        BY <1>0, <1>8 DEF Point
    <2> QED
        BY <1>4, <1>8, <2>2, <2>4, <2>5 DEF T
<1>9. CASE a <= b /\ k < a
    <2>1. T = {R} \cup {L} /\ R # L
        BY <1>0, <1>2, <1>3, <1>9
    <2>2. IsFiniteSet({R}) /\ Odd({R}) /\ L \notin {R}
        BY <1>6, <2>1
    <2>3. ~Odd({R} \cup {L})
        BY <2>2, OddStep
    <2> QED
        BY <1>0, <1>4, <1>9, <2>1, <2>3 DEF T
<1> QED
    BY <1>0, <1>7, <1>8, <1>9

OutlinePiece(g) == Piece(GridPos(g), Magnify(GroupOutline(g)))

(* A pixel is in the piece of a group when it belongs to a cell of the group. *)
LEMMA ClipOfGroup ==
    ASSUME Valid, HasPixels, NEW q \in Image, NEW g, HasRing(g),
           Range(g) \subseteq Point, RowsJoined(Range(g))
    PROVE  q \in ClipPiece(OutlinePiece(g)) <=> <<ColumnOf(q), RowOf(q)>> \in Range(g)
<1> DEFINE o == GroupOutline(g)  M == Magnify(o)
           E == Range(Segments(g))
<1>1. PICK n, Q : /\ Corners(Q, n) /\ Ring(Q, n) = GroupSides(g)
                  /\ Pairs(Segments(g), n, Pixels(Ring(Q, n)))
    BY DEF HasRing
<1>2. HasOutline(g)
    BY <1>1, RingOfPixels
<1>3. PICK m, P : Surrounds(Segments(g), m, P)
    BY <1>2 DEF HasOutline
<1>4. Outlines(o, m, g)
    BY <1>3, OutlineMeetsCornersOnce
<1>5. /\ m \in Nat /\ DOMAIN o = 1 .. m /\ Len(o) = m
      /\ {<<o[k], o[IF k = m THEN 1 ELSE k + 1]>> : k \in 1 .. m} = E
    BY <1>4 DEF Outlines
<1>6. E = Pixels(GroupSides(g)) /\ Segments(g) \in Seq((Int \X Int) \X (Int \X Int))
    BY <1>1 DEF Pairs
<1>7. E \subseteq (Int \X Int) \X (Int \X Int)
    BY <1>6 DEF Range
<1> HIDE DEF o, E
<1>8. ASSUME NEW k \in 1 .. m PROVE o[k] \in Int \X Int
    <2>1. <<o[k], o[IF k = m THEN 1 ELSE k + 1]>> \in E
        BY <1>5
    <2> QED
        BY <1>7, <2>1
<1>9. ASSUME NEW e \in E PROVE \E k \in 1 .. m : e[1] = o[k]
    <2>1. PICK k \in 1 .. m : e = <<o[k], o[IF k = m THEN 1 ELSE k + 1]>>
        BY <1>5
    <2> QED
        BY <2>1
<1>10. /\ DOMAIN M = 1 .. m /\ Len(M) = m
       /\ \A k \in 1 .. m : M[k] = Magnified(o[k]) /\ M[k] \in Vertex
    BY <1>5, <1>8, MagnifiedType DEF Magnify
<1> HIDE DEF M
<1>11. /\ Range(M) \subseteq Vertex /\ DOMAIN M = 1 .. Len(M) /\ Len(M) \in Nat
       /\ \A k \in 1 .. m : Magnified(o[k]) \in Range(M)
    BY <1>5, <1>10 DEF Range
<1> DEFINE odd == Odd(Crossings(M, Centre(q[1]), Centre(q[2])))
<1>12. odd <=> Odd(Crossed(E, q))
    <2>1. Odd(Crossings(Magnify(o), Centre(q[1]), Centre(q[2])))
             <=> Odd(Crossed(Range(Segments(g)), q))
        BY <1>4, <1>8, CrossingsOfOutline
    <2> QED
        BY <2>1 DEF M, E
<1>13. LET T == Crossed(Pixels(GroupSides(g)), q)
       IN  /\ Odd(T) <=> <<ColumnOf(q), RowOf(q)>> \in Range(g)
           /\ Odd(T) => \E e \in GroupSides(g) : e[1] \in Point /\ e[1][1] <= ColumnOf(q)
    BY OddInGroup
<1> HIDE DEF odd
<1>14. odd => \E v \in Range(M) : v[1] <= Centre(q[1])
    <2> SUFFICES ASSUME odd PROVE \E v \in Range(M) : v[1] <= Centre(q[1])
        OBVIOUS
    <2>1. PICK e \in GroupSides(g) : e[1] \in Point /\ e[1][1] <= ColumnOf(q)
        BY <1>6, <1>12, <1>13
    <2>2. GridCorner(e[1])[1] <= Centre(q[1])
        BY <2>1, GridCornerType
    <2>3. <<Pixel(e[1]), Pixel(e[2])>> \in E
        BY <1>6 DEF Pixels
    <2>4. PICK k \in 1 .. m : Pixel(e[1]) = o[k]
        BY <1>9, <2>3
    <2>5. GridCorner(e[1]) \in Range(M)
        BY <1>11, <2>4 DEF GridCorner
    <2> QED
        BY <2>2, <2>5
<1>15. q \in ClipPiece(Piece(GridPos(g), M)) <=> odd
    BY <1>11, <1>14, ClipIsInside DEF odd
<1> QED
    BY <1>6, <1>12, <1>13, <1>15 DEF OutlinePiece, M, o

(* A function can be applied any number of times. *)
Iterates(f, G, d, n) == f[0] = d /\ \A k \in 1 .. n : f[k] = G[f[k - 1]]

LEMMA Iterated ==
    ASSUME NEW D, NEW G \in [D -> D], NEW d \in D, NEW n \in Nat
    PROVE  \E f \in [0 .. n -> D] : Iterates(f, G, d, n)
<1> USE DEF Iterates
<1> DEFINE Goes(f, m) == Iterates(f, G, d, m)
           T == {m \in Nat : \A f \in [0 .. m -> D] : ~Goes(f, m)}
<1> SUFFICES ASSUME n \in T PROVE FALSE
    OBVIOUS
<1>1. PICK m \in T : \A k \in T : m <= k
    <2>1. T \subseteq Nat /\ T # {}
        OBVIOUS
    <2> HIDE DEF T
    <2> QED
        BY <2>1, Least
<1>2. m # 0
    <2> DEFINE f == [k \in 0 .. 0 |-> d]
    <2>1. f \in [0 .. 0 -> D] /\ Goes(f, 0)
        OBVIOUS
    <2> QED
        BY <2>1
<1>3. m - 1 \in Nat /\ m - 1 \notin T
    BY <1>1, <1>2
<1>4. PICK f \in [0 .. m - 1 -> D] : Goes(f, m - 1)
    BY <1>3
<1> DEFINE h == [k \in 0 .. m |-> IF k < m THEN f[k] ELSE G[f[m - 1]]]
<1>5. m - 1 \in 0 .. m - 1 /\ \A k \in 0 .. m : k < m => k \in 0 .. m - 1
    BY <1>1, <1>2
<1>6. h \in [0 .. m -> D]
    <2>1. f[m - 1] \in D
        BY <1>4, <1>5
    <2>2. \A k \in 0 .. m : (IF k < m THEN f[k] ELSE G[f[m - 1]]) \in D
        BY <1>4, <1>5, <2>1
    <2> QED
        BY <2>2
<1>7. h[0] = d
    BY <1>1, <1>2, <1>4
<1>8. ASSUME NEW k \in 1 .. m PROVE h[k] = G[h[k - 1]]
    <2>1. k - 1 \in 0 .. m /\ k - 1 < m /\ h[k - 1] = f[k - 1]
        BY <1>1
    <2>2. CASE k < m
        <3>1. k \in 1 .. m - 1
            BY <1>1, <2>2
        <3> QED
            BY <1>4, <2>1, <2>2, <3>1
    <2>3. CASE k = m
        BY <1>1, <2>1, <2>3
    <2> QED
        BY <1>1, <2>2, <2>3
<1>9. Goes(h, m)
    BY <1>7, <1>8
<1> HIDE DEF h
<1> QED
    BY <1>1, <1>6, <1>9

(* When the cells have no width or no height, nor have the outlines. *)
LEMMA ClipOfNothing ==
    ASSUME Valid, CellW = 0 \/ CellH = 0, NEW g, HasRing(g), Returns(Walk(Segments(g))) # {}
    PROVE  ClipPiece(OutlinePiece(g)) = {}
<1> DEFINE s == Segments(g)
           Latest(p) == CHOOSE i \in DOMAIN s : /\ s[i][1] = p
                           /\ \A k \in DOMAIN s : s[k][1] = p => k <= i
           IsWalk(f) == f = [k \in 0 .. Len(s) |-> IF k = 0 THEN s[1][1]
                                                   ELSE s[Latest(f[k - 1])][2]]
           at == Walk(s)
<1>1. PICK n, Q : /\ Corners(Q, n) /\ Ring(Q, n) = GroupSides(g)
                  /\ Pairs(Segments(g), n, Pixels(Ring(Q, n)))
    BY DEF HasRing
<1>2. /\ n \in Nat /\ n # 0 /\ Q \in [0 .. n - 1 -> Point]
      /\ Len(s) = n /\ DOMAIN s = 1 .. n /\ Range(s) = Pixels(Ring(Q, n))
    BY <1>1 DEF Corners, Pairs
<1> HIDE DEF s
<1> DEFINE D == {Pixel(Q[i]) : i \in 0 .. n - 1}
<1>3. \A i \in 0 .. n - 1 : Following(i, n) \in 0 .. n - 1
    BY <1>2 DEF Following
<1>4. ASSUME NEW i \in 1 .. n PROVE s[i][1] \in D /\ s[i][2] \in D
    <2>1. s[i] \in Pixels(Ring(Q, n))
        BY <1>2 DEF Range
    <2>2. PICK e \in Ring(Q, n) : s[i] = <<Pixel(e[1]), Pixel(e[2])>>
        BY <2>1 DEF Pixels
    <2>3. PICK j \in 0 .. n - 1 : e = <<Q[j], Q[Following(j, n)]>>
        BY <2>2 DEF Ring
    <2> QED
        BY <1>3, <2>2, <2>3
<1>5. ASSUME NEW p \in D PROVE s[Latest(p)][2] \in D
    <2>1. PICK i \in 0 .. n - 1 : p = Pixel(Q[i])
        OBVIOUS
    <2> HIDE DEF D
    <2> DEFINE e == <<Q[i], Q[Following(i, n)]>>
    <2>2. <<Pixel(e[1]), Pixel(e[2])>> \in Range(s)
        <3>1. e \in Ring(Q, n)
            BY DEF Ring
        <3> HIDE DEF e
        <3> QED
            BY <1>2, <3>1 DEF Pixels
    <2>3. PICK k \in 1 .. n : s[k][1] = p
        BY <1>2, <2>1, <2>2 DEF Range
    <2> DEFINE T == {j \in 1 .. n : s[j][1] = p}
    <2>4. T \subseteq 0 .. n /\ T # {}
        BY <2>3
    <2>5. PICK m \in T : \A j \in T : j <= m
        <3> HIDE DEF T
        <3> QED
            BY <1>2, <2>4, Greatest
    <2>6. \E m1 \in DOMAIN s : /\ s[m1][1] = p
                               /\ \A j \in DOMAIN s : s[j][1] = p => j <= m1
        BY <1>2, <2>5
    <2>7. Latest(p) \in 1 .. n
        BY <1>2, <2>6
    <2> HIDE DEF Latest
    <2> QED
        BY <1>4, <2>7
<1> HIDE DEF Latest, D
<1> DEFINE G == [p \in D |-> s[Latest(p)][2]]
<1>6. G \in [D -> D] /\ s[1][1] \in D
    BY <1>2, <1>4, <1>5
<1>7. \E f : IsWalk(f)
    <2> DEFINE d == s[1][1]
    <2> HIDE DEF G, d
    <2>0. G \in [D -> D] /\ d \in D
        BY <1>6 DEF d
    <2>1. PICK f \in [0 .. n -> D] : Iterates(f, G, d, n)
        BY <1>2, <2>0, Iterated
    <2>2. ASSUME NEW k \in 0 .. n
          PROVE  f[k] = IF k = 0 THEN s[1][1] ELSE s[Latest(f[k - 1])][2]
        <3>1. k # 0 => k \in 1 .. n /\ k - 1 \in 0 .. n
            BY <1>2
        <3> QED
            BY <2>1, <3>1 DEF Iterates, G, d
    <2>3. IsWalk(f)
        BY <1>2, <2>1, <2>2
    <2> QED
        BY <2>3
<1>8. at = CHOOSE f : IsWalk(f)
    BY DEF Walk, Latest
<1>9. IsWalk(at)
    <2> HIDE DEF IsWalk, at
    <2> QED
        BY <1>7, <1>8
<1>10. /\ DOMAIN at = 0 .. n
       /\ \A k \in 0 .. n : at[k] = IF k = 0 THEN s[1][1] ELSE s[Latest(at[k - 1])][2]
    <2> HIDE DEF at
    <2> QED
        BY <1>2, <1>9
<1> HIDE DEF at, IsWalk, G
<1>11. \A k \in 0 .. n : at[k] \in D
    <2> DEFINE T == {k \in 0 .. n : at[k] \notin D}
    <2> SUFFICES ASSUME T # {} PROVE FALSE
        OBVIOUS
    <2>1. PICK m \in T : \A k \in T : m <= k
        <3>1. T \subseteq Nat
            BY <1>2
        <3> HIDE DEF T
        <3> QED
            BY <3>1, Least
    <2>2. m # 0
        BY <1>2, <1>6, <1>10
    <2>3. m - 1 \in 0 .. n /\ m - 1 \notin T
        BY <1>2, <2>1, <2>2
    <2>4. at[m - 1] \in D /\ at[m] = s[Latest(at[m - 1])][2]
        BY <1>10, <2>2, <2>3
    <2> QED
        BY <1>5, <2>4
<1> DEFINE m == CHOOSE i \in Returns(at) : \A k \in Returns(at) : i <= k
<1>12. Returns(at) # {} /\ Returns(at) \subseteq 1 .. n
    BY <1>2, <1>10 DEF Returns, at, s
<1>13. m \in 1 .. n
    <2>1. PICK i \in Returns(at) : \A k \in Returns(at) : i <= k
        <3>1. Returns(at) \subseteq Nat
            BY <1>2, <1>12
        <3> QED
            BY <1>12, <3>1, Least
    <2>2. m \in Returns(at)
        BY <2>1
    <2> HIDE DEF m
    <2> QED
        BY <1>12, <2>2
<1>14. GroupOutline(g) = [k \in 1 .. m |-> at[k - 1]]
    BY DEF GroupOutline, at, s
<1> HIDE DEF m
<1> DEFINE M == Magnify(GroupOutline(g))
<1>15. Range(M) \subseteq {Magnified(Pixel(Q[i])) : i \in 0 .. n - 1}
    <2>1. ASSUME NEW k \in 1 .. m PROVE \E i \in 0 .. n - 1 : at[k - 1] = Pixel(Q[i])
        <3>1. k - 1 \in 0 .. n
            BY <1>2, <1>13
        <3> QED
            BY <1>11, <3>1 DEF D
    <2>2. DOMAIN M = 1 .. m /\ \A k \in 1 .. m : M[k] = Magnified(at[k - 1])
        BY <1>14 DEF Magnify
    <2> HIDE DEF M
    <2> QED
        BY <2>1, <2>2 DEF Range
<1> HIDE DEF M
<1>16. Unit \in Nat /\ Unit > 0
    BY UnitIsEven
<1>17. ASSUME NEW v \in Range(M)
       PROVE  (CellW = 0 => v[1] = 0) /\ (CellH = 0 => v[2] = 0)
    <2>1. PICK i \in 0 .. n - 1 : v = Magnified(Pixel(Q[i]))
        BY <1>15
    <2>2. Q[i][1] \in Int /\ Q[i][2] \in Int
        BY <1>2 DEF Point
    <2>3. v[1] = Unit * (Q[i][1] * CellW) /\ v[2] = Unit * (Q[i][2] * CellH)
        BY <2>1 DEF Magnified, Pixel
    <2>4. Unit * (Q[i][1] * 0) = 0 /\ Unit * (Q[i][2] * 0) = 0
        BY <1>16, <2>2
    <2> QED
        BY <2>3, <2>4
<1>18. /\ Within({0}, size[1]) = {} /\ Within({}, size[1]) = {}
       /\ Within({0}, size[2]) = {} /\ Within({}, size[2]) = {}
    <2>1. \A k \in Nat : ~(0 > Unit * k)
        BY <1>16
    <2>2. size[1] \in Nat /\ size[2] \in Nat
        BY DEF Valid, Config
    <2> QED
        BY <2>1, <2>2 DEF Within
<1>19. /\ CellW = 0 => {v[1] : v \in Range(M)} \in {{}, {0}}
       /\ CellH = 0 => {v[2] : v \in Range(M)} \in {{}, {0}}
    BY <1>17
<1>20. OutlinePiece(g).polygon = M
    BY DEF OutlinePiece, Piece, M
<1> QED
    BY <1>18, <1>19, <1>20 DEF ClipPiece

(***************************************************************************)
(* All ways to cut.                                                        *)
(***************************************************************************)
NoneOf(S, q) == \A s \in S : q \notin ClipPiece(s)
Shared(S, q) == IF q \in PixelsCut THEN OneOf(S, q) ELSE NoneOf(S, q)
PixelsShared(S) == (mode = "puzzle" => TabsFit) => \A q \in Image : Shared(S, q)

(* The count the property makes. *)
LEMMA CountOfOne ==
    ASSUME NEW S, NEW q
    PROVE  LET clips == {<<p, ClipPiece(p) \ Unsure(p)>> : p \in S}
               owners == {k \in clips : q \in k[2]}
           IN  /\ OneOf(S, q) => Cardinality(owners) <= 1
               /\ OneOf(S, q) /\ q \notin UNION {Unsure(p) : p \in S} => Cardinality(owners) = 1
               /\ NoneOf(S, q) => owners = {}
<1> DEFINE clips == {<<p, ClipPiece(p) \ Unsure(p)>> : p \in S}
           T == {k \in clips : q \in k[2]}
           Sure == {s \in S : q \in ClipPiece(s) /\ q \notin Unsure(s)}
<1>1. T = {<<p, ClipPiece(p) \ Unsure(p)>> : p \in Sure}
    OBVIOUS
<1> HIDE DEF T
<1>2. ASSUME OneOf(S, q) PROVE \E p \in S : Sure \subseteq {p} /\ q \in ClipPiece(p)
    BY <1>2 DEF OneOf
<1>3. ASSUME NEW p, Sure = {p} PROVE Cardinality(T) = 1
    <2>1. T = {<<p, ClipPiece(p) \ Unsure(p)>>}
        BY <1>1, <1>3
    <2> QED
        BY <2>1, FS_Singleton
<1>4. ASSUME Sure = {} PROVE T = {} /\ Cardinality(T) = 0
    <2>1. T = {}
        BY <1>1, <1>4
    <2> QED
        BY <2>1, FS_EmptySet
<1>5. ASSUME OneOf(S, q) PROVE Cardinality(T) <= 1
    <2>1. PICK p \in S : Sure \subseteq {p}
        BY <1>2, <1>5
    <2>2. Sure = {} \/ Sure = {p}
        BY <2>1
    <2> HIDE DEF Sure
    <2> QED
        BY <1>3, <1>4, <2>2
<1>6. ASSUME OneOf(S, q), q \notin UNION {Unsure(p) : p \in S} PROVE Cardinality(T) = 1
    <2>1. PICK p \in S : Sure \subseteq {p} /\ q \in ClipPiece(p)
        BY <1>2, <1>6
    <2>2. Sure = {p}
        BY <1>6, <2>1
    <2> HIDE DEF Sure
    <2> QED
        BY <1>3, <2>2
<1>7. ASSUME NoneOf(S, q) PROVE T = {}
    BY <1>4, <1>7 DEF NoneOf
<1> QED
    BY <1>5, <1>6, <1>7 DEF T

(* Each way to cut, in a grid with a column and a row at least. *)
LEMMA WholeImage ==
    ASSUME Valid, mode # "merge", ~(mode = "geometry" /\ shape = "unknown")
    PROVE  PixelsCut = Image
BY DEF PixelsCut, Image

LEMMA GridShares ==
    ASSUME Valid, mode = "grid"
    PROVE  PixelsShared({LET x == 40 * c[1] * W   y == 40 * c[2] * H
                             x1 == x + 40 * W     y1 == y + 40 * H
                         IN  Piece(c, <<<<x, y>>, <<x1, y>>, <<x1, y1>>, <<x, y1>>>>) : c \in Cell})
<1> DEFINE square(c) == LET x == 40 * c[1] * W   y == 40 * c[2] * H
                            x1 == x + 40 * W     y1 == y + 40 * H
                        IN  <<<<x, y>>, <<x1, y>>, <<x1, y1>>, <<x, y1>>>>
           F == [c \in Cell |-> {square(c)}]
           S == {Piece(c, square(c)) : c \in Cell}
<1>1. ASSUME NEW c \in Cell PROVE TileOfCell({square(c)}, c)
    BY CellBounds, TileOfOne DEF TileOfCell
<1> HIDE DEF square
<1>2. \A c \in Cell : TileOfCell(F[c], c)
    BY <1>1
<1>3. UNION {{Piece(c, p) : p \in F[c]} : c \in Cell} = S
    OBVIOUS
<1> HIDE DEF F
<1>4. ASSUME NEW q \in Image PROVE Shared(S, q)
    <2>1. OneOf(UNION {{Piece(c, p) : p \in F[c]} : c \in Cell}, q)
        BY <1>2, CellsTile
    <2> QED
        BY <1>3, <2>1, WholeImage DEF Shared
<1>5. PixelsShared(S)
    BY <1>4 DEF PixelsShared
<1> QED
    BY <1>5 DEF S, square

LEMMA GeometryShares ==
    ASSUME Valid, mode = "geometry", shape \in Shape \cup {"mixed", "unknown"},
           NEW s \in [Cell -> IF shape = "mixed" THEN Shape ELSE {shape}]
    PROVE  PixelsShared(UNION {{Piece(c, p) : p \in CellPolygons(s[c], c)} : c \in Cell})
<1> DEFINE F == [c \in Cell |-> CellPolygons(s[c], c)]
           S == UNION {{Piece(c, p) : p \in CellPolygons(s[c], c)} : c \in Cell}
<1>1. S = UNION {{Piece(c, p) : p \in F[c]} : c \in Cell}
    OBVIOUS
<1>2. ASSUME shape # "unknown", NEW q \in Image PROVE Shared(S, q)
    <2>1. \A c \in Cell : s[c] \in Shape
        BY <1>2
    <2>2. \A c \in Cell : TileOfCell(F[c], c)
        BY <2>1, CellPolygonsTile
    <2> HIDE DEF F
    <2>3. OneOf(UNION {{Piece(c, p) : p \in F[c]} : c \in Cell}, q)
        BY <2>2, CellsTile
    <2> QED
        BY <1>1, <1>2, <2>3, WholeImage DEF Shared
<1>3. ASSUME shape = "unknown", NEW q \in Image PROVE Shared(S, q)
    <2>1. \A c \in Cell : CellPolygons(s[c], c) = {}
        <3> SUFFICES ASSUME NEW c \in Cell PROVE CellPolygons("unknown", c) = {}
            BY <1>3
        <3> QED
            BY DEF CellPolygons
    <2>2. S = {}
        BY <2>1
    <2>3. PixelsCut = {}
        BY <1>3 DEF PixelsCut
    <2> QED
        BY <2>2, <2>3 DEF Shared, NoneOf
<1> HIDE DEF S
<1>4. PixelsShared(S)
    BY <1>2, <1>3 DEF PixelsShared
<1> QED
    BY <1>4 DEF S

LEMMA ParallelogramsShare ==
    ASSUME Valid, mode = "geometry", shape = "parallelograms"
    PROVE  PixelsShared(UNION {IF r % 2 = 0 THEN Sheared(r, 10 * W, 0) ELSE Sheared(r, 0, 10 * W)
                               : r \in 0 .. Rows - 1})
BY ShearedTile, WholeImage DEF PixelsShared, Shared

LEMMA PuzzleShares ==
    ASSUME Valid, TabTypes, tabs # None, mode = "puzzle"
    PROVE  PixelsShared({Piece(c, Flat(Top(c)) \o Flat(Right(c)) \o Flat(Bottom(c)) \o Flat(Left(c)))
                         : c \in Cell})
BY JigsawTile, WholeImage DEF PixelsShared, Shared, TabsKept, Tabbed

(* In a merge a pixel has one owner, the group of its cell, unless the cell *)
(* is lost or the pixel is beyond the last cell.                            *)
LEMMA CellsOfPixels ==
    ASSUME Valid, HasPixels, NEW q \in Image, mode = "merge"
    PROVE  q \in PixelsCut <=> /\ <<ColumnOf(q), RowOf(q)>> \in Cell
                               /\ ~Lost(<<ColumnOf(q), RowOf(q)>>)
<1>1. /\ ColumnOf(q) \in Nat /\ RowOf(q) \in Nat /\ q[1] \in Nat /\ q[2] \in Nat
      /\ \A x \in Int : x * CellW <= q[1] <=> x <= ColumnOf(q)
      /\ \A y \in Int : y * CellH <= q[2] <=> y <= RowOf(q)
      /\ q = <<q[1], q[2]>>
    BY CellOf DEF Image
<1>2. Cols \in Nat /\ Rows \in Nat /\ CellW \in Nat /\ CellH \in Nat
    BY CellSizes DEF Valid
<1>3. /\ Cols * CellW <= q[1] <=> Cols <= ColumnOf(q)
      /\ Rows * CellH <= q[2] <=> Rows <= RowOf(q)
      /\ Cols * CellW \in Nat /\ Rows * CellH \in Nat
    BY <1>1, <1>2
<1>4. q \in (0 .. Cols * CellW - 1) \X (0 .. Rows * CellH - 1)
        <=> <<ColumnOf(q), RowOf(q)>> \in Cell
    <2>1. q[1] \in 0 .. Cols * CellW - 1 <=> ColumnOf(q) \in 0 .. Cols - 1
        BY <1>1, <1>2, <1>3
    <2>2. q[2] \in 0 .. Rows * CellH - 1 <=> RowOf(q) \in 0 .. Rows - 1
        BY <1>1, <1>2, <1>3
    <2> QED
        BY <1>1, <2>1, <2>2 DEF Cell
<1> QED
    BY <1>4 DEF PixelsCut, ColumnOf, RowOf

LEMMA MergeShares ==
    ASSUME Valid, TypeInv, GroupsPlaced, CellsAccountedFor, mode = "merge",
           Cell \subseteq Used \cup passed,
           \A g \in groups : Returns(Walk(Segments(g))) # {}
    PROVE  PixelsShared({OutlinePiece(g) : g \in groups})
<1> DEFINE S == {OutlinePiece(g) : g \in groups}
<1>1. \A g \in groups : HasRing(g)
    BY GroupsHaveRings DEF Valid
<1>2. CellW \in Nat /\ CellH \in Nat /\ Cols \in Nat /\ Rows \in Nat
    BY CellSizes DEF Valid
<1>3. ASSUME NEW q \in Image, CellW = 0 \/ CellH = 0 PROVE Shared(S, q)
    <2>1. \A g \in groups : ClipPiece(OutlinePiece(g)) = {}
        BY <1>1, <1>3, ClipOfNothing
    <2>2. q \notin PixelsCut
        <3>1. Cols * 0 = 0 /\ Rows * 0 = 0
            BY <1>2
        <3> QED
            BY <1>3, <3>1 DEF PixelsCut
    <2> QED
        BY <2>1, <2>2 DEF Shared, NoneOf
<1>4. ASSUME NEW q \in Image, HasPixels PROVE Shared(S, q)
    <2> DEFINE d == <<ColumnOf(q), RowOf(q)>>
    <2>1. ASSUME NEW g \in groups PROVE q \in ClipPiece(OutlinePiece(g)) <=> d \in Range(g)
        <3>1. PICK c \in Point : g = <<c>> \/ \E i \in 1 .. 6 : g = Place(i, c)
            BY DEF GroupsPlaced
        <3>2. Range(g) \subseteq Point /\ RowsJoined(Range(g))
            BY <3>1, RowsOfGroup
        <3> QED
            BY <1>1, <1>4, <3>2, ClipOfGroup
    <2>2. q \in PixelsCut <=> d \in Cell /\ ~Lost(d)
        BY <1>4, CellsOfPixels
    <2> HIDE DEF d
    <2>3. q \in PixelsCut <=> d \in Used
        <3>1. Used \subseteq Cell
            BY DEF Used, TypeInv, GroupShape, Range
        <3> QED
            BY <2>2, <3>1 DEF Lost
    <2>4. ASSUME d \in Used PROVE OneOf(S, q)
        <3>1. PICK g \in groups : d \in Range(g)
            BY <2>4 DEF Used
        <3>2. \A h \in groups : d \in Range(h) => h = g
            BY <3>1 DEF CellsAccountedFor
        <3>3. \A h \in groups : q \in ClipPiece(OutlinePiece(h)) <=> OutlinePiece(h) = OutlinePiece(g)
            BY <2>1, <3>1, <3>2
        <3> QED
            BY <3>3 DEF OneOf
    <2>5. ASSUME d \notin Used PROVE NoneOf(S, q)
        BY <2>1, <2>5 DEF NoneOf, Used
    <2> QED
        BY <2>3, <2>4, <2>5 DEF Shared
<1> HIDE DEF S
<1>5. \A q \in Image : Shared(S, q)
    BY <1>2, <1>3, <1>4 DEF HasPixels
<1>6. PixelsShared(S)
    BY <1>5 DEF PixelsShared
<1> QED
    BY <1>6 DEF S

(***************************************************************************)
(* The invariant of the theorem.                                           *)
(***************************************************************************)
TilesInv ==
    /\ mode = "geometry" => shape \in Shape \cup {"mixed", "unknown"}
    /\ pc = "done" => PixelsShared(pieces)

LEMMA TilesInit == Init => TilesInv
BY DEF Init, TilesInv

(* Nothing changes the pixels of pieces once they are cut. *)
LEMMA ClipKept ==
    ASSUME UNCHANGED <<size, grid>>, NEW p
    PROVE  ClipPiece(p)' = ClipPiece(p)
BY DEF ClipPiece, Within, PointInPolygon, Centre, Unit, Cols, Rows

LEMMA SharedKept ==
    ASSUME UNCHANGED <<config, size, groups, passed>>, PixelsShared(pieces')
    PROVE  PixelsShared(pieces)'
<1> USE DEF config
<1>1. \A p : ClipPiece(p)' = ClipPiece(p)
    BY ClipKept
<1>2. UNCHANGED <<Image, PixelsCut, TabsFit, mode>>
    BY DEF Image, PixelsCut, TabsFit, W, H, CellW, CellH, Cols, Rows, Lost, Used
<1>3. \A q : Shared(pieces, q)' = Shared(pieces', q)
    BY <1>1, <1>2 DEF Shared, OneOf, NoneOf
<1> QED
    BY <1>2, <1>3 DEF PixelsShared

LEMMA TilesStep ==
    TypeInv /\ OutlineInv /\ CellsAccountedFor /\ TilesInv /\ [Next]_vars => TilesInv'
<1> SUFFICES ASSUME TypeInv, OutlineInv, CellsAccountedFor, TilesInv, [Next]_vars
             PROVE  TilesInv'
    OBVIOUS
<1> USE DEF config
<1>0. pc = "slice" => Valid
    BY DEF TypeInv, Valid
<1>1. ASSUME UNCHANGED config, pc' # "done" PROVE TilesInv'
    BY <1>1 DEF TilesInv
<1>2. ASSUME UNCHANGED <<config, size, groups, passed>>, PixelsShared(pieces') PROVE TilesInv'
    BY <1>2, SharedKept DEF TilesInv
<1>3. CASE ResizeIfNeeded
    BY <1>1, <1>3 DEF ResizeIfNeeded
<1>4. CASE Grid
    BY <1>0, <1>2, <1>4, GridShares DEF Grid, Cut
<1>5. ASSUME NEW c \in Cell, PlaceGroup(c) PROVE TilesInv'
    BY <1>1, <1>5 DEF PlaceGroup
<1>6. CASE OutlineGroups
    <2>1. CASE \A g \in groups : Returns(Walk(Segments(g))) # {}
        <3>1. pieces' = {OutlinePiece(g) : g \in groups}
            BY <1>6, <2>1 DEF OutlineGroups, OutlinePiece, Magnify, Magnified
        <3>2. PixelsShared({OutlinePiece(g) : g \in groups})
            BY <1>0, <1>6, <2>1, MergeShares DEF OutlineGroups, OutlineInv
        <3> QED
            BY <1>2, <1>6, <3>1, <3>2 DEF OutlineGroups
    <2>2. CASE ~\A g \in groups : Returns(Walk(Segments(g))) # {}
        BY <1>1, <1>6, <2>2 DEF OutlineGroups
    <2> QED
        BY <2>1, <2>2
<1>7. CASE Geometry
    <2>1. PICK s \in [Cell -> IF shape = "mixed" THEN Shape ELSE {shape}] :
            Cut("geometry", UNION {{Piece(c, p) : p \in CellPolygons(s[c], c)} : c \in Cell})
        BY <1>7 DEF Geometry
    <2>2. PixelsShared(UNION {{Piece(c, p) : p \in CellPolygons(s[c], c)} : c \in Cell})
        BY <1>0, <2>1, GeometryShares DEF Cut, TilesInv
    <2> QED
        BY <1>2, <2>1, <2>2 DEF Cut
<1>8. CASE Parallelograms
    BY <1>0, <1>2, <1>8, ParallelogramsShare DEF Parallelograms, Cut
<1>9. CASE DrawTabs
    BY <1>1, <1>9 DEF DrawTabs
<1>10. CASE Puzzle
    BY <1>0, <1>2, <1>10, PuzzleShares DEF Puzzle, Cut, TypeInv
<1>11. CASE UNCHANGED vars
    <2>1. CASE pc = "done"
        BY <1>2, <1>11, <2>1 DEF vars, TilesInv
    <2>2. CASE pc # "done"
        BY <1>1, <1>11, <2>2 DEF vars
    <2> QED
        BY <2>1, <2>2
<1> QED
    BY <1>3, <1>4, <1>5, <1>6, <1>7, <1>8, <1>9, <1>10, <1>11 DEF Next

(* No pixel of an image is surely in two pieces, and each that no piece is  *)
(* unsure about is in one, whatever the image, the way to cut it, the grid, *)
(* the shapes, the groups and the tabs, except for the pixels PixelsCut     *)
(* leaves out and jigsaws whose tabs do not fit.                            *)
THEOREM PixelsAreInOnePiece == Spec => []PixelInOnePiece
<1>1. TilesInv => PixelInOnePiece
    <2> DEFINE clips == {<<p, ClipPiece(p) \ Unsure(p)>> : p \in pieces}
               unsure == UNION {Unsure(p) : p \in pieces}
               Owners(q) == {k \in clips : q \in k[2]}
    <2> SUFFICES ASSUME TilesInv, pc = "done", mode = "puzzle" => TabsFit,
                        NEW q \in Image
                 PROVE  IF q \in PixelsCut \ unsure THEN Cardinality(Owners(q)) = 1
                        ELSE IF q \in PixelsCut THEN Cardinality(Owners(q)) <= 1
                        ELSE Owners(q) = {}
        BY DEF PixelInOnePiece
    <2>1. Shared(pieces, q)
        BY DEF TilesInv, PixelsShared
    <2>2. /\ OneOf(pieces, q) => Cardinality(Owners(q)) <= 1
          /\ OneOf(pieces, q) /\ q \notin unsure => Cardinality(Owners(q)) = 1
          /\ NoneOf(pieces, q) => Owners(q) = {}
        BY CountOfOne
    <2> HIDE DEF Owners, unsure
    <2> QED
        BY <2>1, <2>2 DEF Shared
<1> QED
    BY <1>1, TypeIsInvariant, OutlineInit, OutlineStep, CellsAreAccountedFor,
       TilesInit, TilesStep, PTL DEF Spec
=============================================================================
