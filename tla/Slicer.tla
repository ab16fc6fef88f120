------------------------------- MODULE Slicer --------------------------------
(* How the worker cuts an image into pieces: the scaling down, then one of  *)
(* four ways to cut. Lengths are exact, Unit of them to a pixel, so that    *)
(* every fraction the code takes of a cell is whole; Unsure has the pixels  *)
(* the rounding of its floats can move. A curve becomes 2 segments instead  *)
(* of 16; ids, which number the pieces, are left out.                       *)
EXTENDS Integers, Sequences, FiniteSets, SequencesExt

CONSTANTS
    Images,         \* sizes <<width, height>> of images
    Grids,          \* <<cols, rows>> as configured, unchecked
    MaxDim,         \* the side an image is scaled down to
    HalfTab,        \* half of tab_size, in 40ths: 4 by default
    None

ASSUME SlicerAssumption ==
    /\ Images \subseteq (Nat \ {0}) \X (Nat \ {0})
    /\ Grids \subseteq Int \X Int
    /\ MaxDim \in Nat \ {0} /\ HalfTab \in Nat \ {0}

Shape == {"triangles", "diamonds", "trapezoids", "parallelograms"}
Mode == {"grid", "merge", "geometry", "puzzle"}

VARIABLES
    pc,             \* where the slicing is
    mode, shape,    \* the configuration: way to cut, shape of "geometry"
    grid,           \* the configuration: <<cols, rows>>
    size,           \* of the image, before and after scaling
    groups,         \* merge: the groups so far, each a sequence of cells
    passed,         \* merge: cells visited and given to no group
    tabs,           \* puzzle: direction of the tab on each inner edge
    pieces          \* the pieces: grid position and polygon

config == <<mode, shape, grid>>
vars == <<pc, config, size, groups, passed, tabs, pieces>>

Cols == grid[1]
Rows == grid[2]
Cell == (0 .. Cols - 1) \X (0 .. Rows - 1)

\* A 40th of the sides of a cell, in Units.
W == 8 * size[1] * Rows
H == 8 * size[2] * Cols
Unit == 320 * Cols * Rows

\* Without a piece the slicer has an error or never returns.
Init ==
    /\ pc = "start"
    /\ mode \in Mode
    /\ shape \in IF mode = "geometry" THEN Shape \cup {"mixed", "unknown"} ELSE {None}
    /\ grid \in Grids /\ size \in Images
    /\ groups = {} /\ passed = {} /\ tabs = None /\ pieces = {}

-----------------------------------------------------------------------------
\* The product of a side and the scale, both floats, cut to an integer: when
\* it should be one, rounding may leave it just below.
Scaled(side) ==
    LET most == IF size[1] > size[2] THEN size[1] ELSE size[2]
        q == (side * MaxDim) \div most
    IN  {q} \cup (IF q * most = side * MaxDim THEN {q - 1} ELSE {})

\* A non-positive number of columns or rows is an error of every way to cut.
ResizeIfNeeded ==
    /\ pc = "start"
    /\ IF size[1] <= MaxDim /\ size[2] <= MaxDim
       THEN UNCHANGED size
       ELSE size' \in Scaled(size[1]) \X Scaled(size[2])
    /\ pc' = IF Cols > 0 /\ Rows > 0 THEN "slice" ELSE "failed"
    /\ UNCHANGED <<config, groups, passed, tabs, pieces>>

\* A way to cut that needs one step.
Cut(how, polygons) ==
    /\ pc = "slice" /\ mode = how
    /\ pieces' = polygons
    /\ pc' = "done"
    /\ UNCHANGED <<config, size, groups, passed, tabs>>

Piece(c, polygon) == [pos |-> c, polygon |-> polygon]

Grid ==
    Cut("grid", {LET x == 40 * c[1] * W   y == 40 * c[2] * H
                     x1 == x + 40 * W     y1 == y + 40 * H
                 IN  Piece(c, <<<<x, y>>, <<x1, y>>, <<x1, y1>>, <<x, y1>>>>) : c \in Cell})

-----------------------------------------------------------------------------
\* The cells of template number i at cell c.
Template ==
    << <<<<0, 0>>, <<1, 0>>>>,           <<<<0, 0>>, <<0, 1>>>>,
       <<<<0, 0>>, <<1, 0>>, <<0, 1>>>>, <<<<0, 0>>, <<1, 0>>, <<1, 1>>>>,
       <<<<0, 0>>, <<0, 1>>, <<1, 1>>>>, <<<<1, 0>>, <<0, 1>>, <<1, 1>>>> >>
Place(i, c) == [k \in 1 .. Len(Template[i]) |->
                  <<c[1] + Template[i][k][1], c[2] + Template[i][k][2]>>]

Used == UNION {Range(g) : g \in groups}

Fits(g) == Range(g) \subseteq Cell /\ Range(g) \cap Used = {}

\* autoMergeGroups, one cell of the shuffled order: alone, by merge_ratio or as
\* no template fits, or with a fitting template. The last template leaves out
\* the cell it is placed at, which then counts as visited all the same.
PlaceGroup(c) ==
    /\ pc = "slice" /\ mode = "merge"
    /\ c \notin Used /\ c \notin passed
    /\ \E g \in {<<c>>} \cup {Place(i, c) : i \in DOMAIN Template} :
        /\ Fits(g)
        /\ groups' = groups \cup {g}
        /\ passed' = IF c \in Range(g) THEN passed ELSE passed \cup {c}
    /\ UNCHANGED <<pc, config, size, tabs, pieces>>

CellW == size[1] \div Cols
CellH == size[2] \div Rows

\* Mutant of Edges: the left neighbour is not looked at.
EdgesWithLeft(c, others) ==
    LET x == c[1] * CellW   y == c[2] * CellH   x1 == x + CellW   y1 == y + CellH
        Kept(at, from, to) == IF at \in others THEN <<>> ELSE << <<from, to>> >>
    IN  Kept(<<c[1], c[2] - 1>>, <<x, y>>, <<x1, y>>)
        \o Kept(<<c[1] + 1, c[2]>>, <<x1, y>>, <<x1, y1>>)
        \o Kept(<<c[1], c[2] + 1>>, <<x1, y1>>, <<x, y1>>)
        \o << <<<<x, y1>>, <<x, y>>>> >>

\* The sides of cell c, in pixels and clockwise, that no neighbour of the group shares.
Edges(c, others) ==
    LET x == c[1] * CellW   y == c[2] * CellH   x1 == x + CellW   y1 == y + CellH
        Kept(at, from, to) == IF at \in others THEN <<>> ELSE << <<from, to>> >>
    IN  Kept(<<c[1], c[2] - 1>>, <<x, y>>, <<x1, y>>)
        \o Kept(<<c[1] + 1, c[2]>>, <<x1, y>>, <<x1, y1>>)
        \o Kept(<<c[1], c[2] + 1>>, <<x1, y1>>, <<x, y1>>)
        \o Kept(<<c[1] - 1, c[2]>>, <<x, y1>>, <<x, y>>)

Segments(g) == FlattenSeq([k \in DOMAIN g |-> Edges(g[k], Range(g))])

\* The corners met from the first segment on; of several segments that start
\* at a corner the map adj has the last.
Walk(segments) ==
    LET Latest(p) == CHOOSE i \in DOMAIN segments :
                     /\ segments[i][1] = p
                     /\ \A j \in DOMAIN segments : segments[j][1] = p => j <= i
        at[n \in 0 .. Len(segments)] ==
            IF n = 0 THEN segments[1][1] ELSE segments[Latest(at[n - 1])][2]
    IN  at

\* After how many steps the walk is back; without one it never is.
Returns(walk) == {n \in DOMAIN walk \ {0} : walk[n] = walk[0]}

GroupOutline(g) ==
    LET walk == Walk(Segments(g))
        n == CHOOSE m \in Returns(walk) : \A k \in Returns(walk) : m <= k
    IN  [k \in 1 .. n |-> walk[k - 1]]

\* The cell that is leftmost in the topmost row of the group.
GridPos(g) == CHOOSE c \in Range(g) : \A d \in Range(g) :
                c[2] < d[2] \/ (c[2] = d[2] /\ c[1] <= d[1])

\* The loop over the groups; an outline that never closes is an endless loop.
OutlineGroups ==
    /\ pc = "slice" /\ mode = "merge" /\ Cell \subseteq Used \cup passed
    /\ IF \A g \in groups : Returns(Walk(Segments(g))) # {}
       THEN /\ pieces' = {LET outline == GroupOutline(g)
                          IN  Piece(GridPos(g), [k \in DOMAIN outline |->
                                <<Unit * outline[k][1], Unit * outline[k][2]>>]) : g \in groups}
            /\ pc' = "done"
       ELSE pc' = "endless" /\ UNCHANGED pieces
    /\ UNCHANGED <<config, size, groups, passed, tabs>>

-----------------------------------------------------------------------------
\* The polygons of a cell; a shape with another number has none.
CellPolygons(s, c) ==
    LET x0 == 40 * c[1] * W   x1 == x0 + 40 * W   mx == x0 + 20 * W
        y0 == 40 * c[2] * H   y1 == y0 + 40 * H   my == y0 + 20 * H
        slope == IF c[2] % 2 = 0 THEN 6 * H ELSE -6 * H
    IN  CASE s = "triangles" /\ (c[1] + c[2]) % 2 = 0 ->
              {<<<<x0, y0>>, <<x1, y0>>, <<x0, y1>>>>, <<<<x1, y0>>, <<x1, y1>>, <<x0, y1>>>>}
          [] s = "triangles" /\ (c[1] + c[2]) % 2 # 0 ->
              {<<<<x0, y0>>, <<x1, y0>>, <<x1, y1>>>>, <<<<x0, y0>>, <<x1, y1>>, <<x0, y1>>>>}
          [] s = "diamonds" ->
              {<<<<x0, y0>>, <<x1, y0>>, <<mx, my>>>>, <<<<x1, y0>>, <<x1, y1>>, <<mx, my>>>>,
               <<<<x1, y1>>, <<x0, y1>>, <<mx, my>>>>, <<<<x0, y1>>, <<x0, y0>>, <<mx, my>>>>}
          [] s = "trapezoids" ->
              {<<<<x0, y0>>, <<x1, y0>>, <<x1, my + slope>>, <<x0, my - slope>>>>,
               <<<<x0, my - slope>>, <<x1, my + slope>>, <<x1, y1>>, <<x0, y1>>>>}
          [] s = "parallelograms" ->
              {<<<<x0, y0>>, <<x0 + 8 * W, y0>>, <<x0, y1>>>>,
               <<<<x0 + 8 * W, y0>>, <<x1, y0>>, <<x1 - 8 * W, y1>>, <<x0, y1>>>>,
               <<<<x1, y0>>, <<x1, y1>>, <<x1 - 8 * W, y1>>>>}
          [] OTHER -> {}

\* One shape for all cells, or a random one for each.
Geometry ==
    /\ shape # "parallelograms"
    /\ \E s \in [Cell -> IF shape = "mixed" THEN Shape ELSE {shape}] :
        Cut("geometry", UNION {{Piece(c, p) : p \in CellPolygons(s[c], c)} : c \in Cell})

\* The triangle at the left edge of row r and its sheared cells; the last one
\* reaches beyond the image.
Sheared(r, top, bottom) ==
    LET y0 == 40 * r * H   y1 == y0 + 40 * H
    IN  {Piece(<<0, r>>, <<<<0, y0>>, <<top + bottom, IF top > 0 THEN y0 ELSE y1>>, <<0, y1>>>>)}
        \cup {LET x0 == 40 * c * W   x1 == x0 + 40 * W
              IN  Piece(<<c, r>>, <<<<x0 + top, y0>>, <<x1 + top, y0>>,
                                    <<x1 + bottom, y1>>, <<x0 + bottom, y1>>>>)
              : c \in 0 .. Cols - 1}

\* Mutant of Parallelograms: the shear of the rows has the wrong parity at the top.
ParallelogramsOneOff ==
    /\ shape = "parallelograms"
    /\ Cut("geometry", UNION {IF r % 2 = 0 THEN Sheared(r, 10 * W, 10 * W) ELSE Sheared(r, 0, 10 * W)
                              : r \in 0 .. Rows - 1})

\* Even rows lean to the left, odd rows to the right.
Parallelograms ==
    /\ shape = "parallelograms"
    /\ Cut("geometry", UNION {IF r % 2 = 0 THEN Sheared(r, 10 * W, 0) ELSE Sheared(r, 0, 10 * W)
                              : r \in 0 .. Rows - 1})

-----------------------------------------------------------------------------
\* hEdges and vEdges: a tab below, and one to the right of, each cell.
DrawTabs ==
    /\ pc = "slice" /\ mode = "puzzle" /\ tabs = None
    /\ tabs' \in [h : [(0 .. Cols - 1) \X (0 .. Rows - 2) -> {1, -1}],
                  v : [(0 .. Cols - 2) \X (0 .. Rows - 1) -> {1, -1}]]
    /\ UNCHANGED <<pc, config, size, groups, passed, pieces>>

\* puzzleEdge from the corner a of a cell to the corner b: its start, the end
\* of the neck, two curves of three points each by way of the peak, its end.
Along == <<0, 14, 14, 14, 20, 26, 26, 26, 40>>
Across == <<0, 0, HalfTab, 2 * HalfTab, 2 * HalfTab, 2 * HalfTab, HalfTab, 0, 0>>
PuzzleEdge(a, b, dir) ==
    LET dx == (b[1] - a[1]) * W   dy == (b[2] - a[2]) * H
    IN  [i \in 1 .. 9 |-> <<40 * a[1] * W + dx * Along[i] - dy * Across[i] * dir,
                            40 * a[2] * H + dy * Along[i] + dx * Across[i] * dir>>]

\* Mutant of Top: the tab goes the same way on both sides of the edge.
TopSameWay(c) ==
    PuzzleEdge(c, <<c[1] + 1, c[2]>>,
               IF c[2] = 0 THEN 0 ELSE tabs.h[<<c[1], c[2] - 1>>])

Top(c) == PuzzleEdge(c, <<c[1] + 1, c[2]>>,
                     IF c[2] = 0 THEN 0 ELSE -tabs.h[<<c[1], c[2] - 1>>])
Right(c) == PuzzleEdge(<<c[1] + 1, c[2]>>, <<c[1] + 1, c[2] + 1>>,
                       IF c[1] = Cols - 1 THEN 0 ELSE tabs.v[c])
Bottom(c) == PuzzleEdge(<<c[1] + 1, c[2] + 1>>, <<c[1], c[2] + 1>>,
                        IF c[2] = Rows - 1 THEN 0 ELSE tabs.h[c])
Left(c) == PuzzleEdge(<<c[1], c[2] + 1>>, c,
                      IF c[1] = 0 THEN 0 ELSE -tabs.v[<<c[1] - 1, c[2]>>])

\* Path.Polygon: a curve from p0 to p3 by its middle and its end.
Curve(p0, p1, p2, p3) ==
    << <<(p0[1] + 3 * p1[1] + 3 * p2[1] + p3[1]) \div 8,
         (p0[2] + 3 * p1[2] + 3 * p2[2] + p3[2]) \div 8>>, p3 >>
Flat(e) == <<e[1], e[2]>> \o Curve(e[2], e[3], e[4], e[5])
                          \o Curve(e[5], e[6], e[7], e[8])

Puzzle ==
    /\ tabs # None
    /\ Cut("puzzle", {Piece(c, Flat(Top(c)) \o Flat(Right(c)) \o Flat(Bottom(c)) \o Flat(Left(c)))
                      : c \in Cell})

-----------------------------------------------------------------------------
Centre(k) == (Unit \div 2) * (2 * k + 1)

\* clipPiece: the centre of pixel <<x, y>> by ray casting to the right.
PointInPolygon(x, y, polygon) ==
    LET px == Centre(x)   py == Centre(y)
        Crossed(i) ==
            LET p == polygon[i]
                q == polygon[IF i = 1 THEN Len(polygon) ELSE i - 1]
                left == (px - p[1]) * (q[2] - p[2])
                right == (q[1] - p[1]) * (py - p[2])
            IN  \/ p[2] > py /\ q[2] <= py /\ left > right
                \/ p[2] <= py /\ q[2] > py /\ left < right
    IN  Cardinality({i \in DOMAIN polygon : Crossed(i)}) % 2 = 1

\* The rows or columns of pixels, n in all, between the bounds of a piece,
\* which are rounded outwards and cut to the image.
Within(coordinates, n) ==
    {k \in 0 .. n - 1 : /\ \E v \in coordinates : v < Unit * (k + 1)
                        /\ \E v \in coordinates : v > Unit * k}

ClipPiece(p) ==
    LET points == Range(p.polygon)
    IN  {q \in Within({v[1] : v \in points}, size[1]) \X Within({v[2] : v \in points}, size[2]) :
            PointInPolygon(q[1], q[2], p.polygon)}

\* The centre lies on a side of the polygon, not to the left or the right of it.
OnSide(x, y, polygon) ==
    LET px == Centre(x)   py == Centre(y) IN
    \E i \in DOMAIN polygon :
        LET p == polygon[i]
            q == polygon[IF i = 1 THEN Len(polygon) ELSE i - 1]
        IN  /\ (px - p[1]) * (q[2] - p[2]) = (q[1] - p[1]) * (py - p[2])
            /\ (p[1] - px) * (q[1] - px) + (p[2] - py) * (q[2] - py) <= 0

\* Pixels of the image that the piece may have or not, as the floats of its
\* corners are rounded: the right side of a cell and the left side of the next
\* are two sums. The corners of a merge are whole and their floats exact.
Image == (0 .. size[1] - 1) \X (0 .. size[2] - 1)
Unsure(p) == {q \in Image : OnSide(q[1], q[2], p.polygon)}

-----------------------------------------------------------------------------
Next ==
    \/ ResizeIfNeeded
    \/ Grid
    \/ \E c \in Cell : PlaceGroup(c)
    \/ OutlineGroups
    \/ Geometry \/ Parallelograms
    \/ DrawTabs \/ Puzzle

Spec == Init /\ [][Next]_vars

-----------------------------------------------------------------------------
\* The variables have their types.
TypeOK ==
    /\ pc \in {"start", "slice", "done", "failed", "endless"}
    /\ mode \in Mode /\ shape \in Shape \cup {"mixed", "unknown", None}
    /\ grid \in Grids /\ size \in Nat \X Nat
    /\ \A g \in groups : g \in Seq(Cell)
    /\ passed \subseteq Cell
    /\ tabs = None \/ tabs \in
        [h : [(0 .. Cols - 1) \X (0 .. Rows - 2) -> {1, -1}],
         v : [(0 .. Cols - 2) \X (0 .. Rows - 1) -> {1, -1}]]
    /\ \A p \in pieces : p.pos \in Cell

\* A merge gives every cell of the grid to a group (autoMergeGroups).
AllCellsCovered == pc = "done" /\ mode = "merge" => Cell \subseteq Used

\* A merge gives a cell to one group at most, and one that is in none has been
\* passed over by the template that leaves out its own cell, placed there.
Lost(c) == c \in passed /\ c \notin Used
CellsAccountedFor ==
    /\ \A g, h \in groups : g # h => Range(g) \cap Range(h) = {}
    /\ \A c \in passed : Place(6, c) \in groups
    /\ pc = "done" /\ mode = "merge" => \A c \in Cell : c \in Used \/ Lost(c)

\* In an image with a pixel for every column and row, the outline of each
\* group closes and runs along every outer side of its cells, each once: the
\* walk neither loops nor cuts a corner off (groupOutline).
Fine == size[1] >= Cols /\ size[2] >= Rows
OutlinesAreWhole ==
    Fine => /\ pc # "endless"
            /\ \A g \in groups :
                /\ Returns(Walk(Segments(g))) # {}
                /\ LET outline == GroupOutline(g)  n == Len(outline) IN
                   {<<outline[k], outline[IF k = n THEN 1 ELSE k + 1]>> : k \in 1 .. n}
                       = Range(Segments(g))

\* Neighbouring pieces of a jigsaw follow the same curve, one in each direction
\* (Puzzle), so that a tab fits its blank.
EdgesMatch ==
    mode = "puzzle" /\ tabs # None => \A c \in Cell :
        /\ c[1] < Cols - 1 => Right(c) = Reverse(Left(<<c[1] + 1, c[2]>>))
        /\ c[2] < Rows - 1 => Bottom(c) = Reverse(Top(<<c[1], c[2] + 1>>))

\* However the floats are rounded, no pixel is in two pieces that are sure to
\* have it, and a pixel none is unsure about is in exactly one, whatever the way
\* to cut (clipPiece). Exceptions: the lost cells of a merge and the pixels its
\* whole-numbered cells leave at the right and at the bottom; a shape that does
\* not exist; a jigsaw of cells so flat that the tabs of opposite edges meet.
TabsFit == 4 * HalfTab * W <= 40 * H /\ 4 * HalfTab * H <= 40 * W
PixelsCut ==
    CASE mode = "merge" -> {q \in (0 .. Cols * CellW - 1) \X (0 .. Rows * CellH - 1) :
                              ~Lost(<<q[1] \div CellW, q[2] \div CellH>>)}
      [] mode = "geometry" /\ shape = "unknown" -> {}
      [] OTHER -> Image
PixelInOnePiece ==
    pc = "done" /\ (mode = "puzzle" => TabsFit) =>
        LET unsure == UNION {Unsure(p) : p \in pieces}
            clips == {<<p, ClipPiece(p) \ Unsure(p)>> : p \in pieces}
            Owners(q) == {k \in clips : q \in k[2]}
        IN  \A q \in Image : IF q \in PixelsCut \ unsure THEN Cardinality(Owners(q)) = 1
                            ELSE IF q \in PixelsCut THEN Cardinality(Owners(q)) <= 1
                            ELSE Owners(q) = {}
=============================================================================
