SPECIFICATION FairSpec
CONSTANTS
    p1 = p1
    Puzzle = {p1}
    l1 = l1
    l2 = l2
    Layer = {l1, l2}
    k1 = k1
    Key = {k1}
    r1 = r1
    r2 = r2
    Request = {r1, r2}
    MaxOrder = 1
    None = None
INVARIANTS
    TypeOK
    LayersHaveAPuzzle
    MediaIsStored
PROPERTY
    EveryRequestEnds
