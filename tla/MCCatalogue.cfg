SPECIFICATION Spec
CONSTANTS
    p1 = p1
    Puzzle = {p1}
    c1 = c1
    c2 = c2
    Category = {c1, c2}
    s1 = s1
    Slug = {s1}
    r1 = r1
    r2 = r2
    r3 = r3
    Request = {r1, r2, r3}
    None = None
SYMMETRY Symmetry
INVARIANTS
    TypeOK
    GameIsWhole
    DeadlockNeedsDeletion
    CatalogueIsComplete
PROPERTIES
    ImplementsPublication
