SPECIFICATION Spec
CONSTANTS
    a = a
    b = b
    c = c
    Piece = {a, b, c}
    f1 = f1
    f2 = f2
    Finger = {f1, f2}
    upright = upright
    wide = wide
    Layout = {upright, wide}
    Nothing = Nothing
INVARIANTS
    BoardAgrees
PROPERTIES
    ImplementsAssembly
\* Pieces and fingers are interchangeable; every property is a safety property.
SYMMETRY Symmetry
