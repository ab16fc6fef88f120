SPECIFICATION Spec
CONSTANTS
    p = p
    q = q
    Puzzle = {p, q}
    Child = {c}
    Nobody = Nobody
    x = x
    y = y
    z = z
    Pieces <- MCPieces
    Layers <- MCLayers
    MaxHistory = 3
    MaxGames = 1
INVARIANT
    CompletedIsSolved
