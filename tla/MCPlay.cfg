SPECIFICATION FairSpec
CONSTANTS
    p = p
    q = q
    Puzzle = {p, q}
    Child = {c, d}
    Nobody = Nobody
    x = x
    y = y
    z = z
    Pieces <- MCPieces
    Layers <- MCLayers
    MaxHistory = 3
    MaxGames = 2
INVARIANTS
    TypeOK
    RewardsAreEarned
    ResultsAreEarned
    CreditedToPlayer
PROPERTY
    ReportIsRewarded
SYMMETRY Symmetry
