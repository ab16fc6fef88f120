SPECIFICATION Spec
CONSTANTS
    None = None
    Images <- MCImages
    Grids <- MCGrids
    MaxDim = 6
    HalfTab = 4
INVARIANTS
    AllCellsCovered
\* The slicing ends.
CHECK_DEADLOCK FALSE
