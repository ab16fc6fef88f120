SPECIFICATION Spec
CONSTANTS
    p1 = p1
    Puzzle = {p1}
    s1 = s1
    s2 = s2
    Submitter = {s1, s2}
    r1 = r1
    r2 = r2
    Reader = {r1, r2}
    NoPuzzle = NoPuzzle
    MaxReviews = 3
    MaxEdits = 1
    MaxFaults = 2
INVARIANTS
    TypeOK
    ApprovedIsPublished
    CommentIsCurrent
    NoticeKept
PROPERTY
    ApprovedStays
    ImplementsPublication
\* A deleted puzzle takes no further step.
CHECK_DEADLOCK FALSE
\* Requests are interchangeable; every property here is a safety property.
SYMMETRY Symmetry
