SPECIFICATION Spec
CONSTANTS
    p1 = p1
    p2 = p2
    Puzzle = {p1, p2}
    w1 = w1
    w2 = w2
    Worker = {w1, w2}
    NoTask = NoTask
    NoWorker = NoWorker
    MaxAttempts = 3
    Cuts <- MCCuts
    Faulty <- MCCalls
    LostAck <- MCCalls
    MaxFaults = 2
INVARIANTS
    TypeOK
    NoDanglingKeys
    ReadyIsPlayable
    CompletedIsReady
PROPERTIES
    ImplementsJobQueue
    ImplementsPuzzleLife
\* The system rests when every task has ended and no puzzle is left to delete.
CHECK_DEADLOCK FALSE
\* Workers are interchangeable; every property here is a safety property.
SYMMETRY Symmetry
