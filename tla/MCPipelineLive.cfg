SPECIFICATION FairSpec
CONSTANTS
    p1 = p1
    p2 = p2
    Puzzle = {p1, p2}
    w1 = w1
    w2 = w2
    Worker = {w1, w2}
    NoTask = NoTask
    NoWorker = NoWorker
    MaxAttempts = 2
    Cuts <- MCLiveCuts
    Faulty <- MCAttemptCalls
    LostAck <- MCLateCalls
    MaxFaults = 1
PROPERTIES
    EveryTaskEnds
    OutcomeShown
\* The system rests when every task has ended and no puzzle is left to delete.
CHECK_DEADLOCK FALSE
