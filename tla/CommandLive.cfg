CONSTANTS
    Callers = {c1, c2}
    Refused = {c2}
    NULL = NULL
    PipeCap = 2
    ReadMax = 1
    MaxConn = 1
SPECIFICATION FairSpec
PROPERTIES
    EveryCallReturns
    QueuedIsAnswered
