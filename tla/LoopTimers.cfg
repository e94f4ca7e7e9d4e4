CONSTANTS
    Sizes = {1}
    Procs = {}
    NoProc = NoProc
    AttachMasks = {}
    MsPerSec = 2
    IntMax = 2
    Delays = {0, 1}
    MaxTimers = 3
    MaxTime = 4
    MaxJumps = 1
SPECIFICATION FairSpec
INVARIANTS
    TimersAccounted
    NeverOversleeps
    SkewForcesAll
PROPERTIES
    StopEnds
    TimersRun
