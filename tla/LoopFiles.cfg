CONSTANTS
    Sizes = {1, 2}
    Procs = {p, q}
    NoProc = NoProc
    AttachMasks = {{"writable"}}
    MsPerSec = 2
    IntMax = 2
    Delays = {}
    MaxTimers = 0
    MaxTime = 2
    MaxJumps = 0
SYMMETRY HandlerSymmetry
SPECIFICATION Spec
INVARIANTS
    MaxFdExact
    EpollMatches
    CallsRegistered
