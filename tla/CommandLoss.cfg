CONSTANTS
    Callers = {c1, c2}
    Refused = {}
    NULL = NULL
    PipeCap = 2
    ReadMax = 2
    MaxConn = 3
SYMMETRY CallerSymmetry
SPECIFICATION Spec
INVARIANTS
    InfoLiveWhileOwned
    OwnReply
    UndefinedBehaviourOrigin
    CtxUsable
    ReleasedUnlessExpired
    DownIffScheduled
PROPERTY RefinesContract
