CONSTANTS
    Apps = {a}
    MaxAc = 3
    NULL = NULL
SPECIFICATION FairSpec
INVARIANTS
    DeadlockOrigin
    UndefinedOrigin
PROPERTY FreeReturns
CHECK_DEADLOCK FALSE
