CONSTANTS
    Callers = {c1, c2, c3}
    Refused = {c3}
    NULL = NULL
    PipeCap = 3
    ReadMax = 2
    MaxConn = 1
SYMMETRY CallerSymmetry
SPECIFICATION Spec
INVARIANTS
    PipelineAligned
    OutputCovered
