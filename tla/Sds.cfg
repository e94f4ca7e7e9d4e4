CONSTANTS
    Limit <- MCLimit
    IntMax = 4
    SDS_MAX_PREALLOC = 4
    Chars = {a, b}
    NUL = NUL
    Junk = Junk
    MaxLen = 6
    MaxAdd = 2
SYMMETRY CharSymmetry
SPECIFICATION Spec
INVARIANTS
    HeaderOK
    ContentOK
