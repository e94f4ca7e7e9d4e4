CONSTANTS
    Nodes = {n1, n2, n3, n4}
    Lists = {l1, l2}
    Values = {v1, v2}
    NULL = NULL
    JoinEmpty = FALSE
SYMMETRY CellSymmetry
SPECIFICATION Spec
INVARIANTS
    WellFormed
    TraversalsAgree
PROPERTY RefinesContents
