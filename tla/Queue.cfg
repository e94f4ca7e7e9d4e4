CONSTANTS
    Consumers = {c1, c2, c3}
    Timed = {c3}
    Items = {a, b}
    NULL = NULL
    m_max_size = 3
SYMMETRY QueueSymmetry
SPECIFICATION Spec
INVARIANTS
    RingConsistent
    NoSleeperWithItems
PROPERTY RefinesFifo
