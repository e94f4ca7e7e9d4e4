CONSTANTS
    Kinds <- MCKinds
    Fds = {f1, f2}
    Requests <- MCRequests
    Answers <- MCAnswers
    MaxDepth = 3
    DiscardAt = 5
    MaxAddr = 2
    MaxCmds <- MCMaxCmds
    MaxConnects = 2
    REDIS_CONNECT_RETRIES = 2
SPECIFICATION Spec
SYMMETRY FdSymmetry
INVARIANTS
    RepliesInOrder
    CommandsIntact
    FailureReported
    DescriptorsOwned
CHECK_DEADLOCK FALSE
