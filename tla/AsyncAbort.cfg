CONSTANTS
    Topics <- MCTopics
    Ops = {"subscribe", "unsubscribe"}
    MaxCmds <- MCMaxCmds
    MaxPushed = 0
    DICT_HT_INITIAL_SIZE = 1
SPECIFICATION Spec
INVARIANT NeverAborts
CHECK_DEADLOCK FALSE
