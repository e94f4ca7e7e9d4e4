CONSTANTS
    Topics <- MCTopics
    Ops = {"get", "subscribe", "unsubscribe", "monitor"}
    MaxCmds <- MCMaxCmds
    MaxPushed = 1
    DICT_HT_INITIAL_SIZE = 1
SPECIFICATION Spec
INVARIANTS
    CalledOnce
    ReplyReachesItsCallback
    AssertionsHold
    EventsArmed
    DisconnectDeferred
    SubscriptionsFound
CHECK_DEADLOCK FALSE
