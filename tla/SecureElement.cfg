CONSTANTS
    Elements <- MCElements
    Threads <- MCThreads
    Confs <- MCConfs
    Override = None
    MaxCalls = 3
    MaxLinks = 1
    None = None
SPECIFICATION Spec
CHECK_DEADLOCK FALSE
INVARIANTS
    NoLostWakeUp
    CacheIsCurrent
    ConnectionKeepsPower
PROPERTIES
    SuccessIsAnswered
