SPECIFICATION Spec
CONSTANTS
    Threads <- MCThreads
    RoleSets <- MCRoleSets
    MaxCalls <- MCMaxCalls
    MaxFound <- MCMaxFound
    Timeouts <- MCTimeouts
    None = None
CHECK_DEADLOCK FALSE
INVARIANTS
    AnswerComes
    PollingAsWanted
    ListenerAlive
    ElementAlone
    NoLostIncoming
    LinkDataAlive
    TimeoutKept
