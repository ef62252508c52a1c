SPECIFICATION Spec
CONSTANTS
    Threads <- MCThreads
    RoleSets <- MCRoleSets
    None = None
    Refusing <- MCRefusing
    MaxCalls <- MCMaxCalls
    MaxEvents <- MCMaxEvents
CHECK_DEADLOCK FALSE
INVARIANTS
    StackNotLockedOut
