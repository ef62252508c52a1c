SPECIFICATION FairSpec
CONSTANTS
    Services = {a, b}
    None = None
    MaxTaps = 2
    MaxApdus = 2
    MaxChanges = 1
    MaxFaults = 1
CHECK_DEADLOCK FALSE
INVARIANTS
    BindingsConsistent
    SessionIsActive
    NextTapUsedOnce
PROPERTIES
    WaitForServiceEnds
