CONSTANTS
    Tags <- MCTags
    MaxTags = 2
    MaxCalls = 4
    None = None
SPECIFICATION Spec
CHECK_DEADLOCK FALSE
INVARIANTS
    CheckReleased
PROPERTIES
    WriteIsReal
    InterfaceIsSelected
