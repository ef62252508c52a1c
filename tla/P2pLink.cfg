SPECIFICATION Spec
CONSTANTS
    MaxTaps = 2
    MaxReceives = 1
    MaxToggles = 1
    Phones <- AllPhones
CHECK_DEADLOCK FALSE
INVARIANTS
    DebounceTimerOwned
    ClientsReleased
    CompletedNotResent
PROPERTIES
    NoConnectOverlap
    ImplementsListener
