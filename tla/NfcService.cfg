SPECIFICATION Spec
CONSTANTS
    Chips <- AllChips
    MaxInputs = 3
CHECK_DEADLOCK FALSE
INVARIANTS
    TasksExitStable
    OffReleasesAll
    SettledAsAsked
