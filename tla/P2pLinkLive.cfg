SPECIFICATION FairSpec
CONSTANTS
    MaxTaps = 2
    MaxReceives = 0
    MaxToggles = 1
    Phones <- PhoneOnly
CHECK_DEADLOCK FALSE
PROPERTIES
    ConfirmedSendConnects
    DebounceEnds
