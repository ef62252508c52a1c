CONSTANTS
    Targets <- MCTargets
    MaxTech = 4
    Absent = Absent
SPECIFICATION TagSpec
INVARIANTS
    TagIsTheActiveTarget
PROPERTIES
    SelectFollowsDiscovery
