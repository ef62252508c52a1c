SPECIFICATION FairSpec
CONSTANTS
    Conns = {c1}
    Handles = {h1}
    Servers = {s1}
    Threads = {t1, t2}
    NumSlots = 1
    MaxClients = 1
    None = None
CHECK_DEADLOCK FALSE
INVARIANTS
    RegisteredHasOwner
PROPERTIES
    ClientCloseEnds
