SPECIFICATION Spec
CONSTANTS
    Conns = {c1,c2}
    Handles = {h1}
    Servers = {s1}
    Threads = {t1}
    NumSlots = 2
    MaxClients = 1
    None = None
SYMMETRY Symmetry
CHECK_DEADLOCK FALSE
INVARIANTS
    HandlesSound
    WaitersWoken
    SlotsOwned
