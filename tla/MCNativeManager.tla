--------------------------- MODULE MCNativeManager ---------------------------
EXTENDS NativeManager

MCThreads == {"service", "routes", "payment", "tag", "interop", "swp", "factory"}

Payment == {"service", "payment"}
Interop == {"service", "tag", "interop"}
ReaderOverSwp == {"service", "swp"}
Routing == {"service", "routes"}
SelfTest == {"service", "factory"}

MCRoleSets == {Payment, Interop, ReaderOverSwp, Routing, SelfTest}

MCRefusing == {Interop, Routing}
MCMaxCalls == [r \in MCRoleSets |-> IF r \in {Payment, Routing} THEN 3 ELSE 2]
MCMaxEvents == [r \in MCRoleSets |-> IF r \in {Interop, SelfTest} THEN 2 ELSE 1]
=============================================================================
