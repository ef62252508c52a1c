---------------------------- MODULE MCNxpAdapter ----------------------------
EXTENDS NxpAdapter

MCThreads == {"service", "tag1", "tag2", "peer", "accept1", "accept2", "client", "datagrams", "binder"}

TwoTags == {"tag1", "tag2", "service"}
Link == {"service", "peer"}
Accepts == {"peer", "accept1", "accept2"}
Sockets == {"peer", "client", "datagrams"}
Timed == {"binder", "tag1"}

MCRoleSets == {TwoTags, Link, Accepts, Sockets, Timed}

MCMaxCalls == [r \in MCRoleSets |->
    CASE r = Accepts -> 5 [] r = Sockets -> 4 [] OTHER -> 3]
MCMaxFound == [r \in MCRoleSets |-> CASE r = TwoTags -> 2 [] r = Accepts -> 3 [] OTHER -> 1]

MCTimeouts == {0, 1, 255, 256, 1000, 4900, 4901}
=============================================================================
