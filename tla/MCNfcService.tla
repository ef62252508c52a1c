----------------------------- MODULE MCNfcService -----------------------------
(* NfcService on small instances: the controllers the code knows.            *)
EXTENDS NfcService

Pn544 == [quirks |-> TRUE, pn547 |-> FALSE, hce |-> FALSE, toggleable |-> TRUE]
Nci   == [quirks |-> FALSE, pn547 |-> FALSE, hce |-> TRUE, toggleable |-> FALSE]
Pn547 == [quirks |-> FALSE, pn547 |-> TRUE, hce |-> TRUE, toggleable |-> TRUE]

OnlyPn544 == {Pn544}
OnlyPn547 == {Pn547}
OnlyNci   == {Nci}
AllChips  == {Pn544, Nci, Pn547}
=============================================================================
