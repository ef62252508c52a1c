------------------------------ MODULE MCP2pLink ------------------------------
(* P2pLink on small instances: the kinds of phone for the configurations.    *)
EXTENDS P2pLink

Phone     == [handover |-> TRUE, appliance |-> FALSE]
NoBt      == [handover |-> FALSE, appliance |-> FALSE]
TvBox     == [handover |-> FALSE, appliance |-> TRUE]

PhoneOnly == {Phone}
AllPhones == {Phone, NoBt, TvBox}
=============================================================================
