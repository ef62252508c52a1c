---------------------------- MODULE MCHostEmulation ----------------------------
(* HostEmulation with two services that play every role.                      *)
EXTENDS HostEmulation
=============================================================================
