------------------------------- MODULE MCNfcTag -------------------------------
(* A small field for NfcTag: a peer heard over two technologies, a card with
   two protocols, and tags that count for two technologies. *)
EXTENDS NfcTag

T(id, protocol, mode, ul) == [id |-> id, protocol |-> protocol, mode |-> mode, ul |-> ul]

MCTargets == {T(1, "NFC_DEP", "POLL_A", FALSE), T(2, "NFC_DEP", "POLL_F", FALSE),
              T(3, "ISO_DEP", "POLL_B", FALSE), T(3, "T2T", "POLL_A", TRUE),
              T(4, "MIFARE", "POLL_A", FALSE), T(5, "KOVIO", "POLL_KOVIO", FALSE)}
=============================================================================
