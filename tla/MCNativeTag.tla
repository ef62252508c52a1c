----------------------------- MODULE MCNativeTag -----------------------------
(* The kinds of tags with different paths through NativeTag. *)
EXTENDS NativeTag

MCTags == {"ISO_DEP_B", "MIFARE", "T2T", "T3BT", "KOVIO"}
=============================================================================
