----------------------------- MODULE MCPeerToPeer -----------------------------
(* Small instances of PeerToPeer: blocks, handles, P2pServer objects and
   threads are interchangeable. *)
EXTENDS PeerToPeer, TLC

Symmetry == Permutations(Conns) \cup Permutations(Handles)
            \cup Permutations(Servers) \cup Permutations(Threads)
=============================================================================
