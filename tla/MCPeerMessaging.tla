-------------------------- MODULE MCPeerMessaging --------------------------
(* Small instances of PeerMessaging for TLC. *)
EXTENDS PeerMessaging, TLC

\* No definition tells two threads, or two requests, apart.
Symmetry == Permutations(Threads) \cup Permutations(Requests)
=============================================================================
