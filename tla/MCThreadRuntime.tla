--------------------------- MODULE MCThreadRuntime ---------------------------
(* Small instances of ThreadRuntime for TLC. *)
EXTENDS ThreadRuntime, TLC

\* No definition tells two threads, or two requests, apart.
Symmetry == Permutations(Threads) \cup Permutations(Requests)
=============================================================================
