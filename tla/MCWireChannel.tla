--------------------------- MODULE MCWireChannel ---------------------------
(* Small instances of WireChannel for TLC. *)
EXTENDS WireChannel

\* The two sides are alike: let the first call be made by the first of them.
MCInit == Init /\ by[CHOOSE c \in Calls : TRUE] = (CHOOSE s \in Sides : TRUE)

MCSpec == MCInit /\ [][Next]_vars /\ Fairness
=============================================================================
