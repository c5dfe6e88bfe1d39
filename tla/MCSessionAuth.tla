--------------------------- MODULE MCSessionAuth ---------------------------
(* One session on one key, and another device on the other. *)
EXTENDS SessionAuth, TLC
CONSTANTS k1
MCKeyOf == [s \in Sessions |-> k1]
Symmetry == Permutations(Tasks)
=============================================================================
