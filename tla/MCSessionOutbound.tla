------------------------- MODULE MCSessionOutbound -------------------------
(***************************************************************************)
(* Instances of SessionOutbound for TLC.                                   *)
(***************************************************************************)
EXTENDS SessionOutbound, TLC

ConnSymmetry == Permutations(Conns)

=============================================================================
