---------------------------- MODULE MCPintosList ---------------------------
(* The symmetry of PintosList: elements differ only by their keys.         *)
EXTENDS PintosList, TLC

MCSymmetry == Permutations(Elems)
=============================================================================
