---------------------------- MODULE MCInactivity ----------------------------
(* Instances of Inactivity for TLC. *)
EXTENDS Inactivity, TLC

CONSTANTS d1, d2

Symmetry == Permutations(Device)
=============================================================================
