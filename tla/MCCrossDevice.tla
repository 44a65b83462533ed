--------------------------- MODULE MCCrossDevice ---------------------------
(***************************************************************************)
(* CrossDevice for TLC: the devices d1 and d2 of one user.                 *)
(***************************************************************************)
EXTENDS CrossDevice, TLC

CONSTANTS u1, d1, d2, c1

MCOwner == [d \in Device |-> u1]

Symmetry == Permutations(Device)
=============================================================================
