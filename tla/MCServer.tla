------------------------------ MODULE MCServer ------------------------------
(***************************************************************************)
(* Server for TLC: limiters that let one request through.                  *)
(***************************************************************************)
EXTENDS Server, TLC

CONSTANTS r1, r2

MCMax == [l \in Limiter |-> 1]
=============================================================================
