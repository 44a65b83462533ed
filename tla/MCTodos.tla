------------------------------ MODULE MCTodos ------------------------------
(***************************************************************************)
(* Todos for TLC: two clients of one user, on one instance.                *)
(***************************************************************************)
EXTENDS Todos, TLC

CONSTANTS u1, c1, c2, t1

MCOwner == [c \in Client |-> u1]

MCInput == {[title |-> t1, completed |-> FALSE]}

MCChange == {[title |-> None, completed |-> TRUE]}

Symmetry == Permutations(Client)
=============================================================================
