-------------------------- MODULE MCSessionService --------------------------
(***************************************************************************)
(* A small instance of SessionService: requests are interchangeable, and   *)
(* so are users and jobs.                                                  *)
(***************************************************************************)
EXTENDS SessionService, TLC

Symmetry == Permutations(User) \cup Permutations(Request) \cup Permutations(Cron)
=============================================================================
