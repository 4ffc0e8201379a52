----------------------------- MODULE MCRequests -----------------------------
(* Requests of one user; they are interchangeable.                         *)
EXTENDS Requests, TLC

MCSymmetry == Permutations(Request)
=============================================================================
