---------------------------- MODULE MCWebSession ----------------------------
(* A small instance of WebSession: one browser with two tabs. *)
EXTENDS WebSession, TLC

CONSTANTS t1, t2

Symmetry == Permutations(Tab)
=============================================================================
