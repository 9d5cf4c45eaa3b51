---------------------------- MODULE MCUserCache ----------------------------
(* Small instances of UserCache: one GitHub account and the grader's. *)
EXTENDS UserCache, TLC

CONSTANTS r1, r2, ada, grader, oldName, newName

Symmetry == Permutations(Request)
=============================================================================
