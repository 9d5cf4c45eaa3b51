-------------------------- MODULE MCRefreshTokens --------------------------
(* Small instances of RefreshTokens for TLC. *)
EXTENDS RefreshTokens, TLC

CONSTANTS r1, r2, f1

TwoRequests == {r1, r2}
OneFamily == {f1}

\* For safety only.
RequestSymmetry == Permutations(Request)
=============================================================================
