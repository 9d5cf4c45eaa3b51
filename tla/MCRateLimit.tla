---------------------------- MODULE MCRateLimit ----------------------------
(* A small instance of RateLimit: one address and one user. *)
EXTENDS RateLimit

CONSTANTS home, ada
=============================================================================
