--------------------------- MODULE MCConcession ---------------------------
(* An instance of Concession for TLC: every pair of utility tables over    *)
(* three points, with and without a warm start.                            *)
EXTENDS Concession

MCPoint == 1..3
=============================================================================
