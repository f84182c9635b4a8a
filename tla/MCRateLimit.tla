------------------------------ MODULE MCRateLimit ------------------------------
(* Small instances of RateLimit: windows of two ticks, a counter kept for  *)
(* three, calls that take up to one.                                       *)
EXTENDS RateLimit, TLC

CONSTANTS k1, k2, p1, p2, q1, q2

Alike == Permutations(Key) \cup Permutations(Process) \cup Permutations(Request)
=============================================================================
