----------------------------- MODULE MCSdkClient -----------------------------
(* Small instances of SdkClient and the configuration cache below it.      *)
EXTENDS SdkClient, TLC

CONSTANTS f1, f2, r1, r2, w1, w2, c1, c2

Alike == Permutations(Flag) \cup Permutations(Reader) \cup Permutations(Call) \cup Permutations(Writer)
=============================================================================
