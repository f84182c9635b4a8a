---------------------------- MODULE MCSnapshotSync ----------------------------
(* Small instances of SnapshotSync: one environment and its client.        *)
EXTENDS SnapshotSync, TLC

CONSTANTS f1, f2, e1, r1, h1, h2

OneEnv == [f \in Flag |-> e1]

Handlers == Permutations(Handler)
=============================================================================
