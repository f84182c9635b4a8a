---------------------------- MODULE MCEventStream ----------------------------
(* Small instances of EventStream: one environment and its client.         *)
EXTENDS EventStream, TLC

CONSTANTS f1, f2, e1, r1, h1, h2

OneEnv == [f \in Flag |-> e1]
=============================================================================
