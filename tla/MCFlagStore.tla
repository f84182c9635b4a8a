----------------------------- MODULE MCFlagStore -----------------------------
(* A small instance of FlagStore: one flag, whose own history is what the  *)
(* properties are about.                                                   *)
EXTENDS FlagStore, TLC

CONSTANTS f1, e1, r1, h1, h2

OneEnv == [f \in Flag |-> e1]

Handlers == Permutations(Handler)
=============================================================================
