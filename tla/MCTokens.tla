------------------------------- MODULE MCTokens -------------------------------
(* A small instance of Tokens: a session may reach its third token while   *)
(* another one is open.                                                    *)
EXTENDS Tokens, TLC

CONSTANTS t1, t2, t3, t4, u1, h1, h2

Alike == Permutations(Token) \cup Permutations(Handler)
=============================================================================
