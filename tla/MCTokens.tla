------------------------------ MODULE MCTokens ------------------------------
(* Instances of Tokens for TLC. *)
EXTENDS Tokens, TLC

Symmetry == Permutations(Token) \cup Permutations(Req)
=============================================================================
