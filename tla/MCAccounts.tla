----------------------------- MODULE MCAccounts -----------------------------
(* Instances of Accounts for TLC. *)
EXTENDS Accounts, TLC

CONSTANTS s1, s2

\* Batches of two signers, one of them ending in an address that cannot sign.
MCBatch == {<<s1>>, <<s1, s2>>, <<s1, BadAddr>>}
OneBatch == {<<s1>>, <<s1, BadAddr>>}
NoBatch == {}

Symmetry == Permutations(User) \cup Permutations(Miner) \cup Permutations(Req)
=============================================================================
