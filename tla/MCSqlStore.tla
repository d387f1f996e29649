----------------------------- MODULE MCSqlStore -----------------------------
(* Instances of SqlStore for TLC: in each behaviour clients use one of the  *)
(* three parts of the interface, with the operations on users it depends on.*)
EXTENDS SqlStore, TLC

MCMixes ==
  {{"CreateUser", "UpdateUser", "RecoverUser", "DeleteUser",
    "UpsertMiner", "DelMiner", "GetUserByMiner"},
   {"CreateUser", "UpdateUser", "RecoverUser", "DeleteUser", "RegisterSigner",
    "UnregisterSigner", "DelSigner", "GetUserBySigner"},
   {"CreateUser", "DeleteUser", "GenerateToken", "RemoveToken", "RecoverToken",
    "PutRateLimit", "DelRateLimit"}}

MCRaces == {{"CreateUser", "DeleteUser", "UpsertMiner", "DelMiner"}}

Symmetry == Permutations(User) \cup Permutations(Miner) \cup Permutations(Signer)
              \cup Permutations(Req) \cup Permutations(Value)
=============================================================================
