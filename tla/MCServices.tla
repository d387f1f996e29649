----------------------------- MODULE MCServices -----------------------------
(* Instances of Services for TLC: in each behaviour one part of the interface *)
(* is called, by clients or by a service, while others do what meets it.      *)
EXTENDS Services

Mix(calls, others, perms, asks, muxes) ==
  [calls |-> calls, others |-> others, perms |-> perms, asks |-> asks, muxes |-> muxes]

MCMixes ==
  {Mix({h \in Handlers : h \notin NamesMiner \cup NamesSigner}, {"tokens"}, {"admin", "other"}, {}, {{}}),
   Mix(NamesMiner, {"miners", "tokens"}, {"read"}, {}, {{}}),
   Mix(NamesSigner, {"signers", "tokens", "users"}, {"read"}, {}, {{}}),
   Mix({"Verify", "MinerExistInUser"}, {"miners", "tokens"}, {"read"}, {Miner}, {{"remote"}}),
   Mix({"Verify", "SignerExistInUser"}, {"signers", "tokens"}, {"read"}, {{}, Signer},
       SUBSET {"local", "remote"})}
=============================================================================
