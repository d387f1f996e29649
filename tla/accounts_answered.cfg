SPECIFICATION FairSpec
CONSTANTS
  User = {u1}
  Miner = {}
  s1 = s1
  s2 = s2
  Signer = {s1, s2}
  BadAddr = BadAddr
  UserState = {"undefined"}
  Batch <- MCBatch
  Req = {p1, p2}
  Ops = {"CreateUser", "DeleteUser", "RegisterSigners", "UnregisterSigners", "DelSigner"}
  Nil = Nil
INVARIANTS IInv
PROPERTIES DeleteComplete Answered
