SPECIFICATION Spec
CONSTANTS
  User = {u1, u2}
  Miner = {}
  s1 = s1
  s2 = s2
  Signer = {s1}
  BadAddr = BadAddr
  UserState = {"undefined"}
  Batch <- OneBatch
  Req = {p1, p2}
  Ops = {"CreateUser", "DeleteUser", "RegisterSigners", "UnregisterSigners", "DelSigner", "OwnerDelSigner", "GetUserBySigner", "Crash"}
  Nil = Nil
SYMMETRY Symmetry
INVARIANTS BindingsNameUsers
PROPERTIES DelSignerComplete RefinesRegistry
