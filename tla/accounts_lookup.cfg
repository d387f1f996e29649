SPECIFICATION Spec
CONSTANTS
  User = {u1, u2}
  Miner = {}
  s1 = s1
  s2 = s2
  Signer = {s1}
  BadAddr = BadAddr
  UserState = {"undefined"}
  Batch <- OneBatch
  Req = {p1}
  Ops = {"CreateUser", "DeleteUser", "RegisterSigners", "GetUserBySigner"}
  Nil = Nil
PROPERTIES LookupFindsAll
