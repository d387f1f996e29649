SPECIFICATION Spec
CONSTANTS
  User = {u1, u2}
  Miner = {m1, m2}
  Signer = {}
  BadAddr = BadAddr
  UserState = {"undefined"}
  Batch <- NoBatch
  Req = {p1, p2}
  Ops = {"CreateUser", "UpdateUser", "RecoverUser", "DeleteUser", "UpsertMiner", "DelMiner", "OwnerDelMiner", "GetUserByMiner", "Crash"}
  Nil = Nil
  s1 = s1
  s2 = s2
SYMMETRY Symmetry
INVARIANTS FullInv BindingsNameUsers CommitIsSerial DeletesOwnMiners
PROPERTIES DeleteComplete RefinesRegistry
