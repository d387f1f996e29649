SPECIFICATION Spec
CONSTANTS
  User = {u1}
  Id = {i1, i2}
  Val = {v1}
  Req = {p1}
  Ops = {"UpsertUserRateLimit", "DelUserRateLimit", "Add", "Del"}
  Nil = Nil
PROPERTIES DeletesOne
