SPECIFICATION Spec
CONSTANTS
  User = {u1}
  Id = {i1, i2}
  Val = {v1, v2}
  Req = {p1, p2}
  Ops = {"UpsertUserRateLimit", "DelUserRateLimit", "Add", "Update", "Del"}
  Nil = Nil
SYMMETRY Symmetry
INVARIANTS IInv NeverEmpty DeletesPresent
PROPERTIES PutKeepsOthers
