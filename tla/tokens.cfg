SPECIFICATION Spec
CONSTANTS
  Default = Default
  User = {Default, u1}
  Admin = Admin
  Perm = {Admin, Read}
  Token = {t1, t2}
  Req = {p1, p2}
  Boot = Boot
  Ops = {"CreateUser", "DeleteUser", "GenerateToken", "RemoveToken", "RecoverToken", "Verify", "Crash"}
  MaxGauge = 2
  Nil = Nil
SYMMETRY Symmetry
INVARIANTS IInv GaugeCovers
PROPERTIES ServesWithAdmin RefinesTokenBook
