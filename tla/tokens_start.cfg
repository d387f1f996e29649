SPECIFICATION Spec
CONSTANTS
  Default = Default
  User = {Default, u1}
  Admin = Admin
  Perm = {Admin, Read}
  Token = {t1, t2}
  Req = {p1}
  Boot = Boot
  Ops = {"Crash"}
  MaxGauge = 2
  Nil = Nil
INVARIANTS StartSucceeds
