SPECIFICATION Spec
CONSTANTS
  User = {u1, u2}
  Miner = {m1, m2}
  Signer = {s1}
  Token = {t1}
  Perm = {Admin}
  Limit = {l1}
  Value = {v1}
  Req = {p1, p2}
  Mixes <- MCRaces
  Nil = Nil
SYMMETRY Symmetry
PROPERTIES CreatedOnce
