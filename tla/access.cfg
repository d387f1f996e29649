SPECIFICATION FairSpec
CONSTANTS
  User = {admin0, u1}
  Default = admin0
  Miner = {m1, m2}
  Signer = {s1}
  Token = {t1, t2}
  Perm = {"admin", "read", "other"}
  Caller = {c1}
  Mixes <- MCMixes
  Local = Local
  None = None
INVARIANTS IInv ServedIsVouched CheckedOwns
PROPERTIES EffectsAuthorised AnswersAuthorised OkMeansDone CallsEnd ServiceEnds
