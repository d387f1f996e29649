SPECIFICATION FairSpec
CONSTANTS
  User = {u1, u2}
  m1 = m1
  m2 = m2
  f1 = f1
  t1 = t1
  f2 = f2
  bad = bad
  Miner = {m1, m2}
  Text = {f1, t1, f2, bad}
  Parse <- MCParse
  Spelling <- MCSpelling
  Rank <- MCRank
  Nil = Nil
INVARIANTS StoreInv MigrationKeepsBindings MinerHasOneRow SqlKeepsBindings OneCutIsFatal
PROPERTIES StartEnds
