SPECIFICATION FairSpec
CONSTANTS
  p1 = p1
  p2 = p2
  s1 = s1
  s2 = s2
  s3 = s3
  oA = oA
  oB = oB
  None = None
  Procs = {p1, p2}
  Sessions = {s1, s2, s3}
  Orgs = {oA}
  ProcOf <- TwoProcs
  OrgOf <- MostlyA
  PoolMax = 3
  MaxRestarts = 1
CHECK_DEADLOCK FALSE
INVARIANT EveryBodyOpens
PROPERTY SubmissionsAreAnswered
