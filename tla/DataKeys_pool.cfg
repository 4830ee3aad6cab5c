SPECIFICATION FairSpec
CONSTANTS
  p1 = p1
  p2 = p2
  s1 = s1
  s2 = s2
  s3 = s3
  oA = oA
  oB = oB
  None = None
  Procs = {p1}
  Sessions = {s1, s2}
  Orgs = {oA, oB}
  ProcOf <- OneProc
  OrgOf <- TwoOrgs
  PoolMax = 2
  MaxRestarts = 0
CHECK_DEADLOCK FALSE
PROPERTIES SubmissionsAreAnswered
