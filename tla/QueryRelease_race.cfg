SPECIFICATION Spec
CONSTANTS
  p = p
  oA = oA
  oB = oB
  oC = oC
  oD = oD
  t = t
  None = None
  Session = {s1, s2}
  MinOrgs = 2
  MinRuns = 2
  MinOrgDifference = 2
  Run <- Joining
  Seeded <- ThreeOrgs
  Withdrawal <- Leaving
  Query <- Queries
  Cap = 3
  MaxRevision = 4
  MaxAsked = 3
SYMMETRY SessionSymmetry
CHECK_DEADLOCK FALSE
INVARIANTS ReleasesDiffer FreshReceiptIsCurrent CacheIsCurrent ReleasesAreRecorded
  ReleasedReceiptsQualify
PROPERTY ReadsTheLog
