\* MinOrgs = 2 and MinRuns = 3: a cohort of five runs can qualify and a claim of it not.
SPECIFICATION Growth
CONSTANTS
  a = a
  b = b
  c = c
  k1 = k1
  k2 = k2
  Null = Null
  UnitOf <- MCUnitOf
  Claims <- MCClaims
  Permitted = {"latency", "errors", "classes"}
  Required = {k1, k2}
  Filtered = {k2}
  Arrivals <- MCArrivals
  MaxRuns = 5
  Scale = 2
  MinOrgs = 2
  MinRuns = 3
  MinOrgDifference = 3
  TailRuns = 4
INVARIANTS
  SpreadsAreRanks
  DisagreementIsReal
  ReleasedClaimsQualify
  ReportClaimsNoMore
CHECK_DEADLOCK FALSE
