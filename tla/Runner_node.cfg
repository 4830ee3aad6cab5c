\* Planned = 2 and Ttl = 0 with one tick: an attempt may be missing, a preview may expire.
SPECIFICATION Spec
CONSTANTS
  p1 = p1
  p2 = p2
  r1 = r1
  r2 = r2
  m1 = m1
  k1 = k1
  None = None
  Torn = Torn
  Null = Null
  Procs = {p1, p2}
  Runs = {r1, r2}
  Planned = 2
  Asks <- MCAsks
  CostModel <- MCCostModel
  Required = {k1}
  Values = {m1}
  Shares = {"private", "cohort"}
  Ttl = 0
  Workload <- MCWorkload
SYMMETRY Alike
INVARIANTS
  TypeOK
  SucceededIsBacked
  AccountingIsExact
  PlanListsItsRuns
  AcceptedIsShown
  ResubmissionIsIdempotent
CHECK_DEADLOCK FALSE
