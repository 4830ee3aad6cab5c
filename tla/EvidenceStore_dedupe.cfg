SPECIFICATION Spec
CONSTANTS
  n1 = n1
  n2 = n2
  n3 = n3
  oA = oA
  oB = oB
  p = p
  q = q
  m1 = m1
  None = None
  OrgOf <- MCOrgOf
  Node = {n1, n2, n3}
  Registered = {p}
  Session = {s1, s2}
  Doc <- Mixed
  Request <- Overlapping
  Unpreviewed = {}
  Revocable = {n2}
  Legacy = {}
  LegacyGone = {}
  Unreadable = {}
  FlagChanges = FALSE
  MaxClock = 4
SYMMETRY SessionSymmetry
CHECK_DEADLOCK FALSE
INVARIANTS LedgerExact NoDoubleCount SharedSourceMarked
PROPERTY ImplementsLog
