SPECIFICATION Spec
CONSTANTS
  n1 = n1
  n2 = n2
  n3 = n3
  oA = oA
  oB = oB
  p = p
  q = q
  m1 = m1
  None = None
  OrgOf <- MCOrgOf
  Node = {n1, n2, n3}
  Registered = {p}
  Session = {s1, s2}
  Doc <- Old
  Request = {}
  Unpreviewed <- OldPreview
  Revocable = {}
  Legacy <- Old
  LegacyGone <- OldGone
  Unreadable <- OldUnreadable
  FlagChanges = TRUE
  MaxClock = 0
CHECK_DEADLOCK FALSE
INVARIANT BackfillRestores
