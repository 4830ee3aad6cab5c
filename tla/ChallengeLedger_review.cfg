SPECIFICATION Spec
CONSTANTS
  s1 = s1
  s2 = s2
  oA = oA
  rOld = rOld
  rNew = rNew
  pr = pr
  k1 = k1
  k2 = k2
  pq = pq
  None = None
  Sessions = {s1, s2}
  Orgs = {oA}
  Protocols = {pq}
  Receipts = {rOld, rNew}
  OwnerOf <- Owners
  ProtocolOf <- OneProtocol
  FindingsOf <- Findings
  Legacy = {rOld}
  MaxChallenges = 2
  FilingMax = 1
  Window = 1
  MaxClock = 1
  MaxEvidence = 1
  Predictions = {pr}
SYMMETRY Sessions12
CHECK_DEADLOCK FALSE
INVARIANTS TypeOK VerdictStands WholeReceiptJudged OneRevisionPerResolution RollingCountUpToWait
