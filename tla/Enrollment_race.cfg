SPECIFICATION Spec
CONSTANTS
  r1 = r1
  r2 = r2
  seedOrg = seedOrg
  acme = acme
  ks = ks
  None = None
  Requests = {r1, r2}
  Names = {seedOrg, acme}
  SeedName = seedOrg
  Keys = {ks}
  SeedKey = ks
  Terms = {1, 2}
  Ttl = 1
  MaxClock = 1
  MaxRows = 5
SYMMETRY RequestSymmetry
CHECK_DEADLOCK FALSE
INVARIANTS OneLiveLogin InviteMakesOneLogin OneOpenInvite AgreementsMatchForms SeedsOneNode

