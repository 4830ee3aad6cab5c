SPECIFICATION FairSpec
CONSTANTS
  Key <- TwoJobs
  Maint <- Periodic
  Handled <- OneJob
  Worker <- TwoWorkers
  None = None
  k1 = k1
  k2 = k2
  w1 = w1
  w2 = w2
  MaxAttempts = 2
  MaxFaults = 2
INVARIANTS LockMatchesRunning ClaimsPaidFor SingleExecutor
PROPERTY EventuallySettled
