SPECIFICATION FairSpec
CONSTANTS
  Proc = {p1}
  Urls <- TwoJobs
  Retries = 1
  MaxFailures = 2
  MaxRefusals = 2
  MayTear = FALSE
  MaxSessions = 2
  MaxCrashes = 0
  MaxErrors = 1
INVARIANTS
  GivesUp
  EndAccounts
PROPERTY
  LockReleased
