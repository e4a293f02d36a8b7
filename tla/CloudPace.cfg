SPECIFICATION FairSpec
CONSTANTS
  Paces <- MCPaces
  MaxCap = 2
  MinDelay = 1
  Minute = 3
  Backoffs <- MCBackoffs
  MaxSent = 3
  MaxVersion = 1
  Horizon = 5
INVARIANTS
  TypeOK
  MinuteCap
  Spacing
  StopActs
  BackoffHonoured
PROPERTY CloseReturns
