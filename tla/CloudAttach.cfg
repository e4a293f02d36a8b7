SPECIFICATION AttachSpec
CONSTANTS
  Proc = {p1}
  Urls <- OneJob
  Retries = 1
  MaxFailures = 1
  MaxRefusals = 1
  MayTear = TRUE
  MaxSessions = 3
  MaxCrashes = 1
  MaxErrors = 0
  MaxReports = 2
  MaxCuts = 1
INVARIANT
  ShownRight
PROPERTY
  ShowsLatest
