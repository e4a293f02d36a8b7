SPECIFICATION Spec
CONSTANTS
  Proc = {p1, p2}
  Urls <- OneJob
  Retries = 2
  MaxFailures = 1
  MaxRefusals = 1
  MayTear = TRUE
  MaxSessions = 2
  MaxCrashes = 1
  MaxErrors = 1
SYMMETRY Symmetry
INVARIANTS
  OneWriter
  ChainHolds
  NeverOverwritten
  RecordedFilesKept
  RetrievedOnce
  AttemptsInOrder
PROPERTY
  KeepsPromise
