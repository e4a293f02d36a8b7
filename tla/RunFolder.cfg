SPECIFICATION Spec
CONSTANTS
  Builds = {1, 2}
  MaxRuns = 3
  MaxFaults = 1
INVARIANTS
  LinksHold
  ExtractClean
  EvidenceWhole
PROPERTY
  FullReportsKept
