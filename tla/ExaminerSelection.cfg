SPECIFICATION Spec
CONSTANTS
  Rows = {r1, r2}
  Bare = {b1}
  Tabs = {t1, t2}
  Zone = 6
  Second = 3
  MaxNow = 7
SYMMETRY Symmetry
INVARIANTS
  BareNeverTicked
  CleanIsSaved
  PreviousKept
PROPERTY
  ReloadKeeps
