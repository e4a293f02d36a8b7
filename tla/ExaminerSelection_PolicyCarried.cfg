SPECIFICATION Spec
CONSTANTS
  Rows = {r1, r2}
  Bare = {b1}
  Tabs = {t1}
  Zone = 6
  Second = 3
  MaxNow = 6
INVARIANT PolicyCarried
