CONSTANTS
  Databases = {d1, d2}
  Pages = {1, 2}
  Images = {a, b}
  Gone = Gone
  Unformed = Unformed
  NoView = NoView
  MaxWrites = 4
SPECIFICATION Spec
SYMMETRY Symmetry
INVARIANTS RowsAccounted OwnReadings LogReached
