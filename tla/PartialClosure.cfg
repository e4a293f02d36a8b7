SPECIFICATION Spec
CONSTANTS
  Ids <- MCIds
  Kind <- MCKind
  Rows <- MCRows
  Positional <- MCPositional
  Links <- MCLinks
  Parent <- MCParent
  Hits <- MCHits
  Group <- MCGroup
  Selections <- MCSelections
  Policies <- MCPolicies
  Overruling <- MCOverruling
  Productions <- MCProductions
  MaxPasses = 2
  MaxUnticked = 1
  NoRow = NoRow
INVARIANTS
  TicksResolved
  DisclosesAsAsked
  TransitiveFollows
  EveryRowExplained
  ReviewedStable
PROPERTY
  BuildEnds
