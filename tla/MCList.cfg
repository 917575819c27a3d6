SPECIFICATION Spec
CONSTANTS
  MaxId = 4
  Values <- PositiveValues
INVARIANTS
  WellLinked
  HintIsOnlyAHint
PROPERTIES
  ImplementsSortedQueue
