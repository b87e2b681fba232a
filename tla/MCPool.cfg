SPECIFICATION Spec
CONSTANTS
  PoolPages = 5
  NumSlots = 7
  MaxRequest = 3
INVARIANTS
  TypeOK
  SlotsInOneContainer
  CounterNeverExceedsList
  RangesTileThePool
  EmptyPanicMeansFull
PROPERTIES
  UsedRangesStable
  ImplementsRangeAllocator
\* A panic stops the machine.
CHECK_DEADLOCK FALSE
