SPECIFICATION FairSpec
CONSTANTS
  POOL_SIZE = 63
  ClassSize = 3
  DescSize = 1
  Sources <- MCSources
INVARIANTS
  TypeOK
  TranslatedFaithfully
  MethodsFitObjects
  DispatchesNearest
PROPERTY
  SendsReturn
\* The program ends, or the pool of mm_malloc is full.
CHECK_DEADLOCK FALSE
