SPECIFICATION Spec
CONSTANTS
  PAGE_SIZE = 44
  SLAB_MAX_GFP_ORDER = 1
  SlabHeader = 8
  Bufctl = 1
  SmallestCache = 8
  SizeCaches = 2
  CacheCacheSize = 14
  CacheCacheOrder = 1
  CacheCacheNum = 5
  NonPagedPages = 7
  DmaPages = 3
  TestCache = 16
  TestRequest = 7
  Requests <- MCRequests
INVARIANTS
  TypeOK
  ListsMatchUse
  ChainIsTheRest
  MemoryApart
  ObjectsFitTheirPages
  RequestsAreServed
\* The pools may run out, which is a panic.
CHECK_DEADLOCK FALSE
