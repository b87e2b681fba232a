SPECIFICATION Spec
CONSTANTS
  VirtualPages = 64
  TablePages = 8
  MaxSegments = 15
  Sections <- MCSections
  KernelBase = 20
  StackPages = 1
  ContextPages = 1
  PfdPages = 1
  PoolPages = 3
  DmaPages = 2
  VgaPages = 1
  VgaRequest = 2
  TopFrame = 22
  Ram <- MCRam
  DmaFrame = 1
  VgaFrame = 3
  MaxRegions = 4
INVARIANTS
  TypeOK
  MappedPagesReserved
  OneOwnerPerFrame
  FreeFramesUnmapped
  RegionsApart
PROPERTIES
  MappingsStable
\* A panic stops the machine.
CHECK_DEADLOCK FALSE
