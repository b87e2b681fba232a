SPECIFICATION Spec
CONSTANTS
  VirtualPages = 1048576
  MaxSegments = 80
  BLOCKSIZE = 512
  PAGE_SIZE = 4096
  HYPERSPACE = 1047552
  InitStackPages = 2
  LOADER_MAX_MODULES = 512
  LOADER_MAX_SEGMENTS = 81
  ContextSize = 48
  ModuleSize = 12
  PhysicalSize = 12
  VirtualSize = 24
  Archives <- MCArchives
  MemoryMaps <- MCMemoryMaps
  CommandLines = {1, 9}
  Reservations <- MCReservations
  CopyTag = 19
INVARIANTS
  CopyStaysInItsPages
\* The kernel has been called, or the loader has stopped.
CHECK_DEADLOCK FALSE
