SPECIFICATION MCSpec
CONSTANTS
  Sinks <- MCSinks
  Planes <- MCPlanes
  Crtcs <- MCCrtcs
  Kernels <- MCKernels
  Others = 2
  MaxCalls = 3
  MaxChanges = 2
CHECK_DEADLOCK FALSE
INVARIANTS
  TypeOK
  HeapExact
  CacheIsSink
  CopyIsRead
