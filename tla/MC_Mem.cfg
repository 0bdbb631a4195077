CONSTANTS
  Word = 32
  PAGE_SIZE = 4
  MIN_ALLOC_PHYS_ADDR = 8
  MemoryMaps <- MCMemoryMaps
  HEAP_START = 4
  HeapPages = 2
  MaxTables = 1
  Layouts <- MCLayouts
  SmokeBox <- MCSmokeBox
  SmokeVec <- MCSmokeVec
SPECIFICATION Spec
INVARIANT TypeOK
INVARIANT FramesValid
PROPERTY FramesAscending
INVARIANT UsableFramesReported
INVARIANT HeapBlocksSound
