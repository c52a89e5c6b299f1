CONSTANTS
  HeapCtrl = {h1, h2}
  NPags = 4
  BootChunks <- TwoChunks
  AllocedAtStart = 1
  Requests = {1, 2}
  ChunkPags = {1}
  HashSize = 2
  ExtraPags = 1
  NClass = 6
  Bsr <- MCBsr
  NULL = NULL
SYMMETRY HeapCtrlSymmetry
SPECIFICATION Spec
INVARIANTS TypeOK BlksDisjoint NoPagLost UsedCounted QueuesSound
PROPERTIES ImplementsPagePool
