CONSTANTS
  HeapCtrl = {h1}
  NPags = 10
  BootChunks <- HostedChunks
  AllocedAtStart = 10
  Requests = {1,2}
  ChunkPags = {}
  HashSize = 3
  ExtraPags = 1
  NClass = 7
  Bsr <- MCBsr
  NULL = NULL
SPECIFICATION Spec
INVARIANTS BlksDisjoint
