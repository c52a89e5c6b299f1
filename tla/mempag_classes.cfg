CONSTANTS
  HeapCtrl = {h1}
  NPags = 11
  BootChunks <- LargeChunk
  AllocedAtStart = 1
  Requests = {2, 4, 5}
  ChunkPags = {}
  HashSize = 3
  ExtraPags = 1
  NClass = 7
  Bsr <- MCBsr
  NULL = NULL
SPECIFICATION Spec
PROPERTIES AllocEnough
