CONSTANTS
  kernel = kernel
  compiler = compiler
  m1 = m1
  m2 = m2
  m3 = m3
  Kernel = kernel
  Compiler = compiler
  Module = {compiler, m1, m2, m3}
  Adam = adam
  User = user
  PatchTable <- MCPatchTable
  BigAddend16 <- MCBigAddend16
  HostAPI <- MCHostAPI
  Jit <- MCJit
  Entries = {"InitRuntime", "KMain"}
  NULL = NULL
  CommandLines <- MCCommandLines
  Pages = {0, 1, 2, 3, 4}
  FixedArea = {0}
  KernelArea = {1}
  Image = {2}
  FlatArea = {4}
SPECIFICATION Spec
INVARIANTS ProcTypeOK NoneForgotten BoundByName RelocatedOnce NearestSymbol GuestIsReady FsIsCurTask
PROPERTIES BoundForGood
CHECK_DEADLOCK FALSE
