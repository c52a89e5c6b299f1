SPECIFICATION Spec
CONSTANTS
  t1 = t1
  t2 = t2
  t3 = t3
  f1 = f1
  f2 = f2
  A = A
  C = C
  M = M
  NULL = NULL
  Task = {t1}
  Adam = t1
  Drv = {A, C, M}
  Type <- MCType
  FileDrv <- MCFileDrv
  Files = {f1, f2}
  IsRedSea = {f1}
  Uses <- OneUser
  Blks = {0}
  CacheBlks = 2
INVARIANTS ReadsDrv
CHECK_DEADLOCK FALSE
