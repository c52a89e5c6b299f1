SPECIFICATION Spec
CONSTANTS
  t1 = t1
  t2 = t2
  t3 = t3
  f1 = f1
  f2 = f2
  A = A
  C = C
  M = M
  NULL = NULL
  Task = {t1, t2, t3}
  Adam = t1
  Drv = {A, C, M}
  Type <- MCType
  FileDrv <- MCFileDrv
  Files = {f1, f2}
  IsRedSea = {f1}
  Uses <- MCUses
  Blks = {0, 1}
  CacheBlks = 1
INVARIANTS TypeOK HeldAtWork  DeadHoldNothing
PROPERTIES LockGranted
CHECK_DEADLOCK FALSE
