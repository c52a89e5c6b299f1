SPECIFICATION Spec
CONSTANTS
  t1 = t1
  t2 = t2
  x = x
  y = y
  sub = sub
  m = m
  NULL = NULL
  DataArea = 1
  MaxBlk = 7
  Task = {t1, t2}
  Name = {x, y, sub, m}
  Ops <- MCOps
  Slots = 4
  FirstDir = sub
INVARIANTS TypeOK SpaceSound DirsSound FilesWhole
PROPERTIES ImplementsSpace
CHECK_DEADLOCK FALSE
