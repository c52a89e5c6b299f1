SPECIFICATION Spec
CONSTANTS
  adam = adam
  user = user
  t1 = t1
  t2 = t2
  t3 = t3
  j1 = j1
  j2 = j2
  j3 = j3
  j4 = j4
  j5 = j5
  NULL = NULL
  Task = {adam, user, t1, t2}
  Adam = adam
  User = user
  Job = {j1, j2, j3, j4}
  MaxCalls = 4
  PopUpMasters = {user, t1, t2, t3}
  Servers = {adam}
INVARIANTS TypeOK RingSound JobOneOwner NoDangling WillWake
CHECK_DEADLOCK FALSE
