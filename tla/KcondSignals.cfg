CONSTANTS
  idle = idle
  k1 = k1
  k2 = k2
  u1 = u1
  NULL = NULL
  Task <- MCTask
  Idle = idle
  UserTask = {u1}
  TimedTask = {k1, u1}
  MaxTicks = 2
  Recursive = FALSE
  MaxDepth = 1
SPECIFICATION KcondSpec
INVARIANT
  NoAssertFails
