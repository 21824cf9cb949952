CONSTANTS
  idle = idle
  k1 = k1
  k2 = k2
  u1 = u1
  NULL = NULL
  Task <- MCTask
  Idle = idle
  UserTask = {u1}
  TimedTask = {k1}
  MaxTicks = 2
  Recursive = TRUE
  MaxDepth = 2
SPECIFICATION KcondFairSpec
INVARIANTS
  KcondInv
  NoAssertFails
  SleepersCanBeWoken
  OwnerIsAwake
  NoStaleTimer
PROPERTIES
  MutualExclusion
  ConditionVariable
  LockIsGranted
  BoundedWaitEnds
