CONSTANTS
  idle = idle
  k1 = k1
  k2 = k2
  u1 = u1
  Task <- MCTask
  Idle = idle
  UserTask = {u1}
  TimedTask = {k1}
  MaxTicks = 2
  SemInit = 1
  SemMax = 2
  WaitUnits = {1}
  SignalUnits = {1, 2}
  WaitTicks = {0, 2}
SPECIFICATION KsemFairSpec
INVARIANT
  NoAssertFails
