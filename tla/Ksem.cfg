CONSTANTS
  idle = idle
  k1 = k1
  k2 = k2
  u1 = u1
  Task <- MCTask
  Idle = idle
  UserTask = {u1}
  TimedTask = {k1}
  MaxTicks = 1
  SemInit = 1
  SemMax = 3
  WaitUnits = {1, 2}
  SignalUnits = {1, 2}
  WaitTicks = {0}
SPECIFICATION KsemFairSpec
INVARIANT
  SemInv
PROPERTIES
  SingleUnitsAreWatched
  SingleWaitersAreServed
