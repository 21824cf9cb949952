CONSTANTS
  p1 = p1
  p2 = p2
  p3 = p3
  Process <- MCProcess
  Interruptible = {p1}
  NonBlock = {p3}
  Size = 2
  MaxLen = 2
SPECIFICATION PipeFairSpec
INVARIANTS
  DataIsWatched
  SpaceIsWatched
PROPERTIES
  DataIsRead
  SpaceIsUsed
