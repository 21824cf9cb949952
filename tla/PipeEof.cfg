CONSTANTS
  p1 = p1
  p2 = p2
  p3 = p3
  Process <- MCProcess
  Interruptible = {p1}
  NonBlock = {}
  Size = 2
  MaxLen = 2
SPECIFICATION PipeSpec
INVARIANT
  EndOfFileIsSeen
