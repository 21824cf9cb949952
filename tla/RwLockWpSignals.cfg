CONSTANTS
  t1 = t1
  t2 = t2
  t3 = t3
  t4 = t4
  NULL = NULL
  Process <- MCProcess
  Interruptible = {t1, t2}
  Rec = FALSE
  MaxRec = 2
  Task <- MCProcess
  NoTask = NULL
SPECIFICATION MCSpec
INVARIANT
  NextWriterIsWoken
