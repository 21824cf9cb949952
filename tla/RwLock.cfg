CONSTANTS
  t1 = t1
  t2 = t2
  t3 = t3
  t4 = t4
  NULL = NULL
  Process <- MCMoreProcesses
  Interruptible = {t1}
  Rec = TRUE
  MaxRec = 2
  Task <- MCMoreProcesses
  NoTask = NULL
SPECIFICATION MCSpec
INVARIANTS
  WpInv
  NoAssertFails
  QuietWriterIsWoken
  NobodySleepsWithoutWriter
  RpInv
PROPERTIES
  ReadersXorWriter
  NextWriterGetsIn
  RpReadersXorWriter
