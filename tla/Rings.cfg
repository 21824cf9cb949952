CONSTANTS
  MaxElems = 4
  Byte = {0, 1}
  MaxLen = 5
  irq1 = irq1
  task1 = task1
  worker = worker
  idle = idle
  nojob = nojob
  Irq = {irq1}
  Client <- MCClient
  Worker = worker
  Idle = idle
  Producer = {irq1, task1}
  Job = {irq1, task1}
  NoJob = nojob
  MaxJobs = 2
SPECIFICATION MCSpec
INVARIANTS
  RingInv
  NoJobForgotten
PROPERTIES
  IsBoundedQueue
  RingIsUsedAsDocumented
  JobsAreQueued
  CompletionIsReal
  JobSleepsUndisturbed
  JobsAreRun
  CompletionIsSeen
