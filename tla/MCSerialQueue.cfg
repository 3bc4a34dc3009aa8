\* Five jobs on a line of two: one runs, two wait, two are turned away or left for
\* later; every job may be aborted at every point.
SPECIFICATION FairQueueSpec
CONSTANTS
  Jobs = {j1, j2, j3, j4, j5}
  MaxLength = 2
INVARIANTS
  QueueTypeOK
  OneAtATime
  LineIsLive
  NoIdleSlot
  StartsInOrder
PROPERTIES
  RefusedOnlyWhenFull
  WaitersServed
\* Every job has been pushed and settled, and every signal has fired.
CHECK_DEADLOCK FALSE
