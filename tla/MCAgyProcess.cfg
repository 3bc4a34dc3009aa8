\* One call of runAgy, every order of its events.
SPECIFICATION FairSpec
CONSTANTS
  MaxStdout = 2
  MaxStderr = 1
  OutputBound = 4
  Chunks <- MCChunks
INVARIANTS
  TypeOK
  QuietAfterSettle
  ReapedOrKilled
  ResolvedComplete
  OverflowReported
PROPERTIES
  KeepsContract
  LiveRunSettles
\* A settled run takes no further step.
CHECK_DEADLOCK FALSE
