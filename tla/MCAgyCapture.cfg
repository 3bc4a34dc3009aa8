\* One call of runAgy, every order of its events.
SPECIFICATION Spec
CONSTANTS
  MaxStdout = 2
  MaxStderr = 1
  OutputBound = 4
  Chunks <- MCChunks
INVARIANT CaptureBounded
\* A settled run takes no further step.
CHECK_DEADLOCK FALSE
