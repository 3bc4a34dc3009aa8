\* Streams of up to seven units in chunks of up to three, over a cap of four bytes.
SPECIFICATION Spec
CONSTANTS
  MaxPendingLineBytes = 4
  ChunkUnits = 3
  StreamUnits = 7
INVARIANTS
  TypeOK
  LinesFaithful
\* The stream has ended.
CHECK_DEADLOCK FALSE
