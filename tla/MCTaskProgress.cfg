\* Four updates of the parser over five ticks, three to the interval; the wall clock may
\* be set two ticks back or forth.
SPECIFICATION FairSpec
CONSTANTS
  MinInterval = 3
  Skews <- MCSkews
  MaxTime = 8
  MaxUpdates = 4
INVARIANTS
  TypeOK
  ShownInOrder
  LastWordIsVerdict
  Throttled
PROPERTIES
  NothingAfterSettle
  PendingShown
\* The call has settled and the time is up.
CHECK_DEADLOCK FALSE
