\* Three requests over a line of one: a stream that may relay bridged tools and two
\* JSON replies; the retry limits are those of the source.
SPECIFICATION FairSpec
CONSTANTS
  Jobs = {r1, r2, r3}
  MaxLength = 1
  Streaming = {r1}
  Bridging = {r1}
  MAX_ELIGIBILITY_RETRIES = 3
  MAX_EMPTY_OUTPUT_RETRIES = 1
  MaxFrames = 3
  MaxRestarts = 0
\* Every request has been answered or left.
CHECK_DEADLOCK FALSE
INVARIANT OneTaskAtATime
