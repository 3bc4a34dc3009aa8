\* Two chats over a store of two entries.
SPECIFICATION Spec
CONSTANTS
  a = a
  b = b
  c = c
  x = x
  y = y
  p = p
  q = q
  Messages = {a, b, c, x, y}
  Capacity = 2
  Clients = {p, q}
  Histories <- MCHistories
  MaxRequests = 4
\* The clients stop after MaxRequests requests.
CHECK_DEADLOCK FALSE
INVARIANT ResumesPrefix
