\* Streams of up to four lines over a text of three units and one diagnostic.
SPECIFICATION Spec
CONSTANTS
  Events <- MCEvents
  Chats <- MCChats
  MaxOutputChars = 3
  MaxDiagnostics = 1
  MaxLines = 4
INVARIANTS
  StreamTypeOK
  VerdictByStream
  RepliesFaithful
  UsageCountedOnce
  DiagnosticsAccounted
  HostGetsNamedPath
\* The stream has been parsed.
CHECK_DEADLOCK FALSE
