\* As MCChatStream.cfg.
SPECIFICATION Spec
CONSTANTS
  Events <- MCEvents
  Chats <- MCChats
  MaxOutputChars = 3
  MaxDiagnostics = 1
  MaxLines = 4
\* The stream has been parsed.
CHECK_DEADLOCK FALSE
INVARIANT BridgedOnce
