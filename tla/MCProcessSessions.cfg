CONSTANTS
  Sessions = {s1}
  Calls = {c1, c2}
  NoSession = NoSession
  Requests = {{}, {"chars", "close_stdin"}, {"interrupt", "terminate"}}
  BufferLimit = 2
  ReplyLimit = 1
  MaxChunks = 3
SPECIFICATION FairSessionsSpec
INVARIANTS
  OutputAccounted
  OutputInOrder
  RunningIsReachable
PROPERTIES
  FinishedForgotten
  CallsReturn
CHECK_DEADLOCK FALSE
