CONSTANTS
  Sessions = {s1}
  Calls = {c1}
  NoSession = NoSession
  Requests = {{}}
  BufferLimit = 1
  ReplyLimit = 1
  MaxChunks = 1
SPECIFICATION SessionsSpec
PROPERTIES
  FinalOutputRead
CHECK_DEADLOCK FALSE
