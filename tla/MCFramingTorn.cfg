\* Non-blocking writer: a write() that returns a partial count is success.
CONSTANTS
  HdrLen = 2
  Chunk = 2
  SockBuf = 3
  MsgMaxSize = 3
  Sizes = {1, 3}
  MaxFrames = 3
  NonBlocking = TRUE
SPECIFICATION Spec
INVARIANT FramesIntact
CHECK_DEADLOCK FALSE
