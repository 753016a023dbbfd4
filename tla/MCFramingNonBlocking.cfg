\* Non-blocking writer, payloads up to one chunk, and an oversize payload.
CONSTANTS
  HdrLen = 2
  Chunk = 2
  SockBuf = 3
  MsgMaxSize = 2
  Sizes = {1, 2, 3}
  MaxFrames = 3
  NonBlocking = TRUE
SPECIFICATION Spec
INVARIANTS TornOrIntact ValidFramesAccepted
CHECK_DEADLOCK FALSE
