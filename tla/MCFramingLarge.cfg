\* Blocking writer, a payload within MsgMaxSize but larger than one chunk.
CONSTANTS
  HdrLen = 2
  Chunk = 2
  SockBuf = 3
  MsgMaxSize = 3
  Sizes = {3}
  MaxFrames = 2
  NonBlocking = FALSE
SPECIFICATION Spec
INVARIANT ValidFramesAccepted
CHECK_DEADLOCK FALSE
