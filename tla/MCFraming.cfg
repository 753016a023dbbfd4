\* Blocking writer, payloads up to one kernel chunk: the IPC routing case.
CONSTANTS
  HdrLen = 2
  Chunk = 2
  SockBuf = 3
  MsgMaxSize = 2
  Sizes = {1, 2}
  MaxFrames = 4
  NonBlocking = FALSE
SPECIFICATION Spec
INVARIANTS TypeOK FramesIntact ValidFramesAccepted
PROPERTY FrameQueueSpec
CHECK_DEADLOCK FALSE
