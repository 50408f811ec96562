CONSTANTS
  U24 = 8
  U32 = 16
  MaxChunkSize = 3
  ChunkStreams = {2, 3, 64}
  LastAutoID = 3
  WindowAckSize = 1
  Messages <- MCMessages
  Sizes = {0, 1, 2, 4}
  InitialSize = 2
  Steady = TRUE
  MaxSent = 2
SPECIFICATION LinkSpec
INVARIANT TimestampsIntact
CHECK_DEADLOCK FALSE
