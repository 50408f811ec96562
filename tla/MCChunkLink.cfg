CONSTANTS
  U24 = 8
  U32 = 16
  MaxChunkSize = 3
  ChunkStreams = {2, 3, 64}
  LastAutoID = 3
  WindowAckSize = 1
  Messages <- MCMessages
  Sizes = {0, 1, 2, 4}
  InitialSize = 2
  Steady = TRUE
  MaxSent = 3
SPECIFICATION LinkSpec
INVARIANTS LinkTypeOK Aligned HeadersAgree SizesAgree
PROPERTIES ImplementsFifo EveryMessageArrives
CHECK_DEADLOCK FALSE
