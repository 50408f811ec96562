CONSTANTS
  U24 = 8
  U32 = 8
  MaxChunkSize = 2
  ChunkStreams = {3, 64}
  WindowAckSize = 2
  MaxReceived = 2
  PeerHeaders <- MCPeerHeaders
  PeerData <- MCPeerData
SPECIFICATION Spec
INVARIANTS ReaderTypeOK AssemblyInBounds NoHoles
CHECK_DEADLOCK FALSE
