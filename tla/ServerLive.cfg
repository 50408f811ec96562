CONSTANTS
  Conns = {c1}
  NoConn = NoConn
  MaxConnections = 1
  MaxStarts = 2
  MaxAppCloses = 0
  WrittenTo = {c1}
SPECIFICATION Spec
INVARIANT SettlesClosed
PROPERTIES HandlersEnd HandshakesEnd LoopsEnd
CHECK_DEADLOCK FALSE
