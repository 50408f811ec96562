CONSTANTS
  Conns = {c1}
  NoConn = NoConn
  MaxConnections = 1
  MaxStarts = 1
  MaxAppCloses = 0
  WrittenTo = {}
SPECIFICATION Spec
INVARIANT StopClosesAll
CHECK_DEADLOCK FALSE
