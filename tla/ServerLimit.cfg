CONSTANTS
  Conns = {c1, c2}
  NoConn = NoConn
  MaxConnections = 1
  MaxStarts = 1
  MaxAppCloses = 0
  WrittenTo = {}
SPECIFICATION Spec
INVARIANT WithinLimit
SYMMETRY Symmetry
CHECK_DEADLOCK FALSE
