CONSTANTS
  Conns = {c1, c2}
  NoConn = NoConn
  MaxConnections = 1
  MaxStarts = 1
  MaxAppCloses = 1
  WrittenTo = {}
SPECIFICATION Spec
INVARIANTS TypeOK NoGhosts NoOpenSocketLeft CallbacksPaired SettlesClosed
SYMMETRY Symmetry
CHECK_DEADLOCK FALSE
