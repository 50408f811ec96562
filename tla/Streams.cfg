CONSTANTS
  Conns = {c1, c2}
  Names = {live, film}
  MaxStreams = 2
SPECIFICATION Spec
INVARIANTS StreamsTypeOK SubscribedOnce LeavesNothingBehind
PROPERTY ImplementsRegistry
SYMMETRY Alike
CHECK_DEADLOCK FALSE
