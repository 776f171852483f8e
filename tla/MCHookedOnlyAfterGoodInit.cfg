SPECIFICATION Spec
CONSTANTS
  Conns = {c1, c2}
  NoConn = NoConn
PROPERTY HookedOnlyAfterGoodInit
CHECK_DEADLOCK FALSE
