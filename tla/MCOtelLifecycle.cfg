\* Three overlapping connections: two that hold a resource while a third
\* one comes or goes, and one connection more than a generation needs.
SPECIFICATION Spec
CONSTANTS
  Conns = {c1, c2, c3}
  NoConn = NoConn
INVARIANTS IInv LastOutCleansUp
PROPERTIES LibraryIsShared LogIsShared HookKeepsItsCode ExitReturns
\* A process that has made all its connections stops.
CHECK_DEADLOCK FALSE
