\* A thread in each of two processes.
SPECIFICATION Spec
CONSTANTS
  Procs = {zx, la}
  Primary = zx
  Slots = {1}
  MaxCalls = 1
  NoThread = NoThread
  NoProc = NoProc
INVARIANT LinesWhole
CHECK_DEADLOCK FALSE
