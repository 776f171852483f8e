\* The primary process and another, two threads and one request each: a
\* request after a secondary OATerm of the primary process, threads of one
\* process and of two that meet at the mutex and at the lock.
SPECIFICATION Spec
CONSTANTS
  Procs = {zx, la}
  Primary = zx
  Slots = {1, 2}
  MaxCalls = 1
  NoThread = NoThread
  NoProc = NoProc
INVARIANTS IInv ThreadsDontInterleave AuditComplete
PROPERTIES CallReturns
\* A queue manager that has ended stops.
CHECK_DEADLOCK FALSE
