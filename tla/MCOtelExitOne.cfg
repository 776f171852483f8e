\* One connection that opens, closes, puts, gets, consumes and disconnects.
\* Two structures: that of the calls without an object (MQPUT1, MQGET) and that
\* of the open object; when a hook would need a third, the behaviour is not
\* followed further.
SPECIFICATION Spec
CONSTANTS
  Conns = {1}
  Hobjs = {1}
  Blocks = {b1, b2}
  Handles = {1, 2}
  AppHandle = 9
  Spans = {s1}
  StateSpans = {s1}
  PmoKinds = {"new", "original", "neither"}
  Rfh2Kinds = {"no", "context"}
  Pmos = {p1}
  Gmos = {g1}
  AppFlags = {"NO_PROPERTIES"}
  PropCtls = {"other"}
  UnusableAtDisc = TRUE
  App = App
  Null = Null
  None = None
INVARIANTS IInv PmoRestored NoDanglingEntries OneLivingHandle LinkIsThisMessage
PROPERTIES NewHandleKept OwnDiscCompletes
\* A thread whose MQDISC hook is shown the unusable hConn spins.
CHECK_DEADLOCK FALSE
