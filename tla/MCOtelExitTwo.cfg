\* Two connections that open, put, get and disconnect, with one kind of MQPUT.
\* Two structures, so that each connection can have one in flight.
SPECIFICATION Spec
CONSTANTS
  Conns = {1, 2}
  Hobjs = {1}
  Blocks = {b1, b2}
  Handles = {1}
  AppHandle = 9
  Spans = {}
  StateSpans = {}
  PmoKinds = {"neither"}
  Rfh2Kinds = {"no"}
  Pmos = {p1}
  Gmos = {g1}
  AppFlags = {}
  PropCtls = {"other"}
  UnusableAtDisc = TRUE
  App = App
  Null = Null
  None = None
SYMMETRY AddressSymmetry
INVARIANTS IInv InFlightOptionsLive DiscForgets
PROPERTIES DiscOnlyOwn
\* The threads of two connections may both spin in MQDISC.
CHECK_DEADLOCK FALSE
