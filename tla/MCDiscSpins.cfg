\* Two connections, one of which has put a message.
SPECIFICATION Spec
CONSTANTS
  Conns = {1, 2}
  Hobjs = {}
  Blocks = {b1}
  Handles = {1}
  AppHandle = 9
  Spans = {}
  StateSpans = {}
  PmoKinds = {"neither"}
  Rfh2Kinds = {"no"}
  Pmos = {p1}
  Gmos = {}
  AppFlags = {}
  PropCtls = {"other"}
  UnusableAtDisc = FALSE
  App = App
  Null = Null
  None = None
PROPERTY DiscCompletes
\* The threads of two connections may both spin in MQDISC.
CHECK_DEADLOCK FALSE
