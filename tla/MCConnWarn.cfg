\* Two channels, one of which may have all it needs (5 descriptors at most) while
\* the other is anywhere; with 7 descriptors pipe() can fail.
SPECIFICATION Spec
CONSTANTS
  Channels = {c1, c2}
  MaxFd = 7
  NoChannel = NoChannel
INVARIANTS IInv Reported OnlyPasswordEndLeft NothingBehind
CONSTRAINT Bounded
PROPERTY CallsReturn
CHECK_DEADLOCK FALSE
