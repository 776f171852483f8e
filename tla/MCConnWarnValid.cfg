\* Two channels that validate at the same time, with descriptors enough.
SPECIFICATION Spec
CONSTANTS
  Channels = {c1, c2}
  MaxFd = 9
  NoChannel = NoChannel
INVARIANT MQCSPValid
CHECK_DEADLOCK FALSE
