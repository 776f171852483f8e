\* One channel with one conversation, whose token comes in one part.
SPECIFICATION Spec
CONSTANTS
  Channels = {c1}
  MaxBlock = 2
  MaxConversations = 1
  Parts = 1
  ConfigFiles <- MCConfigFiles
  Definitions <- MCDefinitions
PROPERTY GivenCspKept
\* Channels that have ended are not used again by a client.
CHECK_DEADLOCK FALSE
