\* Two channels of a process, two conversations each, and answers that come in
\* two parts, so that answers to two threads can arrive at the same time.  Six
\* blocks are enough for two lists of three entries, and for all MQCSPs.
SPECIFICATION Spec
CONSTANTS
  Channels = {c1, c2}
  MaxBlock = 6
  MaxConversations = 2
  Parts = 2
  ConfigFiles <- MCConfigFiles
  Definitions <- MCDefinitions
SYMMETRY Symmetry
INVARIANTS IInv NeverCrashes FirstMatch SendsOwnToken ClosedWithoutToken 
\* Channels that have ended are not used again by a client.
CHECK_DEADLOCK FALSE
