---------------------------- MODULE ChannelCalls ----------------------------
(***************************************************************************)
(* What the channel exits amqsxlbl, extjwtexit and JmsJwtExit have in      *)
(* common: IBM MQ calls them at certain points of the life of a channel,   *)
(* and keeps the MQCXP, with its ExitUserArea, from one call to the next.  *)
(* What an exit allocates at one call it has to find, and to free, at      *)
(* another.                                                                *)
(***************************************************************************)
EXTENDS Integers, SequencesExt

CONSTANTS
  Channels,   \* uses of an exit, each with an MQCXP of its own
  MaxBlock    \* the heap has this many blocks

ASSUME ChannelCallsAssumption == MaxBlock \in Nat

VARIABLES
  program,       \* the exit that the channels of this process are configured with
  phase,         \* per channel: new, open, closing or ended
  ExitUserArea,  \* per channel: 0, or the address that the exit keeps there
  ExitResponse,  \* per channel, what the last call answered
  heap,          \* the heap of the process
  crashed        \* TRUE once a null pointer or a freed block has been used

callVars == <<program, phase, ExitUserArea, ExitResponse, heap, crashed>>

Programs == {"amqsxlbl", "extjwtexit", "JmsJwtExit"}
Phases == {"new", "open", "closing", "ended"}
Responses == {"OK", "SUPPRESS_FUNCTION", "CLOSE_CHANNEL"}

NULL == 0
Blocks == 1..MaxBlock
Addresses == Blocks \cup {NULL}

NoBlock == [kind |-> "free"]
Live == {b \in Blocks : heap[b] # NoBlock}
BlocksOf(c) == {b \in Live : heap[b].of = c}

(* malloc takes a free block of the heap h, or fails.                      *)
malloc(h) == 
  LET free == {b \in Blocks : h[b] = NoBlock} IN IF free = {} THEN NULL ELSE Min(free)

(* free() of these addresses.                                              *)
Freed(addresses) == [b \in Blocks |-> IF b \in addresses THEN NoBlock ELSE heap[b]]
Frees(addresses) ==
  /\ heap' = Freed(addresses)
  /\ crashed' = (crashed \/ ~(addresses \subseteq Live))

CallsInit ==
  /\ program \in Programs
  /\ phase = [c \in Channels |-> "new"]
  /\ ExitUserArea = [c \in Channels |-> NULL]
  /\ ExitResponse = [c \in Channels |-> "OK"]
  /\ heap = [b \in Blocks |-> NoBlock]
  /\ crashed = FALSE

Responds(c, response) == ExitResponse' = [ExitResponse EXCEPT ![c] = response]
Becomes(c, p) == phase' = [phase EXCEPT ![c] = p]

(* A call of channel c, whose process is still there and runs this exit.   *)
Called(c, exit, phases) == ~crashed /\ program = exit /\ phase[c] \in phases

CallsTypeOK ==
  /\ program \in Programs
  /\ phase \in [Channels -> Phases]
  /\ ExitUserArea \in [Channels -> Addresses]
  /\ ExitResponse \in [Channels -> Responses]
  /\ DOMAIN heap = Blocks
  /\ \A b \in Live : heap[b].kind \in {"entry", "csp"} /\ heap[b].of \in Channels
  /\ crashed \in BOOLEAN
=============================================================================
