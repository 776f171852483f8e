---------------------------- MODULE ChannelExits ----------------------------
(***************************************************************************)
(* A process whose channels are all configured with one of the exits       *)
(* amqsxlbl, extjwtexit and JmsJwtExit: IBM MQ calls it on the channels'   *)
(* threads, which share the heap.                                          *)
(***************************************************************************)
EXTENDS LabelMap, JwtLogin

vars == <<callVars, labelVars, loginVars>>

(* What the exits that are not configured would use stays as it is.        *)
Init ==
  /\ CallsInit /\ LabelInit /\ LoginInit
  /\ program \in Logins => configFile = NoFile
  /\ program = "amqsxlbl" => endpoint

Next ==
  \/ /\ EditConfigFile \/ \E c \in Channels : LabelCall(c)
     /\ UNCHANGED loginVars
  \/ /\ \E c \in Channels : LoginCall(c)
     /\ UNCHANGED labelVars

Spec == Init /\ [][Next]_vars

-----------------------------------------------------------------------------
(* Properties.                                                             *)

(* No exit uses a block that is not allocated, frees one twice, or follows *)
(* a null pointer: not when a channel starts again with the ExitUserArea   *)
(* that its MQXR_TERM has left, and not when the file is empty, missing or *)
(* changed in between.                                                     *)
NeverCrashes == ~crashed

(* A cluster sender channel gets the label that the file, as it was at     *)
(* MQXR_INIT, promises it, and goes on; only a definition too old for a    *)
(* label stops.  Names as long as they may be, and lines that are ignored  *)
(* before the one that matches, make no difference.                        *)
FirstMatch ==
  \A c \in Channels : definition[c] # NoDefinition =>
    IF definition[c].Version >= MQCD_VERSION_11
    THEN ExitResponse[c] = "OK" /\ certlabl[c] = Promised(asRead[c], definition[c])
    ELSE ExitResponse[c] = "SUPPRESS_FUNCTION" /\ certlabl[c] = Blank

(* A token that the queue manager is sent for a conversation of a channel  *)
(* is the token server's answer to that very conversation, whole: never a  *)
(* part of it, never what was answered to another thread or to an earlier  *)
(* conversation.  With the endpoint set JmsJwtExit never sends nothing.    *)
(* (Nothing is said of the conversations that send the application's own   *)
(* MQCSP, nor of what is sent when JmsJwtExit's second request fails.)     *)
SendsOwnToken ==
  \A c \in Channels :
    /\ sent[c] \notin {NotYet, NoCsp, Applications} =>
         /\ sent[c].of = c /\ sent[c].conversation = conversations[c]
         /\ answers[c] # <<>>
         /\ IsToken(Last(answers[c])) => sent[c] = Last(answers[c])
    /\ sent[c] = NoCsp /\ program = "JmsJwtExit" => ~endpoint

(* No MQCSP of the exit's own takes the place of one that the application  *)
(* has given for the conversation.  The comment of extjwtexit says so; its *)
(* code never looks, and puts its own there whenever it gets a token.      *)
GivenCspKept ==
  [][\A c \in Channels :
       pc[c] # "idle" /\ SecurityParms[c] = AppCsp => SecurityParms'[c] \notin Blocks]_vars

(* A channel is closed if and only if the first request of a conversation  *)
(* has brought no token, and then nothing is sent for that conversation.   *)
ClosedWithoutToken ==
  program \in Logins => \A c \in Channels : 
    /\ phase[c] = "closing" <=> 
         answers[c] # <<>> /\ ~IsToken(answers[c][1]) /\ phase[c] # "ended"
    /\ phase[c] = "closing" => sent[c] = NotYet

(* A channel that has ended leaves nothing on the heap but the MQCSPs of   *)
(* earlier conversations, which extjwtexit loses; and the only MQCSP of an *)
(* application that it frees is one it has found when a login failed.      *)
LeavesNothing ==
  \A c \in Channels : 
    /\ phase[c] = "ended" =>
         \/ BlocksOf(c) = {}
         \/ program = "extjwtexit" /\ Cardinality(BlocksOf(c)) < conversations[c]
    /\ misfreed[c] => program = "extjwtexit" /\ ~IsToken(Last(answers[c]))

-----------------------------------------------------------------------------
(* The invariants that these rest on.                                      *)

TypeOK == CallsTypeOK /\ LabelTypeOK /\ LoginTypeOK

(* What a conversation has sent, for every way in which it can go.         *)
SentInv(c) ==
  sent[c] # NotYet =>
    \/ /\ answers[c] # <<>> /\ OwnAnswer(c, Last(answers[c]))
       /\ sent[c] = Used(Last(answers[c]))
    \/ sent[c] = Applications /\ program = "JmsJwtExit" /\ answers[c] = <<>>
    \/ sent[c] = NoCsp /\ (program = "JmsJwtExit" => ~endpoint)

(* The part that is inductive without a look at the lists of amqsxlbl.     *)
LoginsInv ==
  /\ program \in Programs /\ phase \in [Channels -> Phases] 
  /\ LoginTypeOK
  /\ program \notin Logins => \A c \in Channels :
       pc[c] = "idle" /\ sent[c] = NotYet /\ ~misfreed[c]
  /\ program \in Logins => 
       /\ ExitUserArea = [c \in Channels |-> NULL]
       /\ heap \in [Blocks -> Csps \cup {NoBlock}]
       /\ ~crashed
       /\ \A c \in Channels : LoginInv(c) /\ SentInv(c)

IInv == 
  /\ TypeOK /\ LoginsInv
  /\ program = "amqsxlbl" => LabelsInv
  /\ program # "amqsxlbl" => \A c \in Channels : definition[c] = NoDefinition
=============================================================================
