------------------------------ MODULE JwtLogin ------------------------------
(***************************************************************************)
(* The client security exits extjwtexit (C, channel/extjwtexit/            *)
(* extjwtexit.c) and JmsJwtExit (Java, channel/jmsjwtexit), which log a    *)
(* client in: at MQXR_SEC_PARMS they ask a token server for a token and    *)
(* put it into an MQCSP, which MQ then sends to the queue manager.         *)
(*                                                                         *)
(* MQXR_SEC_PARMS comes for each conversation of a channel (the output in  *)
(* jmsjwtexit/README.md has two before one MQXR_TERM).  MQ comes with the  *)
(* application's MQCSP, if there is one.                                   *)
(***************************************************************************)
EXTENDS ChannelCalls

CONSTANTS
  MaxConversations,  \* of a channel
  Parts              \* the token server answers in this many parts

ASSUME JwtLoginAssumption ==
  MaxConversations \in Nat \ {0} /\ Parts \in Nat \ {0}

VARIABLES
  endpoint,       \* TRUE if JWT_TOKEN_ENDPOINT is set in the environment
  pc,             \* per channel, where its thread is
  conversations,  \* per channel, how many it has begun
  SecurityParms,  \* per channel: NULL, the application's MQCSP, or a block
  body,           \* per channel, what the token server is answering
  chunk,          \* per channel, what has come of it
  answers,        \* per channel, what was answered to this conversation
  sent,           \* per channel, what MQ has sent to the queue manager for it
  misfreed        \* per channel, TRUE if the exit has freed the application's MQCSP

loginVars == <<endpoint, pc, conversations, SecurityParms, body, chunk, answers, sent, misfreed>>

Logins == {"extjwtexit", "JmsJwtExit"}

AppCsp == -1    \* the address of the MQCSP that the application has

(* An answer of the token server: a token, the empty string for a token,   *)
(* a body without one, or none because the request failed.                 *)
Answer(what, c, n) == [what |-> what, of |-> c, conversation |-> n]
Kinds == {"token", "empty", "unusable", "failed"}
IsToken(answer) == answer.what \in {"token", "empty"}

(* Other things that may be sent to the queue manager, or not yet.         *)
NotYet == [what |-> "notyet"]
NoCsp == [what |-> "none"]
Applications == [what |-> "application"]

LoginInit ==
  /\ endpoint \in BOOLEAN
  /\ pc = [c \in Channels |-> "idle"]
  /\ conversations = [c \in Channels |-> 0]
  /\ SecurityParms = [c \in Channels |-> NULL]
  /\ body = [c \in Channels |-> NotYet]
  /\ chunk = [c \in Channels |-> <<>>]
  /\ answers = [c \in Channels |-> <<>>]
  /\ sent = [c \in Channels |-> NotYet]
  /\ misfreed = [c \in Channels |-> FALSE]

Goes(c, from, to) == pc[c] = from /\ pc' = [pc EXCEPT ![c] = to]

(* MQXR_INIT, at which neither exit does anything.                         *)
LoginInitCall(c) ==
  /\ program \in Logins /\ phase[c] = "new" /\ ~crashed
  /\ Becomes(c, "open")
  /\ UNCHANGED <<program, ExitUserArea, ExitResponse, heap, crashed, loginVars>>

(* MQ begins a conversation, with or without an MQCSP of the application,  *)
(* and calls the exit for MQXR_SEC_PARMS, which goes on in its own way.    *)
SecParms(c, to) ==
  /\ phase[c] = "open" /\ ~crashed
  /\ conversations[c] < MaxConversations
  /\ pc[c] = "idle"
  /\ conversations' = [conversations EXCEPT ![c] = @ + 1]
  /\ \E given \in {NULL, AppCsp} : 
       /\ SecurityParms' = [SecurityParms EXCEPT ![c] = given]
       /\ pc' = [pc EXCEPT ![c] = to[given]]
  /\ answers' = [answers EXCEPT ![c] = <<>>]
  /\ sent' = [sent EXCEPT ![c] = NotYet]
  /\ Responds(c, "OK")

Answered(c, answer) == answers' = [answers EXCEPT ![c] = Append(@, answer)]
Says(c, what) == Answer(what, c, conversations[c])

CspWith(c, answer) == [kind |-> "csp", of |-> c, token |-> answer]

(* With the channel going on.                                              *)
GoOnAnyway(c) ==
  /\ Goes(c, pc[c], "returned")
  /\ UNCHANGED <<ExitResponse, phase, heap, SecurityParms>>

(* Without a token the channel is to be closed.                            *)
CloseChannel(c) ==
  /\ Goes(c, pc[c], "idle")
  /\ Responds(c, "CLOSE_CHANNEL") /\ Becomes(c, "closing")
  /\ UNCHANGED <<heap, SecurityParms>>

-----------------------------------------------------------------------------
(* extjwtexit.                                                             *)

(* It asks for a token whether there is an MQCSP or not.                   *)
SecParmsC(c) ==
  /\ program = "extjwtexit"
  /\ SecParms(c, [given \in {NULL, AppCsp} |-> "receiving"])
  /\ \E what \in Kinds \ {"failed"} : 
       body' = [body EXCEPT ![c] = Answer(what, c, conversations'[c])]
  /\ chunk' = [chunk EXCEPT ![c] = <<>>]
  /\ UNCHANGED <<program, phase, ExitUserArea, heap, crashed, endpoint, misfreed>>

(* curl hands over the next part of the answer.                            *)
NextPart(c) == [of |-> body[c], part |-> Len(chunk[c]) + 1]

(* With one buffer for all threads.                                        *)
WriteToShared(c) ==
  /\ pc[c] = "receiving" /\ endpoint /\ Len(chunk[c]) < Parts /\ ~crashed
  /\ chunk' = [d \in Channels |-> Append(chunk[c], NextPart(c))]
  /\ UNCHANGED <<callVars, endpoint, pc, conversations, SecurityParms, body, answers, sent, misfreed>>

WriteMemoryCallback(c) ==
  /\ pc[c] = "receiving" /\ endpoint /\ Len(chunk[c]) < Parts /\ ~crashed
  /\ chunk' = [chunk EXCEPT ![c] = Append(@, NextPart(c))]
  /\ UNCHANGED <<callVars, endpoint, pc, conversations, SecurityParms, body, answers, sent, misfreed>>

(* AuthTokenLogin fails: no curl handle, no endpoint, no connection, one   *)
(* that breaks, or no memory for the next part.                            *)
LoginFails(c) ==
  /\ pc[c] = "receiving" /\ ~crashed
  /\ Answered(c, Says(c, "failed"))
  /\ chunk' = [chunk EXCEPT ![c] = <<>>]
  /\ CloseChannel(c)
  /\ UNCHANGED <<program, ExitUserArea, crashed, endpoint, conversations, body, sent, misfreed>>

(* RetrieveTokenFromResponse: a response that has ended early is not JSON. *)
Whole(parts) == 
  Len(parts) = Parts /\ \A i \in 1..Parts : parts[i] = [of |-> parts[1].of, part |-> i]

RetrieveTokenFromResponse(c) ==
  IF Whole(chunk[c]) THEN chunk[c][1].of ELSE Says(c, "unusable")

(* The MQCSP for the token replaces whatever there was, also if there is   *)
(* no memory for one: the code never looks for one of the application's.   *)
LoginDone(c) ==
  LET token == RetrieveTokenFromResponse(c) IN
  /\ pc[c] = "receiving" /\ endpoint /\ ~crashed
  /\ chunk' = [chunk EXCEPT ![c] = <<>>]
  /\ IF Whole(chunk[c]) THEN Answered(c, body[c]) ELSE Answered(c, token)
  /\ \/ ~IsToken(token) /\ CloseChannel(c)
     \/ /\ IsToken(token)
        /\ Goes(c, "receiving", "returned")
        /\ \E b \in {NULL, malloc(heap)} :
             /\ SecurityParms' = [SecurityParms EXCEPT ![c] = b]
             /\ heap' = IF b = NULL THEN heap ELSE [heap EXCEPT ![b] = CspWith(c, token)]
        /\ UNCHANGED <<ExitResponse, phase>>
  /\ UNCHANGED <<program, ExitUserArea, crashed, endpoint, conversations, body, sent, misfreed>>

(* MQXR_TERM.  The mark in the ExitUserArea that says the exit has         *)
(* allocated the MQCSP is 0, as is an ExitUserArea without a mark.         *)
SUCCESS == 0

(* With nothing freed.                                                     *)
KeepSecurityParms(c) == UNCHANGED <<heap, crashed, misfreed>>

FreeSecurityParms(c) ==
  IF SecurityParms[c] # NULL /\ ExitUserArea[c] = SUCCESS
  THEN /\ Frees({SecurityParms[c]} \ {AppCsp})
       /\ misfreed' = [misfreed EXCEPT ![c] = SecurityParms[c] = AppCsp]
  ELSE UNCHANGED <<heap, crashed, misfreed>>

TermC(c) ==
  /\ Called(c, "extjwtexit", {"open", "closing"}) /\ pc[c] = "idle"
  /\ FreeSecurityParms(c)
  /\ Becomes(c, "ended") /\ Responds(c, "OK")
  /\ UNCHANGED <<program, ExitUserArea, endpoint, pc, conversations, SecurityParms, 
                 body, chunk, answers, sent>>

-----------------------------------------------------------------------------
(* JmsJwtExit.  An MQCSP of the application is left alone.  Objects that   *)
(* are no longer referred to are collected.                                *)
SecParmsJms(c) ==
  /\ program = "JmsJwtExit"
  /\ SecParms(c, [given \in {NULL, AppCsp} |-> 
                   IF given = AppCsp \/ ~endpoint THEN "returned" ELSE "asking"])
  /\ heap' = Freed(BlocksOf(c))
  /\ UNCHANGED <<program, phase, ExitUserArea, crashed, endpoint, body, chunk, misfreed>>

(* The first obtainToken is only to see if there is a token: it returns "" *)
(* when the request or the reading of its answer fails.  (Without an       *)
(* endpoint it throws, which is printed and else ignored: see above.)      *)
FirstObtainToken(c) ==
  /\ pc[c] = "asking"
  /\ \E what \in Kinds :
       LET answer == Says(c, what) IN
       /\ Answered(c, answer)
       /\ IF IsToken(answer)
          THEN Goes(c, "asking", "askingAgain") /\ UNCHANGED <<ExitResponse, phase, heap, SecurityParms>>
          ELSE CloseChannel(c)
  /\ UNCHANGED <<program, ExitUserArea, crashed, endpoint, conversations, 
                 body, chunk, sent, misfreed>>

(* The second one is what is used, whatever it returns.                    *)
Used(answer) == IF IsToken(answer) THEN answer ELSE [answer EXCEPT !.what = "empty"]

SecondObtainToken(c) ==
  /\ Goes(c, "askingAgain", "returned")
  /\ \E what \in Kinds :
       LET answer == Says(c, what)
           b == malloc(heap)
       IN
       /\ Answered(c, answer)
       /\ b # NULL
       /\ SecurityParms' = [SecurityParms EXCEPT ![c] = b]
       /\ heap' = [heap EXCEPT ![b] = CspWith(c, Used(answer))]
  /\ UNCHANGED <<program, phase, ExitUserArea, ExitResponse, crashed, endpoint, 
                 conversations, body, chunk, sent, misfreed>>

TermJms(c) ==
  /\ Called(c, "JmsJwtExit", {"open", "closing"}) /\ pc[c] = "idle"
  /\ Becomes(c, "ended") /\ Responds(c, "OK")
  /\ heap' = Freed(BlocksOf(c))
  /\ UNCHANGED <<program, ExitUserArea, crashed, endpoint, pc, conversations, SecurityParms, 
                 body, chunk, answers, sent, misfreed>>

-----------------------------------------------------------------------------
(* MQ sends what it finds in the MQCSP to the queue manager.               *)
CspNow(c) ==
  IF SecurityParms[c] = NULL THEN NoCsp
  ELSE IF SecurityParms[c] = AppCsp THEN Applications
  ELSE heap[SecurityParms[c]].token

Send(c) ==
  /\ ~crashed
  /\ Goes(c, "returned", "idle")
  /\ crashed' = (SecurityParms[c] \notin Live \cup {NULL, AppCsp})
  /\ sent' = [sent EXCEPT ![c] = IF crashed' THEN NoCsp ELSE CspNow(c)]
  /\ UNCHANGED <<program, phase, ExitUserArea, ExitResponse, heap, endpoint, conversations,
                 SecurityParms, body, chunk, answers, misfreed>>

LoginCall(c) ==
  \/ LoginInitCall(c) \/ Send(c)
  \/ SecParmsC(c) \/ WriteMemoryCallback(c) \/ LoginFails(c) \/ LoginDone(c) \/ TermC(c)
  \/ SecParmsJms(c) \/ FirstObtainToken(c) \/ SecondObtainToken(c) \/ TermJms(c)

Bodies == [what : Kinds, of : Channels, conversation : 1..MaxConversations]
Portions == [of : Bodies, part : 1..Parts]
Csps == [kind : {"csp"}, of : Channels, token : Bodies]

LoginTypeOK ==
  /\ endpoint \in BOOLEAN
  /\ pc \in [Channels -> {"idle", "receiving", "asking", "askingAgain", "returned"}]
  /\ conversations \in [Channels -> 0..MaxConversations]
  /\ SecurityParms \in [Channels -> Addresses \cup {AppCsp}]
  /\ body \in [Channels -> Bodies \cup {NotYet}]
  /\ chunk \in [Channels -> Seq(Portions)]
  /\ answers \in [Channels -> Seq(Bodies)]
  /\ sent \in [Channels -> Bodies \cup {NotYet, NoCsp, Applications}]
  /\ misfreed \in [Channels -> BOOLEAN]

-----------------------------------------------------------------------------
(* The inductive invariant of the channels with these exits, in parts.     *)

(* The exit has put an MQCSP of its own into the MQCXP.                    *)
Own(c) == SecurityParms[c] \in Blocks

(* Where a thread is, and what the conversation has come to so far.        *)
PointInv(c) ==
  /\ pc[c] # "idle" => phase[c] = "open" /\ sent[c] = NotYet /\ conversations[c] > 0
  /\ phase[c] = "new" => conversations[c] = 0
  /\ conversations[c] = 0 => 
       pc[c] = "idle" /\ answers[c] = <<>> /\ sent[c] = NotYet /\ SecurityParms[c] = NULL
  /\ phase[c] = "open" => answers[c] = <<>> \/ IsToken(answers[c][1])
  /\ phase[c] = "closing" => 
       Len(answers[c]) = 1 /\ ~IsToken(answers[c][1]) /\ sent[c] = NotYet

(* What has come of an answer are parts of it, the first ones, in order.   *)
ReceivingInv(c) ==
  pc[c] = "receiving" =>
    /\ program = "extjwtexit" /\ answers[c] = <<>> /\ ~Own(c)
    /\ body[c] = Says(c, body[c].what) /\ body[c].what \in Kinds \ {"failed"}
    /\ Len(chunk[c]) <= Parts
    /\ \A i \in 1..Len(chunk[c]) : chunk[c][i] = [of |-> body[c], part |-> i]

AskingInv(c) ==
  pc[c] \in {"asking", "askingAgain"} =>
    /\ program = "JmsJwtExit" /\ SecurityParms[c] = NULL /\ endpoint
    /\ pc[c] = "asking" => answers[c] = <<>>
    /\ pc[c] = "askingAgain" => Len(answers[c]) = 1

(* An answer that was given to the conversation c is in.                   *)
OwnAnswer(c, answer) == answer = Says(c, answer.what)

(* What MQ is to send when the exit has returned.                          *)
ReturnedInv(c) ==
  pc[c] = "returned" =>
    \/ /\ answers[c] # <<>> /\ OwnAnswer(c, Last(answers[c]))
       /\ \/ SecurityParms[c] = NULL /\ program = "extjwtexit"
          \/ Own(c) /\ heap[SecurityParms[c]] = CspWith(c, Used(Last(answers[c])))
    \/ /\ program = "JmsJwtExit" /\ answers[c] = <<>>
       /\ SecurityParms[c] = AppCsp \/ (SecurityParms[c] = NULL /\ ~endpoint)

(* The MQCSP of the exit's own is there until MQXR_TERM.  There are no     *)
(* more than conversations, and one less if there is none of the last.     *)
HeapInv(c) ==
  /\ Own(c) /\ phase[c] # "ended" => SecurityParms[c] \in BlocksOf(c)
  /\ program = "extjwtexit" /\ phase[c] # "ended" =>
       /\ Cardinality(BlocksOf(c)) <= conversations[c]
       /\ ~Own(c) => BlocksOf(c) = {} \/ Cardinality(BlocksOf(c)) < conversations[c]
  /\ phase[c] = "ended" =>
       \/ BlocksOf(c) = {}
       \/ program = "extjwtexit" /\ Cardinality(BlocksOf(c)) < conversations[c]

(* The application's MQCSP is still there at MQXR_TERM if the login failed.*)
MisfreedInv(c) ==
  /\ SecurityParms[c] = AppCsp /\ program = "extjwtexit" /\ pc[c] \in {"idle", "returned"} =>
       Len(answers[c]) = 1 /\ ~IsToken(answers[c][1])
  /\ misfreed[c] => 
       /\ program = "extjwtexit" /\ phase[c] = "ended" 
       /\ Len(answers[c]) = 1 /\ ~IsToken(answers[c][1])

LoginInv(c) ==
  /\ PointInv(c) /\ ReceivingInv(c) /\ AskingInv(c) /\ ReturnedInv(c)
  /\ HeapInv(c) /\ MisfreedInv(c)
=============================================================================
