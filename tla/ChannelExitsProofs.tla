------------------------- MODULE ChannelExitsProofs -------------------------
(***************************************************************************)
(* Proofs about a process with any number of channels that run amqsxlbl,   *)
(* extjwtexit or JmsJwtExit, for any files, conversations, blocks and      *)
(* parts of an answer: what is sent for a conversation, when a channel is  *)
(* closed, which label it gets, and that no block is freed twice, read     *)
(* after it is freed, or forgotten.                                        *)
(*                                                                         *)
(* The argument about the exits that log in: a thread's chunk begins with  *)
(* the parts of the answer to its own request, so the token in it is whole *)
(* or there is none; and an MQCSP that an exit has put into the MQCXP is a *)
(* block of this channel until MQXR_TERM.  There are as many of them as    *)
(* there were conversations at most, and one less if the last has none.    *)
(* That about the lists of amqsxlbl is in LabelMapProofs.                  *)
(***************************************************************************)
EXTENDS ChannelExits, LabelMapProofs

-----------------------------------------------------------------------------
(* Values.                                                                 *)

LEMMA ValueFacts ==
  /\ NotYet \notin Bodies /\ NoCsp \notin Bodies /\ Applications \notin Bodies
  /\ NotYet # NoCsp /\ NotYet # Applications /\ NoCsp # Applications
  /\ NoBlock \notin Csps
  /\ NULL \notin Blocks /\ AppCsp \notin Blocks /\ AppCsp # NULL
  /\ Blocks \in SUBSET Nat /\ IsFiniteSet(Blocks)
  /\ MaxConversations \in Nat /\ MaxConversations >= 1 /\ Parts \in Nat /\ Parts >= 1
  <1>1. NULL \notin Blocks /\ AppCsp \notin Blocks /\ AppCsp # NULL /\ Blocks \in SUBSET Nat
    BY ChannelCallsAssumption DEF NULL, AppCsp, Blocks
  <1>2. IsFiniteSet(Blocks)
    BY FS_Interval, ChannelCallsAssumption DEF Blocks
  <1>3. NotYet \notin Bodies /\ NoCsp \notin Bodies /\ Applications \notin Bodies
    <2>1. \A b \in Bodies : b.what \in Kinds
      BY DEF Bodies
    <2>2. NotYet.what \notin Kinds /\ NoCsp.what \notin Kinds /\ Applications.what \notin Kinds
      BY DEF NotYet, NoCsp, Applications, Kinds
    <2>3. QED BY <2>1, <2>2
  <1>4. NoBlock \notin Csps
    <2>1. \A b \in Csps : b.kind = "csp"
      BY DEF Csps
    <2>2. NoBlock.kind = "free"
      BY DEF NoBlock
    <2>3. QED BY <2>1, <2>2
  <1>5. NotYet # NoCsp /\ NotYet # Applications /\ NoCsp # Applications
    <2>1. NotYet.what = "notyet" /\ NoCsp.what = "none" /\ Applications.what = "application"
      BY DEF NotYet, NoCsp, Applications
    <2>2. QED BY <2>1
  <1>6. QED BY <1>1, <1>2, <1>3, <1>4, <1>5, JwtLoginAssumption

(* An answer to a conversation that has begun.                             *)
LEMMA SaysFacts ==
  ASSUME NEW c \in Channels, NEW what \in Kinds, conversations[c] \in 1..MaxConversations
  PROVE  Says(c, what) \in Bodies /\ Says(c, what).what = what
  BY DEF Says, Answer, Bodies

LEMMA UsedFacts ==
  ASSUME NEW a \in Bodies
  PROVE  Used(a) \in Bodies /\ (IsToken(a) => Used(a) = a)
  BY DEF Used, IsToken, Bodies, Kinds

LEMMA CspFacts ==
  ASSUME NEW c \in Channels, NEW a \in Bodies
  PROVE  /\ CspWith(c, a) \in Csps /\ CspWith(c, a).of = c /\ CspWith(c, a).token = a
         /\ CspWith(c, a) # NoBlock
  <1>1. CspWith(c, a) \in Csps /\ CspWith(c, a).of = c /\ CspWith(c, a).token = a
    BY DEF CspWith, Csps
  <1>2. QED BY <1>1, ValueFacts

-----------------------------------------------------------------------------
(* What a step of one channel leaves alone of another.                     *)

ThreadKept(d) ==
  /\ phase'[d] = phase[d] /\ pc'[d] = pc[d] /\ conversations'[d] = conversations[d]
  /\ SecurityParms'[d] = SecurityParms[d] /\ body'[d] = body[d] /\ chunk'[d] = chunk[d]
  /\ answers'[d] = answers[d] /\ sent'[d] = sent[d] /\ misfreed'[d] = misfreed[d]

LEMMA KeptChannel ==
  ASSUME LoginsInv, NEW d \in Channels, ThreadKept(d), BlocksKept(d), LoginInv(d), SentInv(d),
         program' = program, endpoint' = endpoint
  PROVE  LoginInv(d)' /\ SentInv(d)'
  <1>1. BlocksOf(d)' = BlocksOf(d) /\ \A b \in BlocksOf(d) : heap'[b] = heap[b]
    BY KeptBlocks
  <1>2. Own(d)' <=> Own(d)
    BY DEF Own, Blocks, ThreadKept
  <1>3. PointInv(d)'
    BY DEF LoginInv, PointInv, ThreadKept, IsToken, NULL
  <1>4. ReceivingInv(d)'
    BY <1>2 DEF LoginInv, ReceivingInv, ThreadKept, Says, Answer, Kinds
  <1>5. AskingInv(d)'
    BY DEF LoginInv, AskingInv, ThreadKept, NULL
  <1>6. ReturnedInv(d)'
    <2>1. pc[d] = "returned" /\ Own(d) => heap'[SecurityParms[d]] = heap[SecurityParms[d]]
      BY <1>1 DEF LoginInv, PointInv, HeapInv
    <2>2. QED 
      BY <1>2, <2>1 DEF LoginInv, ReturnedInv, ThreadKept, CspWith, Used, IsToken, Last, 
                        OwnAnswer, Says, Answer, NULL, AppCsp
  <1>7. HeapInv(d)'
    BY <1>1, <1>2 DEF LoginInv, HeapInv, ThreadKept
  <1>8. MisfreedInv(d)'
    BY DEF LoginInv, MisfreedInv, ThreadKept, IsToken, AppCsp
  <1>9. SentInv(d)'
    BY DEF SentInv, ThreadKept, Used, IsToken, Last, OwnAnswer, Says, Answer, NotYet, 
           Applications, NoCsp
  <1>10. QED BY <1>3, <1>4, <1>5, <1>6, <1>7, <1>8, <1>9 DEF LoginInv

(* What is to be shown of the step of channel c.                           *)
Typed ==
  /\ LoginTypeOK /\ phase \in [Channels -> Phases] /\ ~crashed
  /\ heap \in [Blocks -> Csps \cup {NoBlock}]

LEMMA StepOfOne ==
  ASSUME LoginsInv, program \in Logins, UNCHANGED <<program, ExitUserArea, endpoint>>,
         Typed', NEW c \in Channels, LoginInv(c)', SentInv(c)',
         \A d \in Channels \ {c} : ThreadKept(d) /\ BlocksKept(d)
  PROVE  LoginsInv'
  <1>1. \A d \in Channels : LoginInv(d) /\ SentInv(d)
    BY DEF LoginsInv
  <1>2. \A d \in Channels \ {c} : LoginInv(d)' /\ SentInv(d)'
    BY <1>1, KeptChannel
  <1>3. \A d \in Channels : LoginInv(d)' /\ SentInv(d)'
    BY <1>2
  <1>4. QED 
    BY <1>3 DEF LoginsInv, Typed, NULL, Blocks, Csps, Bodies, Kinds, NoBlock, Logins, 
                Programs, Phases

-----------------------------------------------------------------------------
(* The steps, one by one.                                                  *)

LEMMA InitStep ==
  ASSUME LoginsInv, program \in Logins, NEW c \in Channels, LoginInitCall(c)
  PROVE  LoginsInv'
  <1> USE DEF LoginInitCall, Becomes, loginVars
  <1>1. Typed'
    BY DEF Typed, LoginsInv, LoginTypeOK, Phases
  <1>2. \A d \in Channels : BlocksKept(d)
    BY DEF BlocksKept
  <1>3. BlocksOf(c)' = BlocksOf(c)
    BY <1>2, KeptBlocks
  <1>4. pc[c] = "idle" /\ answers[c] = <<>> /\ sent[c] = NotYet /\ SecurityParms[c] = NULL
        /\ conversations[c] = 0 /\ phase'[c] = "open" /\ ~misfreed[c] /\ ~Own(c)'
    BY ValueFacts DEF LoginsInv, LoginInv, PointInv, MisfreedInv, Own, Blocks
  <1>5. PointInv(c)' /\ ReceivingInv(c)' /\ AskingInv(c)' /\ ReturnedInv(c)'
    BY <1>4 DEF PointInv, ReceivingInv, AskingInv, ReturnedInv
  <1>6. HeapInv(c)' /\ MisfreedInv(c)' /\ SentInv(c)'
    BY <1>3, <1>4, ValueFacts DEF LoginsInv, LoginInv, HeapInv, MisfreedInv, SentInv, Own
  <1>7. \A d \in Channels \ {c} : ThreadKept(d)
    BY DEF ThreadKept, LoginsInv
  <1>8. QED BY <1>1, <1>2, <1>5, <1>6, <1>7, StepOfOne DEF LoginInv

(* MQXR_SEC_PARMS begins a conversation, whatever the exit does then.      *)
LEMMA SecParmsStarts ==
  ASSUME LoginsInv, program \in Logins, NEW c \in Channels, NEW to, SecParms(c, to)
  PROVE  /\ conversations[c] \in Nat /\ conversations'[c] = conversations[c] + 1
         /\ conversations'[c] \in 1..MaxConversations
         /\ conversations' \in [Channels -> 0..MaxConversations]
         /\ SecurityParms'[c] \in {NULL, AppCsp} /\ ~Own(c)'
         /\ SecurityParms' \in [Channels -> Addresses \cup {AppCsp}]
         /\ pc'[c] = to[SecurityParms'[c]] 
         /\ answers'[c] = <<>> /\ answers' \in [Channels -> Seq(Bodies)]
         /\ sent'[c] = NotYet 
         /\ sent' \in [Channels -> Bodies \cup {NotYet, NoCsp, Applications}]
         /\ phase[c] = "open" /\ ~misfreed[c]
         /\ \A d \in Channels \ {c} :
              /\ conversations'[d] = conversations[d] /\ SecurityParms'[d] = SecurityParms[d]
              /\ pc'[d] = pc[d] /\ answers'[d] = answers[d] /\ sent'[d] = sent[d]
  <1>1. LoginTypeOK /\ phase[c] = "open" /\ ~misfreed[c] /\ conversations[c] < MaxConversations
    BY DEF LoginsInv, LoginInv, MisfreedInv, SecParms
  <1>2. /\ conversations[c] \in Nat /\ conversations'[c] = conversations[c] + 1
        /\ conversations'[c] \in 1..MaxConversations
        /\ conversations' \in [Channels -> 0..MaxConversations]
    BY <1>1, ValueFacts DEF LoginTypeOK, SecParms
  <1>3. /\ SecurityParms'[c] \in {NULL, AppCsp} /\ pc'[c] = to[SecurityParms'[c]]
        /\ SecurityParms' \in [Channels -> Addresses \cup {AppCsp}]
    BY <1>1 DEF LoginTypeOK, SecParms, Addresses
  <1>4. ~Own(c)'
    BY <1>3, ValueFacts DEF Own, Blocks
  <1>5. /\ answers'[c] = <<>> /\ answers' \in [Channels -> Seq(Bodies)] /\ sent'[c] = NotYet 
        /\ sent' \in [Channels -> Bodies \cup {NotYet, NoCsp, Applications}]
    BY <1>1 DEF LoginTypeOK, SecParms
  <1>6. \A d \in Channels \ {c} :
              /\ conversations'[d] = conversations[d] /\ SecurityParms'[d] = SecurityParms[d]
              /\ pc'[d] = pc[d] /\ answers'[d] = answers[d] /\ sent'[d] = sent[d]
    BY <1>1 DEF LoginTypeOK, SecParms
  <1>7. QED BY <1>1, <1>2, <1>3, <1>4, <1>5, <1>6

LEMMA SecParmsCStep ==
  ASSUME LoginsInv, program \in Logins, NEW c \in Channels, SecParmsC(c)
  PROVE  LoginsInv'
  <1> DEFINE to == [given \in {NULL, AppCsp} |-> "receiving"]
  <1>1. SecParms(c, to) /\ program = "extjwtexit"
    BY DEF SecParmsC
  <1>2. PICK what \in Kinds \ {"failed"} :
          body' = [body EXCEPT ![c] = Answer(what, c, conversations'[c])]
    BY DEF SecParmsC
  <1>3. pc' = [pc EXCEPT ![c] = "receiving"]
    BY <1>1 DEF SecParms
  <1> HIDE DEF to
  <1>4. /\ conversations[c] \in Nat /\ conversations'[c] = conversations[c] + 1
        /\ conversations'[c] \in 1..MaxConversations
        /\ conversations' \in [Channels -> 0..MaxConversations]
        /\ ~Own(c)' /\ SecurityParms' \in [Channels -> Addresses \cup {AppCsp}]
        /\ answers'[c] = <<>> /\ answers' \in [Channels -> Seq(Bodies)] /\ sent'[c] = NotYet 
        /\ sent' \in [Channels -> Bodies \cup {NotYet, NoCsp, Applications}]
        /\ phase[c] = "open" /\ ~misfreed[c]
    BY <1>1, SecParmsStarts
  <1>5. \A d \in Channels \ {c} :
              /\ conversations'[d] = conversations[d] /\ SecurityParms'[d] = SecurityParms[d]
              /\ pc'[d] = pc[d] /\ answers'[d] = answers[d] /\ sent'[d] = sent[d]
    BY <1>1, SecParmsStarts
  <1>6. /\ chunk' = [chunk EXCEPT ![c] = <<>>]
        /\ UNCHANGED <<program, phase, ExitUserArea, heap, crashed, endpoint, misfreed>>
    BY DEF SecParmsC
  <1>7. pc'[c] = "receiving" /\ chunk'[c] = <<>> /\ body'[c] = Answer(what, c, conversations'[c])
    BY <1>2, <1>3, <1>6 DEF LoginsInv, LoginTypeOK
  <1>8. Typed'
    <2>1. Answer(what, c, conversations'[c]) \in Bodies
      BY <1>4 DEF Answer, Bodies
    <2>2. body' \in [Channels -> Bodies \cup {NotYet}]
      BY <2>1, <1>2 DEF LoginsInv, LoginTypeOK
    <2>3. chunk' \in [Channels -> Seq(Portions)]
      BY <1>6 DEF LoginsInv, LoginTypeOK
    <2>4. pc' \in [Channels -> {"idle", "receiving", "asking", "askingAgain", "returned"}]
      BY <1>3 DEF LoginsInv, LoginTypeOK
    <2>5. QED BY <1>4, <1>6, <2>2, <2>3, <2>4 DEF Typed, LoginsInv, LoginTypeOK
  <1>9. \A d \in Channels : BlocksKept(d)
    BY <1>6 DEF BlocksKept
  <1>10. BlocksOf(c)' = BlocksOf(c) /\ Cardinality(BlocksOf(c)) \in Nat
    BY <1>9, KeptBlocks, BlocksOfFacts
  <1>11. PointInv(c)'
    BY <1>4, <1>6, <1>7 DEF PointInv
  <1>12. ReceivingInv(c)'
    BY <1>1, <1>4, <1>6, <1>7, ValueFacts DEF ReceivingInv, Says, Answer
  <1>13. AskingInv(c)' /\ ReturnedInv(c)' /\ MisfreedInv(c)' /\ SentInv(c)'
    BY <1>4, <1>6, <1>7 DEF AskingInv, ReturnedInv, MisfreedInv, SentInv
  <1>14. HeapInv(c)'
    <2>1. Cardinality(BlocksOf(c)) <= conversations[c]
      BY <1>1, <1>4 DEF LoginsInv, LoginInv, HeapInv
    <2>2. Cardinality(BlocksOf(c)') < conversations'[c]
      BY <2>1, <1>4, <1>10
    <2>3. QED BY <1>4, <1>6, <1>10, <2>2 DEF HeapInv
  <1>15. \A d \in Channels \ {c} : ThreadKept(d)
    BY <1>2, <1>5, <1>6 DEF ThreadKept, LoginsInv, LoginTypeOK
  <1>16. QED BY <1>6, <1>8, <1>9, <1>11, <1>12, <1>13, <1>14, <1>15, StepOfOne DEF LoginInv

LEMMA WriteStep ==
  ASSUME LoginsInv, program \in Logins, NEW c \in Channels, WriteMemoryCallback(c)
  PROVE  LoginsInv'
  <1>1. /\ pc[c] = "receiving" /\ Len(chunk[c]) < Parts
        /\ chunk' = [chunk EXCEPT ![c] = Append(@, NextPart(c))]
        /\ UNCHANGED <<callVars, endpoint, pc, conversations, SecurityParms, body, answers, sent, 
                       misfreed>>
    BY DEF WriteMemoryCallback
  <1>2. LoginTypeOK /\ LoginInv(c) /\ SentInv(c)
    BY DEF LoginsInv
  <1>3. conversations[c] \in 1..MaxConversations
    BY <1>1, <1>2 DEF LoginTypeOK, LoginInv, PointInv
  <1>4. body[c] \in Bodies
    BY <1>1, <1>2, <1>3, SaysFacts DEF LoginInv, ReceivingInv
  <1>5. chunk[c] \in Seq(Portions) /\ Len(chunk[c]) \in Nat
    BY <1>2 DEF LoginTypeOK
  <1>6. NextPart(c) \in Portions
    BY <1>1, <1>4, <1>5, ValueFacts DEF NextPart, Portions
  <1>7. chunk' \in [Channels -> Seq(Portions)]
        /\ chunk'[c] = Append(chunk[c], NextPart(c))
        /\ \A d \in Channels \ {c} : chunk'[d] = chunk[d]
    BY <1>1, <1>2, <1>6 DEF LoginTypeOK
  <1>8. Typed'
    BY <1>1, <1>7 DEF Typed, LoginsInv, LoginTypeOK, callVars
  <1>9. \A d \in Channels : BlocksKept(d)
    BY <1>1 DEF BlocksKept, callVars
  <1>10. ReceivingInv(c)'
    <2>1. Len(chunk'[c]) = Len(chunk[c]) + 1 /\ Len(chunk'[c]) <= Parts
      BY <1>1, <1>5, <1>6, <1>7, ValueFacts
    <2>2. \A i \in 1..Len(chunk'[c]) : chunk'[c][i] = [of |-> body[c], part |-> i]
      <3> SUFFICES ASSUME NEW i \in 1..Len(chunk'[c]) 
                   PROVE  chunk'[c][i] = [of |-> body[c], part |-> i]
        OBVIOUS
      <3>1. CASE i = Len(chunk[c]) + 1
        BY <3>1, <1>5, <1>6, <1>7 DEF NextPart
      <3>2. CASE i \in 1..Len(chunk[c])
        <4>1. chunk[c][i] = [of |-> body[c], part |-> i]
          BY <3>2, <1>1, <1>2 DEF LoginInv, ReceivingInv
        <4>2. QED BY <4>1, <3>2, <1>5, <1>6, <1>7
      <3>3. QED BY <3>1, <3>2, <2>1, <1>5
    <2>3. Own(c)' = Own(c) /\ Says(c, body[c].what)' = Says(c, body[c].what)
      BY <1>1 DEF Own, Blocks, Says, Answer
    <2>4. QED BY <2>1, <2>2, <2>3, <1>1, <1>2 DEF LoginInv, ReceivingInv, callVars, Kinds
  <1>11. BlocksOf(c)' = BlocksOf(c)
    BY <1>9, KeptBlocks
  <1>12. PointInv(c)' /\ AskingInv(c)' /\ ReturnedInv(c)' /\ MisfreedInv(c)' /\ SentInv(c)'
    BY <1>1, <1>2 DEF PointInv, AskingInv, ReturnedInv, MisfreedInv, SentInv, callVars,
                      LoginInv, IsToken, NULL
  <1>13. HeapInv(c)'
    BY <1>1, <1>2, <1>11 DEF HeapInv, Own, Blocks, callVars, LoginInv
  <1>14. \A d \in Channels \ {c} : ThreadKept(d)
    BY <1>1, <1>7 DEF ThreadKept, callVars
  <1>15. QED BY <1>1, <1>8, <1>9, <1>10, <1>12, <1>13, <1>14, StepOfOne DEF LoginInv, callVars

(* The first answer to a conversation.                                     *)
LEMMA FirstAnswer ==
  ASSUME LoginTypeOK, NEW c \in Channels, answers[c] = <<>>, NEW a \in Bodies, Answered(c, a)
  PROVE  /\ answers'[c] = <<a>> /\ answers'[c] # <<>> /\ Len(answers'[c]) = 1
         /\ answers'[c][1] = a /\ Last(answers'[c]) = a
         /\ answers' \in [Channels -> Seq(Bodies)]
         /\ \A d \in Channels \ {c} : answers'[d] = answers[d]
  <1>1. answers' = [answers EXCEPT ![c] = Append(@, a)] /\ answers \in [Channels -> Seq(Bodies)]
    BY DEF Answered, LoginTypeOK
  <1>2. answers'[c] = Append(<<>>, a)
    BY <1>1
  <1>3. answers'[c] = <<a>>
    BY <1>2
  <1>4. QED BY <1>1, <1>3 DEF Last

(* An answer without a token closes the channel.                           *)
LEMMA CloseStep ==
  ASSUME LoginsInv, program \in Logins, NEW c \in Channels, 
         pc[c] \in {"receiving", "asking"}, 
         NEW a \in Bodies, ~IsToken(a), Answered(c, a), CloseChannel(c),
         chunk' \in [Channels -> Seq(Portions)], \A d \in Channels \ {c} : chunk'[d] = chunk[d],
         UNCHANGED <<program, ExitUserArea, crashed, endpoint, conversations, body, sent, misfreed>>
  PROVE  LoginsInv'
  <1>1. LoginTypeOK /\ LoginInv(c) /\ SentInv(c)
    BY DEF LoginsInv
  <1>2. /\ pc' = [pc EXCEPT ![c] = "idle"] /\ phase' = [phase EXCEPT ![c] = "closing"]
        /\ UNCHANGED <<heap, SecurityParms>>
    BY DEF CloseChannel, Goes, Becomes
  <1>3. answers[c] = <<>> /\ phase[c] = "open" /\ sent[c] = NotYet /\ conversations[c] > 0
    BY <1>1 DEF LoginInv, ReceivingInv, AskingInv, PointInv
  <1>4. /\ answers'[c] # <<>> /\ Len(answers'[c]) = 1 /\ answers'[c][1] = a
        /\ answers' \in [Channels -> Seq(Bodies)]
        /\ \A d \in Channels \ {c} : answers'[d] = answers[d]
    BY <1>1, <1>3, FirstAnswer
  <1>5. pc'[c] = "idle" /\ phase'[c] = "closing" 
    BY <1>1, <1>2 DEF LoginTypeOK, LoginsInv
  <1>6. Typed'
    BY <1>2, <1>4 DEF Typed, LoginsInv, LoginTypeOK, Phases
  <1>7. \A d \in Channels : BlocksKept(d)
    BY <1>2 DEF BlocksKept
  <1>8. BlocksOf(c)' = BlocksOf(c)
    BY <1>7, KeptBlocks
  <1>9. ~IsToken(answers'[c][1])
    BY <1>4
  <1>10. PointInv(c)'
    BY <1>3, <1>4, <1>5, <1>9 DEF PointInv, IsToken
  <1>11. ReceivingInv(c)' /\ AskingInv(c)' /\ ReturnedInv(c)' /\ SentInv(c)'
    BY <1>3, <1>5 DEF ReceivingInv, AskingInv, ReturnedInv, SentInv
  <1>12. MisfreedInv(c)'
    BY <1>1, <1>3, <1>4, <1>9 DEF LoginInv, MisfreedInv, IsToken
  <1>13. HeapInv(c)'
    BY <1>1, <1>2, <1>3, <1>5, <1>8 DEF LoginInv, HeapInv, Own, Blocks
  <1>14. \A d \in Channels \ {c} : ThreadKept(d)
    BY <1>2, <1>4 DEF ThreadKept
  <1>15. QED BY <1>6, <1>7, <1>10, <1>11, <1>12, <1>13, <1>14, StepOfOne DEF LoginInv

LEMMA LoginFailsStep ==
  ASSUME LoginsInv, program \in Logins, NEW c \in Channels, LoginFails(c)
  PROVE  LoginsInv'
  <1>1. /\ pc[c] = "receiving" /\ Answered(c, Says(c, "failed")) /\ CloseChannel(c)
        /\ chunk' = [chunk EXCEPT ![c] = <<>>]
        /\ UNCHANGED <<program, ExitUserArea, crashed, endpoint, conversations, body, sent, misfreed>>
    BY DEF LoginFails
  <1>2. conversations[c] \in 1..MaxConversations
    BY <1>1 DEF LoginsInv, LoginTypeOK, LoginInv, PointInv
  <1>3. Says(c, "failed") \in Bodies /\ ~IsToken(Says(c, "failed"))
    BY <1>2, SaysFacts DEF IsToken, Kinds
  <1>4. chunk' \in [Channels -> Seq(Portions)] /\ \A d \in Channels \ {c} : chunk'[d] = chunk[d]
    BY <1>1 DEF LoginsInv, LoginTypeOK
  <1>5. QED BY <1>1, <1>3, <1>4, CloseStep

(* A whole answer is the one that the token server has sent.               *)
LEMMA WholeAnswer ==
  ASSUME LoginsInv, program \in Logins, NEW c \in Channels, pc[c] = "receiving"
  PROVE  LET token == RetrieveTokenFromResponse(c) IN
         /\ body[c] \in Bodies /\ token \in Bodies
         /\ Whole(chunk[c]) => token = body[c]
         /\ ~Whole(chunk[c]) => ~IsToken(token)
  <1>1. conversations[c] \in 1..MaxConversations /\ ReceivingInv(c)
    BY DEF LoginsInv, LoginTypeOK, LoginInv, PointInv
  <1>2. body[c] \in Bodies
    BY <1>1, SaysFacts DEF ReceivingInv
  <1>3. Says(c, "unusable") \in Bodies /\ ~IsToken(Says(c, "unusable"))
    BY <1>1, SaysFacts DEF IsToken, Kinds
  <1>4. Whole(chunk[c]) => chunk[c][1].of = body[c]
    <2>1. Whole(chunk[c]) => Len(chunk[c]) >= 1
      BY ValueFacts DEF Whole
    <2>2. Len(chunk[c]) \in Nat
      BY DEF LoginsInv, LoginTypeOK
    <2>3. Whole(chunk[c]) => chunk[c][1] = [of |-> body[c], part |-> 1]
      BY <1>1, <2>1, <2>2 DEF ReceivingInv
    <2>4. QED BY <2>3
  <1>5. QED BY <1>2, <1>3, <1>4 DEF RetrieveTokenFromResponse

(* A block that is free becomes an MQCSP of channel c.                     *)
LEMMA NewBlock ==
  ASSUME heap \in [Blocks -> Csps \cup {NoBlock}], NEW c \in Channels, NEW a \in Bodies,
         NEW b \in Blocks, heap[b] = NoBlock, heap' = [heap EXCEPT ![b] = CspWith(c, a)]
  PROVE  /\ heap' \in [Blocks -> Csps \cup {NoBlock}] /\ heap'[b] = CspWith(c, a)
         /\ \A d \in Channels \ {c} : BlocksKept(d)
         /\ b \in BlocksOf(c)'
         /\ Cardinality(BlocksOf(c)') = Cardinality(BlocksOf(c)) + 1
  <1>1. heap' \in [Blocks -> Csps \cup {NoBlock}] /\ heap'[b] = CspWith(c, a)
    BY CspFacts
  <1>2. \A d \in Channels \ {c} : BlocksKept(d)
    BY <1>1, CspFacts DEF BlocksKept
  <1>3. BlocksOf(c)' = {x \in Blocks : heap'[x] # NoBlock /\ heap'[x].of = c}
    BY DEF BlocksOf, Live, Blocks
  <1>4. BlocksOf(c)' = BlocksOf(c) \cup {b}
    BY <1>1, <1>3, CspFacts DEF BlocksOf, Live
  <1>5. b \notin BlocksOf(c) /\ IsFiniteSet(BlocksOf(c))
    BY BlocksOfFacts
  <1>6. Cardinality(BlocksOf(c) \cup {b}) = Cardinality(BlocksOf(c)) + 1
    BY <1>5, FS_AddElement
  <1>7. QED BY <1>1, <1>2, <1>4, <1>6

LEMMA LoginDoneStep ==
  ASSUME LoginsInv, program \in Logins, NEW c \in Channels, LoginDone(c)
  PROVE  LoginsInv'
  <1> DEFINE token == RetrieveTokenFromResponse(c)
  <1>1. /\ pc[c] = "receiving" /\ chunk' = [chunk EXCEPT ![c] = <<>>]
        /\ IF Whole(chunk[c]) THEN Answered(c, body[c]) ELSE Answered(c, token)
        /\ UNCHANGED <<program, ExitUserArea, crashed, endpoint, conversations, body, sent, misfreed>>
    BY DEF LoginDone
  <1>2. /\ body[c] \in Bodies /\ token \in Bodies
        /\ Whole(chunk[c]) => token = body[c]
        /\ ~Whole(chunk[c]) => ~IsToken(token)
    BY <1>1, WholeAnswer
  <1>3. Answered(c, token)
    BY <1>1, <1>2
  <1>4. chunk' \in [Channels -> Seq(Portions)] /\ \A d \in Channels \ {c} : chunk'[d] = chunk[d]
    BY <1>1 DEF LoginsInv, LoginTypeOK
  <1>5. ASSUME ~IsToken(token), CloseChannel(c)
        PROVE  LoginsInv'
    BY <1>1, <1>2, <1>3, <1>4, <1>5, CloseStep
  <1>6. ASSUME IsToken(token), Goes(c, "receiving", "returned"), NEW b \in {NULL, malloc(heap)},
               SecurityParms' = [SecurityParms EXCEPT ![c] = b],
               heap' = IF b = NULL THEN heap ELSE [heap EXCEPT ![b] = CspWith(c, token)],
               UNCHANGED <<ExitResponse, phase>>
        PROVE  LoginsInv'
    <2> HIDE DEF token
    <2>1. LoginTypeOK /\ LoginInv(c) /\ SentInv(c) /\ heap \in [Blocks -> Csps \cup {NoBlock}]
      BY DEF LoginsInv
    <2>2. /\ program = "extjwtexit" /\ answers[c] = <<>> /\ phase[c] = "open" /\ sent[c] = NotYet
          /\ conversations[c] > 0 /\ ~Own(c) /\ conversations[c] \in Nat
      BY <1>1, <2>1 DEF LoginInv, ReceivingInv, PointInv, LoginTypeOK
    <2>3. /\ answers'[c] # <<>> /\ answers'[c][1] = token /\ Last(answers'[c]) = token
          /\ answers' \in [Channels -> Seq(Bodies)]
          /\ \A d \in Channels \ {c} : answers'[d] = answers[d]
      BY <1>2, <1>3, <2>1, <2>2, FirstAnswer
    <2>4. b = NULL \/ (b \in Blocks /\ heap[b] = NoBlock)
      BY MallocFacts
    <2>5. /\ SecurityParms' \in [Channels -> Addresses \cup {AppCsp}] /\ SecurityParms'[c] = b
          /\ \A d \in Channels \ {c} : SecurityParms'[d] = SecurityParms[d]
      BY <1>6, <2>1, <2>4 DEF LoginTypeOK, Addresses
    <2>6. /\ pc' \in [Channels -> {"idle", "receiving", "asking", "askingAgain", "returned"}]
          /\ pc'[c] = "returned" /\ \A d \in Channels \ {c} : pc'[d] = pc[d]
      BY <1>6, <2>1 DEF LoginTypeOK, Goes
    <2>7. /\ heap' \in [Blocks -> Csps \cup {NoBlock}]
          /\ \A d \in Channels \ {c} : BlocksKept(d)
          /\ Own(c)' => heap'[SecurityParms'[c]] = CspWith(c, token)
          /\ Own(c)' => SecurityParms'[c] \in BlocksOf(c)'
          /\ Cardinality(BlocksOf(c)') \in Nat
          /\ Cardinality(BlocksOf(c)') <= conversations[c]
          /\ ~Own(c)' => BlocksOf(c)' = {} \/ Cardinality(BlocksOf(c)') < conversations[c]
      <3>1. /\ Cardinality(BlocksOf(c)) \in Nat
            /\ BlocksOf(c) = {} \/ Cardinality(BlocksOf(c)) < conversations[c]
        BY <2>1, <2>2, BlocksOfFacts DEF LoginInv, HeapInv
      <3>2. CASE b = NULL
        <4>1. heap' = heap /\ ~Own(c)'
          BY <1>6, <2>5, <3>2, ValueFacts DEF Own, Blocks
        <4>2. \A d \in Channels : BlocksKept(d)
          BY <4>1 DEF BlocksKept
        <4>3. BlocksOf(c)' = BlocksOf(c)
          BY <4>2, KeptBlocks
        <4>4. Cardinality(BlocksOf(c)) <= conversations[c]
          BY <2>1, <2>2 DEF LoginInv, HeapInv
        <4>5. QED BY <2>1, <3>1, <4>1, <4>2, <4>3, <4>4
      <3>3. CASE b # NULL
        <4>1. /\ heap' = [heap EXCEPT ![b] = CspWith(c, token)] /\ b \in Blocks 
              /\ heap[b] = NoBlock
          BY <1>6, <2>4, <3>3
        <4>2. /\ heap' \in [Blocks -> Csps \cup {NoBlock}] /\ heap'[b] = CspWith(c, token)
              /\ \A d \in Channels \ {c} : BlocksKept(d)
              /\ b \in BlocksOf(c)'
              /\ Cardinality(BlocksOf(c)') = Cardinality(BlocksOf(c)) + 1
          BY <1>2, <2>1, <4>1, NewBlock
        <4>3. Own(c)'
          BY <2>5, <4>1 DEF Own, Blocks
        <4>4. BlocksOf(c) = {} => Cardinality(BlocksOf(c)) = 0
          BY FS_EmptySet
        <4>5. Cardinality(BlocksOf(c)') <= conversations[c]
          BY <2>2, <3>1, <4>2, <4>4
        <4>6. QED BY <2>5, <3>1, <4>2, <4>3, <4>5
      <3>4. QED BY <3>2, <3>3
    <2>8. Typed'
      BY <1>1, <1>4, <1>6, <2>3, <2>5, <2>6, <2>7 DEF Typed, LoginsInv, LoginTypeOK
    <2>9. PointInv(c)'
      BY <1>1, <1>6, <2>2, <2>3, <2>6 DEF PointInv, IsToken
    <2>10. ReceivingInv(c)' /\ AskingInv(c)' /\ SentInv(c)'
      BY <1>1, <2>2, <2>6 DEF ReceivingInv, AskingInv, SentInv
    <2>11. ReturnedInv(c)'
      <3>1. Used(token) = token
        BY <1>2, <1>6, UsedFacts
      <3>2. Own(c)' \/ SecurityParms'[c] = NULL
        BY <2>4, <2>5 DEF Own, Blocks
      <3>3. Own(c)' => heap'[SecurityParms'[c]] = CspWith(c, Used(Last(answers'[c])))
        BY <2>3, <2>7, <3>1
      <3>4. OwnAnswer(c, Last(answers[c]))'
        <4>1. token = Says(c, token.what)
          BY <1>1, <1>2, <1>6, <2>1 DEF LoginInv, ReceivingInv
        <4>2. QED BY <1>1, <2>3, <4>1 DEF OwnAnswer, Says, Last
      <3>5. QED BY <1>1, <2>2, <2>3, <3>2, <3>3, <3>4 
                DEF ReturnedInv, NULL, CspWith, Used, IsToken, Last
    <2>12. HeapInv(c)'
      BY <1>1, <1>6, <2>2, <2>7 DEF HeapInv
    <2>13. MisfreedInv(c)'
      <3>1. SecurityParms'[c] # AppCsp
        BY <2>4, <2>5, ValueFacts
      <3>2. ~misfreed[c]
        BY <2>1, <2>2 DEF LoginInv, MisfreedInv
      <3>3. QED BY <1>1, <3>1, <3>2 DEF MisfreedInv, AppCsp
    <2>14. \A d \in Channels \ {c} : ThreadKept(d)
      BY <1>1, <1>4, <1>6, <2>3, <2>5, <2>6 DEF ThreadKept
    <2>15. QED 
      BY <1>1, <2>7, <2>8, <2>9, <2>10, <2>11, <2>12, <2>13, <2>14, StepOfOne DEF LoginInv
  <1>7. QED BY <1>5, <1>6 DEF LoginDone

LEMMA TermCStep ==
  ASSUME LoginsInv, program \in Logins, NEW c \in Channels, TermC(c)
  PROVE  LoginsInv'
  <1>1. /\ program = "extjwtexit" /\ phase[c] \in {"open", "closing"} /\ pc[c] = "idle"
        /\ FreeSecurityParms(c) /\ phase' = [phase EXCEPT ![c] = "ended"]
        /\ UNCHANGED <<program, ExitUserArea, endpoint, pc, conversations, SecurityParms, 
                       body, chunk, answers, sent>>
    BY DEF TermC, Called, Becomes
  <1>2. /\ LoginTypeOK /\ LoginInv(c) /\ SentInv(c) /\ heap \in [Blocks -> Csps \cup {NoBlock}]
        /\ ~crashed
    BY <1>1 DEF LoginsInv
  <1>3. ExitUserArea[c] = SUCCESS
    BY DEF LoginsInv, SUCCESS, NULL
  <1>4. /\ Cardinality(BlocksOf(c)) \in Nat /\ Cardinality(BlocksOf(c)) <= conversations[c]
        /\ conversations[c] \in Nat
        /\ Own(c) => SecurityParms[c] \in BlocksOf(c)
        /\ ~Own(c) => BlocksOf(c) = {} \/ Cardinality(BlocksOf(c)) < conversations[c]
    BY <1>1, <1>2, BlocksOfFacts DEF LoginInv, HeapInv, LoginTypeOK
  <1>5. /\ heap' \in [Blocks -> Csps \cup {NoBlock}] /\ ~crashed'
        /\ \A d \in Channels \ {c} : BlocksKept(d)
        /\ BlocksOf(c)' = {} \/ Cardinality(BlocksOf(c)') < conversations[c]
    <2>1. CASE Own(c)
      <3>1. SecurityParms[c] # NULL /\ SecurityParms[c] \in Blocks /\ SecurityParms[c] # AppCsp
        BY <2>1, ValueFacts DEF Own
      <3>2. Frees({SecurityParms[c]})
        <4>1. {SecurityParms[c]} \ {AppCsp} = {SecurityParms[c]}
          BY <3>1
        <4>2. QED BY <1>1, <1>3, <3>1, <4>1 DEF FreeSecurityParms
      <3>3. SecurityParms[c] \in BlocksOf(c) /\ SecurityParms[c] \in Live 
            /\ heap[SecurityParms[c]].of = c
        BY <1>4, <2>1, BlocksOfFacts
      <3>4. /\ heap' = [b \in Blocks |-> IF b \in {SecurityParms[c]} THEN NoBlock ELSE heap[b]]
            /\ ~crashed'
        BY <1>2, <3>2, <3>3 DEF Frees, Freed
      <3>5. heap' \in [Blocks -> Csps \cup {NoBlock}]
        BY <1>2, <3>4
      <3>6. \A d \in Channels \ {c} : BlocksKept(d)
        BY <3>3, <3>4 DEF BlocksKept
      <3>7. BlocksOf(c)' = {b \in Blocks : heap'[b] # NoBlock /\ heap'[b].of = c}
        BY DEF BlocksOf, Live, Blocks
      <3>8. BlocksOf(c)' = BlocksOf(c) \ {SecurityParms[c]}
        BY <3>4, <3>7 DEF BlocksOf, Live
      <3>9. Cardinality(BlocksOf(c) \ {SecurityParms[c]}) = Cardinality(BlocksOf(c)) - 1
        BY <3>3, BlocksOfFacts, FS_RemoveElement
      <3>10. Cardinality(BlocksOf(c)') < conversations[c]
        BY <1>4, <3>8, <3>9
      <3>11. QED BY <3>4, <3>5, <3>6, <3>10
    <2>2. CASE ~Own(c)
      <3>1. SecurityParms[c] \in {NULL, AppCsp}
        BY <1>2, <2>2 DEF LoginTypeOK, Addresses, Own
      <3>2. heap' = heap /\ ~crashed'
        <4>1. CASE SecurityParms[c] = NULL
          BY <1>1, <1>2, <4>1 DEF FreeSecurityParms
        <4>2. CASE SecurityParms[c] = AppCsp
          <5>1. {SecurityParms[c]} \ {AppCsp} = {}
            BY <4>2
          <5>2. Frees({})
            BY <1>1, <1>3, <4>2, <5>1, ValueFacts DEF FreeSecurityParms
          <5>3. heap' = [b \in Blocks |-> heap[b]] /\ ~crashed'
            BY <1>2, <5>2 DEF Frees, Freed
          <5>4. QED BY <1>2, <5>3
        <4>3. QED BY <3>1, <4>1, <4>2
      <3>3. \A d \in Channels : BlocksKept(d)
        BY <3>2 DEF BlocksKept
      <3>4. BlocksOf(c)' = BlocksOf(c)
        BY <3>3, KeptBlocks
      <3>5. QED BY <1>2, <1>4, <2>2, <3>2, <3>3, <3>4
    <2>3. QED BY <2>1, <2>2
  <1>6. /\ misfreed' \in [Channels -> BOOLEAN] 
        /\ \A d \in Channels \ {c} : misfreed'[d] = misfreed[d]
        /\ misfreed'[c] => SecurityParms[c] = AppCsp
    <2>1. ~misfreed[c]
      BY <1>1, <1>2 DEF LoginInv, MisfreedInv
    <2>2. CASE SecurityParms[c] # NULL
      <3>1. misfreed' = [misfreed EXCEPT ![c] = SecurityParms[c] = AppCsp]
        BY <1>1, <1>3, <2>2 DEF FreeSecurityParms
      <3>2. QED BY <1>2, <3>1 DEF LoginTypeOK
    <2>3. CASE SecurityParms[c] = NULL
      BY <1>1, <1>2, <2>1, <2>3 DEF FreeSecurityParms, LoginTypeOK
    <2>4. QED BY <2>2, <2>3
  <1>7. Typed'
    BY <1>1, <1>5, <1>6 DEF Typed, LoginsInv, LoginTypeOK, Phases
  <1>8. phase'[c] = "ended" /\ \A d \in Channels \ {c} : phase'[d] = phase[d]
    BY <1>1 DEF LoginsInv
  <1>9. PointInv(c)'
    BY <1>1, <1>2, <1>8 DEF LoginInv, PointInv, NULL
  <1>10. ReceivingInv(c)' /\ AskingInv(c)' /\ ReturnedInv(c)' 
    BY <1>1 DEF ReceivingInv, AskingInv, ReturnedInv
  <1>11. SentInv(c)'
    BY <1>1, <1>2 DEF SentInv, Used, IsToken, Last, OwnAnswer, Says, Answer, NotYet, 
                      Applications, NoCsp
  <1>12. HeapInv(c)'
    BY <1>1, <1>5, <1>8 DEF HeapInv
  <1>13. MisfreedInv(c)'
    BY <1>1, <1>2, <1>6, <1>8 DEF LoginInv, MisfreedInv, IsToken, AppCsp
  <1>14. \A d \in Channels \ {c} : ThreadKept(d)
    BY <1>1, <1>6, <1>8 DEF ThreadKept
  <1>15. QED 
    BY <1>1, <1>5, <1>7, <1>9, <1>10, <1>11, <1>12, <1>13, <1>14, StepOfOne DEF LoginInv

(* What is on the heap when all of a channel's objects are collected.      *)
LEMMA Collected ==
  ASSUME heap \in [Blocks -> Csps \cup {NoBlock}], NEW c \in Channels, 
         heap' = Freed(BlocksOf(c))
  PROVE  /\ heap' \in [Blocks -> Csps \cup {NoBlock}] /\ BlocksOf(c)' = {}
         /\ \A d \in Channels \ {c} : BlocksKept(d)
  <1>1. heap' = [b \in Blocks |-> IF b \in BlocksOf(c) THEN NoBlock ELSE heap[b]]
    BY DEF Freed
  <1>2. BlocksOf(c)' = {b \in Blocks : heap'[b] # NoBlock /\ heap'[b].of = c}
    BY DEF BlocksOf, Live, Blocks
  <1>3. \A b \in Blocks : b \in BlocksOf(c) <=> heap[b] # NoBlock /\ heap[b].of = c
    BY BlocksOfFacts
  <1>4. BlocksOf(c)' = {}
    BY <1>1, <1>2, <1>3
  <1>5. \A d \in Channels \ {c} : BlocksKept(d)
    BY <1>1, <1>3 DEF BlocksKept
  <1>6. QED BY <1>1, <1>4, <1>5

LEMMA SecParmsJmsStep ==
  ASSUME LoginsInv, program \in Logins, NEW c \in Channels, SecParmsJms(c)
  PROVE  LoginsInv'
  <1> DEFINE to == [given \in {NULL, AppCsp} |-> 
                     IF given = AppCsp \/ ~endpoint THEN "returned" ELSE "asking"]
  <1>1. SecParms(c, to) /\ program = "JmsJwtExit"
    BY DEF SecParmsJms
  <1>2. /\ heap' = Freed(BlocksOf(c))
        /\ UNCHANGED <<program, phase, ExitUserArea, crashed, endpoint, body, chunk, misfreed>>
    BY DEF SecParmsJms
  <1>3. /\ conversations[c] \in Nat /\ conversations'[c] = conversations[c] + 1
        /\ conversations'[c] \in 1..MaxConversations
        /\ conversations' \in [Channels -> 0..MaxConversations]
        /\ SecurityParms'[c] \in {NULL, AppCsp} /\ ~Own(c)'
        /\ SecurityParms' \in [Channels -> Addresses \cup {AppCsp}]
        /\ pc'[c] = to[SecurityParms'[c]] 
        /\ answers'[c] = <<>> /\ answers' \in [Channels -> Seq(Bodies)] /\ sent'[c] = NotYet 
        /\ sent' \in [Channels -> Bodies \cup {NotYet, NoCsp, Applications}]
        /\ phase[c] = "open" /\ ~misfreed[c]
    BY <1>1, SecParmsStarts
  <1>4. \A d \in Channels \ {c} :
              /\ conversations'[d] = conversations[d] /\ SecurityParms'[d] = SecurityParms[d]
              /\ pc'[d] = pc[d] /\ answers'[d] = answers[d] /\ sent'[d] = sent[d]
    BY <1>1, SecParmsStarts
  <1>5. \/ pc'[c] = "returned" /\ (SecurityParms'[c] = AppCsp \/ ~endpoint)
        \/ pc'[c] = "asking" /\ SecurityParms'[c] = NULL /\ endpoint
    BY <1>3
  <1>6. pc' \in [Channels -> {"idle", "receiving", "asking", "askingAgain", "returned"}]
    <2>1. DOMAIN pc' = Channels /\ pc' = [x \in Channels |-> pc'[x]]
      BY <1>1 DEF SecParms, LoginsInv, LoginTypeOK
    <2>2. \A x \in Channels : 
            pc'[x] \in {"idle", "receiving", "asking", "askingAgain", "returned"}
      BY <1>4, <1>5 DEF LoginsInv, LoginTypeOK
    <2>3. QED BY <2>1, <2>2
  <1> HIDE DEF to
  <1>7. heap' \in [Blocks -> Csps \cup {NoBlock}] /\ BlocksOf(c)' = {}
        /\ \A d \in Channels \ {c} : BlocksKept(d)
    BY <1>2, Collected DEF LoginsInv
  <1>8. Typed'
    BY <1>2, <1>3, <1>6, <1>7 DEF Typed, LoginsInv, LoginTypeOK
  <1>9. PointInv(c)'
    BY <1>2, <1>3 DEF PointInv
  <1>10. ReceivingInv(c)' /\ AskingInv(c)'
    BY <1>1, <1>2, <1>3, <1>5 DEF ReceivingInv, AskingInv
  <1>11. ReturnedInv(c)'
    BY <1>1, <1>2, <1>3, <1>5 DEF ReturnedInv, NULL, AppCsp
  <1>12. HeapInv(c)' /\ MisfreedInv(c)' /\ SentInv(c)'
    BY <1>1, <1>2, <1>3, <1>7 DEF HeapInv, MisfreedInv, SentInv
  <1>13. \A d \in Channels \ {c} : ThreadKept(d)
    BY <1>2, <1>4 DEF ThreadKept
  <1>14. QED BY <1>2, <1>7, <1>8, <1>9, <1>10, <1>11, <1>12, <1>13, StepOfOne DEF LoginInv

LEMMA FirstObtainStep ==
  ASSUME LoginsInv, program \in Logins, NEW c \in Channels, FirstObtainToken(c)
  PROVE  LoginsInv'
  <1>1. PICK what \in Kinds :
          /\ Answered(c, Says(c, what))
          /\ \/ /\ IsToken(Says(c, what)) /\ Goes(c, "asking", "askingAgain") 
                /\ UNCHANGED <<ExitResponse, phase, heap, SecurityParms>>
             \/ ~IsToken(Says(c, what)) /\ CloseChannel(c)
    BY DEF FirstObtainToken
  <1>2. /\ pc[c] = "asking"
        /\ UNCHANGED <<program, ExitUserArea, crashed, endpoint, conversations, 
                       body, chunk, sent, misfreed>>
    BY DEF FirstObtainToken
  <1> DEFINE a == Says(c, what)
  <1>3. a \in Bodies
    BY <1>2, SaysFacts DEF LoginsInv, LoginTypeOK, LoginInv, PointInv
  <1> HIDE DEF a
  <1>4. CASE ~IsToken(a) /\ CloseChannel(c)
    <2>1. chunk' \in [Channels -> Seq(Portions)] /\ \A d \in Channels \ {c} : chunk'[d] = chunk[d]
      BY <1>2 DEF LoginsInv, LoginTypeOK
    <2>2. Answered(c, a)
      BY <1>1 DEF a
    <2>3. QED BY <1>2, <1>3, <1>4, <2>1, <2>2, CloseStep
  <1>5. CASE /\ IsToken(a) /\ Goes(c, "asking", "askingAgain") 
             /\ UNCHANGED <<ExitResponse, phase, heap, SecurityParms>>
    <2>1. LoginTypeOK /\ LoginInv(c) /\ SentInv(c)
      BY DEF LoginsInv
    <2>2. /\ program = "JmsJwtExit" /\ SecurityParms[c] = NULL /\ endpoint /\ answers[c] = <<>>
          /\ phase[c] = "open" /\ sent[c] = NotYet /\ conversations[c] > 0
      BY <1>2, <2>1 DEF LoginInv, AskingInv, PointInv
    <2>3. /\ answers'[c] # <<>> /\ Len(answers'[c]) = 1 /\ answers'[c][1] = a
          /\ answers' \in [Channels -> Seq(Bodies)]
          /\ \A d \in Channels \ {c} : answers'[d] = answers[d]
      BY <1>1, <1>3, <2>1, <2>2, FirstAnswer DEF a
    <2>4. /\ pc' \in [Channels -> {"idle", "receiving", "asking", "askingAgain", "returned"}]
          /\ pc'[c] = "askingAgain" /\ \A d \in Channels \ {c} : pc'[d] = pc[d]
      BY <1>5, <2>1 DEF LoginTypeOK, Goes
    <2>5. Typed'
      BY <1>2, <1>5, <2>3, <2>4 DEF Typed, LoginsInv, LoginTypeOK
    <2>6. \A d \in Channels : BlocksKept(d)
      BY <1>5 DEF BlocksKept
    <2>7. PointInv(c)'
      BY <1>2, <1>5, <2>2, <2>3, <2>4 DEF PointInv, IsToken
    <2>8. ~Own(c)' /\ SecurityParms'[c] = NULL
      BY <1>5, <2>2, ValueFacts DEF Own, Blocks, NULL
    <2>9. ReceivingInv(c)' /\ AskingInv(c)' /\ ReturnedInv(c)' /\ SentInv(c)'
      BY <1>2, <2>2, <2>3, <2>4, <2>8 DEF ReceivingInv, AskingInv, ReturnedInv, SentInv, NULL
    <2>10. HeapInv(c)'
      BY <1>2, <1>5, <2>2, <2>8 DEF HeapInv
    <2>11. MisfreedInv(c)'
      BY <1>2, <2>1, <2>2 DEF LoginInv, MisfreedInv
    <2>12. \A d \in Channels \ {c} : ThreadKept(d)
      BY <1>2, <1>5, <2>3, <2>4 DEF ThreadKept
    <2>13. QED BY <1>2, <2>5, <2>6, <2>7, <2>9, <2>10, <2>11, <2>12, StepOfOne DEF LoginInv
  <1>6. QED BY <1>1, <1>4, <1>5 DEF a

LEMMA SecondObtainStep ==
  ASSUME LoginsInv, program \in Logins, NEW c \in Channels, SecondObtainToken(c)
  PROVE  LoginsInv'
  <1> DEFINE b == malloc(heap)
  <1>1. PICK what \in Kinds :
          /\ Answered(c, Says(c, what)) /\ b # NULL
          /\ SecurityParms' = [SecurityParms EXCEPT ![c] = b]
          /\ heap' = [heap EXCEPT ![b] = CspWith(c, Used(Says(c, what)))]
    BY DEF SecondObtainToken
  <1>2. /\ Goes(c, "askingAgain", "returned")
        /\ UNCHANGED <<program, phase, ExitUserArea, ExitResponse, crashed, endpoint, 
                       conversations, body, chunk, sent, misfreed>>
    BY DEF SecondObtainToken
  <1>3. pc[c] = "askingAgain" /\ pc' = [pc EXCEPT ![c] = "returned"]
    BY <1>2 DEF Goes
  <1> DEFINE a == Says(c, what)
  <1>4. a \in Bodies
    BY <1>3, SaysFacts DEF LoginsInv, LoginTypeOK, LoginInv, PointInv
  <1>5. b \in Blocks /\ heap[b] = NoBlock
    BY <1>1, MallocFacts
  <1> HIDE DEF a, b
  <1>6. LoginTypeOK /\ LoginInv(c) /\ SentInv(c) /\ heap \in [Blocks -> Csps \cup {NoBlock}]
    BY DEF LoginsInv
  <1>7. /\ program = "JmsJwtExit" /\ Len(answers[c]) = 1 /\ phase[c] = "open" /\ sent[c] = NotYet
        /\ conversations[c] > 0 /\ ~misfreed[c] /\ IsToken(answers[c][1])
    <2>1. Len(answers[c]) = 1
      BY <1>3, <1>6 DEF LoginInv, AskingInv
    <2>2. answers[c] # <<>>
      BY <2>1
    <2>3. QED BY <1>3, <1>6, <2>1, <2>2 DEF LoginInv, AskingInv, PointInv, MisfreedInv
  <1>8. /\ answers'[c] # <<>> /\ answers'[c][1] = answers[c][1] /\ Last(answers'[c]) = a
        /\ answers' \in [Channels -> Seq(Bodies)]
        /\ \A d \in Channels \ {c} : answers'[d] = answers[d]
    <2>1. answers[c] \in Seq(Bodies) /\ answers' = [answers EXCEPT ![c] = Append(@, a)]
      BY <1>1, <1>6 DEF LoginTypeOK, Answered, a
    <2>2. answers'[c] = Append(answers[c], a)
      BY <1>6, <2>1 DEF LoginTypeOK
    <2>3. Len(answers'[c]) = 2 /\ answers'[c][2] = a /\ answers'[c][1] = answers[c][1]
      BY <1>4, <1>7, <2>1, <2>2
    <2>4. answers'[c] # <<>>
      BY <2>3
    <2>5. QED BY <1>4, <1>6, <2>1, <2>3, <2>4 DEF LoginTypeOK, Last
  <1>9. /\ SecurityParms' \in [Channels -> Addresses \cup {AppCsp}] /\ SecurityParms'[c] = b
        /\ \A d \in Channels \ {c} : SecurityParms'[d] = SecurityParms[d]
        /\ pc' \in [Channels -> {"idle", "receiving", "asking", "askingAgain", "returned"}]
        /\ pc'[c] = "returned" /\ \A d \in Channels \ {c} : pc'[d] = pc[d]
    BY <1>1, <1>3, <1>5, <1>6 DEF LoginTypeOK, Addresses
  <1>10. /\ heap' \in [Blocks -> Csps \cup {NoBlock}] /\ heap'[b] = CspWith(c, Used(a))
         /\ \A d \in Channels \ {c} : BlocksKept(d)
         /\ b \in BlocksOf(c)'
    BY <1>1, <1>4, <1>5, <1>6, UsedFacts, NewBlock DEF a
  <1>11. Typed'
    BY <1>2, <1>8, <1>9, <1>10 DEF Typed, LoginsInv, LoginTypeOK
  <1>12. PointInv(c)'
    BY <1>2, <1>7, <1>8, <1>9 DEF PointInv, IsToken
  <1>13. ReceivingInv(c)' /\ AskingInv(c)' /\ SentInv(c)'
    BY <1>2, <1>7, <1>9 DEF ReceivingInv, AskingInv, SentInv
  <1>14. ReturnedInv(c)'
    <2>1. Own(c)' /\ heap'[SecurityParms'[c]] = CspWith(c, Used(Last(answers'[c])))
      BY <1>5, <1>8, <1>9, <1>10 DEF Own, Blocks
    <2>2. OwnAnswer(c, Last(answers[c]))'
      <3>1. a = Says(c, a.what)
        BY DEF a, Says, Answer
      <3>2. QED BY <1>2, <1>8, <3>1 DEF OwnAnswer, Says, Last
    <2>3. QED BY <1>8, <2>1, <2>2 DEF ReturnedInv, CspWith, Used, IsToken, Last
  <1>15. HeapInv(c)'
    BY <1>2, <1>7, <1>9, <1>10 DEF HeapInv
  <1>16. MisfreedInv(c)'
    BY <1>2, <1>7 DEF MisfreedInv
  <1>17. \A d \in Channels \ {c} : ThreadKept(d)
    BY <1>2, <1>8, <1>9 DEF ThreadKept
  <1>18. QED 
    BY <1>2, <1>10, <1>11, <1>12, <1>13, <1>14, <1>15, <1>16, <1>17, StepOfOne DEF LoginInv

LEMMA TermJmsStep ==
  ASSUME LoginsInv, program \in Logins, NEW c \in Channels, TermJms(c)
  PROVE  LoginsInv'
  <1>1. /\ program = "JmsJwtExit" /\ phase[c] \in {"open", "closing"} /\ pc[c] = "idle"
        /\ phase' = [phase EXCEPT ![c] = "ended"] /\ heap' = Freed(BlocksOf(c))
        /\ UNCHANGED <<program, ExitUserArea, crashed, endpoint, pc, conversations, SecurityParms, 
                       body, chunk, answers, sent, misfreed>>
    BY DEF TermJms, Called, Becomes
  <1>2. LoginTypeOK /\ LoginInv(c) /\ SentInv(c) 
    BY DEF LoginsInv
  <1>3. heap' \in [Blocks -> Csps \cup {NoBlock}] /\ BlocksOf(c)' = {}
        /\ \A d \in Channels \ {c} : BlocksKept(d)
    BY <1>1, Collected DEF LoginsInv
  <1>4. Typed'
    BY <1>1, <1>3 DEF Typed, LoginsInv, LoginTypeOK, Phases
  <1>5. phase'[c] = "ended" /\ \A d \in Channels \ {c} : phase'[d] = phase[d]
    BY <1>1 DEF LoginsInv
  <1>6. PointInv(c)'
    BY <1>1, <1>2, <1>5 DEF LoginInv, PointInv, NULL
  <1>7. ReceivingInv(c)' /\ AskingInv(c)' /\ ReturnedInv(c)' 
    BY <1>1 DEF ReceivingInv, AskingInv, ReturnedInv
  <1>8. SentInv(c)'
    BY <1>1, <1>2 DEF SentInv, Used, IsToken, Last, OwnAnswer, Says, Answer, NotYet, 
                      Applications, NoCsp
  <1>9. HeapInv(c)' /\ MisfreedInv(c)'
    BY <1>1, <1>2, <1>3, <1>5 DEF LoginInv, HeapInv, MisfreedInv
  <1>10. \A d \in Channels \ {c} : ThreadKept(d)
    BY <1>1, <1>5 DEF ThreadKept
  <1>11. QED BY <1>1, <1>3, <1>4, <1>6, <1>7, <1>8, <1>9, <1>10, StepOfOne DEF LoginInv

LEMMA SendStep ==
  ASSUME LoginsInv, program \in Logins, NEW c \in Channels, Send(c)
  PROVE  LoginsInv'
  <1>1. /\ pc[c] = "returned" /\ pc' = [pc EXCEPT ![c] = "idle"]
        /\ crashed' = (SecurityParms[c] \notin Live \cup {NULL, AppCsp})
        /\ sent' = [sent EXCEPT ![c] = IF crashed' THEN NoCsp ELSE CspNow(c)]
        /\ UNCHANGED <<program, phase, ExitUserArea, ExitResponse, heap, endpoint, conversations,
                       SecurityParms, body, chunk, answers, misfreed>>
    BY DEF Send, Goes
  <1>2. LoginTypeOK /\ LoginInv(c) /\ SentInv(c) 
    BY DEF LoginsInv
  <1>3. phase[c] = "open" /\ conversations[c] > 0 /\ ReturnedInv(c)
    BY <1>1, <1>2 DEF LoginInv, PointInv
  <1>4. ~crashed'
    <2>1. Own(c) => SecurityParms[c] \in Live
      BY <1>2, <1>3, BlocksOfFacts DEF LoginInv, HeapInv
    <2>2. SecurityParms[c] \in {NULL, AppCsp} \/ Own(c)
      BY <1>2 DEF LoginTypeOK, Addresses, Own
    <2>3. QED BY <1>1, <2>1, <2>2
  <1>5. sent'[c] = CspNow(c) /\ \A d \in Channels \ {c} : sent'[d] = sent[d]
    BY <1>1, <1>2, <1>4 DEF LoginTypeOK
  <1>6. \/ /\ answers[c] # <<>> /\ OwnAnswer(c, Last(answers[c]))
           /\ CspNow(c) = Used(Last(answers[c])) /\ CspNow(c) \in Bodies
        \/ CspNow(c) = Applications /\ program = "JmsJwtExit" /\ answers[c] = <<>>
        \/ CspNow(c) = NoCsp /\ (program = "JmsJwtExit" => ~endpoint)
    <2>1. CASE Own(c) /\ answers[c] # <<>> /\ OwnAnswer(c, Last(answers[c]))
               /\ heap[SecurityParms[c]] = CspWith(c, Used(Last(answers[c])))
      <3>1. SecurityParms[c] \notin {NULL, AppCsp}
        BY <2>1, ValueFacts DEF Own
      <3>2. CspNow(c) = Used(Last(answers[c]))
        BY <2>1, <3>1 DEF CspNow, CspWith
      <3>3. Last(answers[c]) \in Bodies
        BY <1>2, <2>1 DEF LoginTypeOK, Last
      <3>4. QED BY <2>1, <3>2, <3>3, UsedFacts
    <2>2. CASE SecurityParms[c] = NULL /\ (program = "JmsJwtExit" => ~endpoint)
      BY <2>2 DEF CspNow
    <2>3. CASE SecurityParms[c] = AppCsp /\ program = "JmsJwtExit" /\ answers[c] = <<>>
      BY <2>3, ValueFacts DEF CspNow
    <2>4. QED BY <1>1, <1>3, <2>1, <2>2, <2>3 DEF ReturnedInv
  <1>7. Typed'
    <2>1. sent' \in [Channels -> Bodies \cup {NotYet, NoCsp, Applications}]
      <3>1. CspNow(c) \in Bodies \cup {NotYet, NoCsp, Applications}
        BY <1>6
      <3>2. QED BY <1>1, <1>2, <1>4, <3>1 DEF LoginTypeOK
    <2>2. QED BY <1>1, <1>4, <2>1 DEF Typed, LoginsInv, LoginTypeOK
  <1>8. \A d \in Channels : BlocksKept(d)
    BY <1>1 DEF BlocksKept
  <1>9. BlocksOf(c)' = BlocksOf(c) /\ Own(c)' = Own(c)
    BY <1>1, <1>8, KeptBlocks DEF Own, Blocks
  <1>10. pc'[c] = "idle" /\ \A d \in Channels \ {c} : pc'[d] = pc[d]
    BY <1>1, <1>2 DEF LoginTypeOK
  <1>11. PointInv(c)'
    BY <1>1, <1>2, <1>3, <1>10 DEF LoginInv, PointInv, IsToken
  <1>12. ReceivingInv(c)' /\ AskingInv(c)' /\ ReturnedInv(c)' 
    BY <1>10 DEF ReceivingInv, AskingInv, ReturnedInv
  <1>13. HeapInv(c)' 
    BY <1>1, <1>2, <1>9 DEF LoginInv, HeapInv
  <1>14. MisfreedInv(c)'
    BY <1>1, <1>2, <1>3 DEF LoginInv, MisfreedInv, IsToken, AppCsp
  <1>15. SentInv(c)'
    BY <1>1, <1>5, <1>6 DEF SentInv, Used, IsToken, Last, OwnAnswer, Says, Applications, NoCsp
  <1>16. \A d \in Channels \ {c} : ThreadKept(d)
    BY <1>1, <1>5, <1>10 DEF ThreadKept
  <1>17. QED BY <1>1, <1>7, <1>8, <1>11, <1>12, <1>13, <1>14, <1>15, <1>16, StepOfOne DEF LoginInv

-----------------------------------------------------------------------------
(* The theorems.                                                           *)

LEMMA LoginsInit == Init => LoginsInv
  <1> SUFFICES ASSUME Init PROVE LoginsInv
    OBVIOUS
  <1>1. program \in Programs /\ phase = [c \in Channels |-> "new"] /\ ~crashed
        /\ ExitUserArea = [c \in Channels |-> NULL] /\ heap = [b \in Blocks |-> NoBlock]
    BY DEF Init, CallsInit
  <1>2. LoginInit
    BY DEF Init
  <1>3. LoginTypeOK
    BY <1>2, ValueFacts DEF LoginInit, LoginTypeOK, Addresses
  <1>4. \A c \in Channels : BlocksOf(c) = {} /\ Cardinality(BlocksOf(c)) = 0 /\ ~Own(c)
    BY <1>1, <1>2, FS_EmptySet, ValueFacts DEF BlocksOf, Live, LoginInit, Own
  <1>5. \A c \in Channels : LoginInv(c) /\ SentInv(c)
    BY <1>1, <1>2, <1>4, ValueFacts DEF LoginInit, LoginInv, PointInv, ReceivingInv, AskingInv, 
       ReturnedInv, HeapInv, MisfreedInv, SentInv
  <1>6. QED BY <1>1, <1>2, <1>3, <1>5 DEF LoginsInv, LoginInit, Phases

(* A channel that is configured with another exit never logs in.           *)
LEMMA OnlyLogins ==
  ASSUME LoginsInv, NEW c \in Channels, LoginCall(c)
  PROVE  program \in Logins
  <1> SUFFICES ASSUME program \notin Logins PROVE FALSE
    OBVIOUS
  <1>1. pc[c] = "idle"
    BY DEF LoginsInv
  <1>2. QED BY <1>1 DEF LoginCall, LoginInitCall, Send, SecParmsC, WriteMemoryCallback, 
           LoginFails, LoginDone, TermC, SecParmsJms, FirstObtainToken, SecondObtainToken, 
           TermJms, Called, Logins, Goes

(* What a channel does when it is not configured with one of these exits.  *)
LEMMA LabelStep ==
  ASSUME LoginsInv, program \notin Logins, [Next]_vars
  PROVE  LoginsInv'
  <1>1. program' = program /\ phase' \in [Channels -> Phases] /\ UNCHANGED loginVars
    <2>1. CASE EditConfigFile /\ UNCHANGED loginVars
      BY <2>1 DEF EditConfigFile, callVars, LoginsInv
    <2>2. CASE (\E c \in Channels : LabelCall(c)) /\ UNCHANGED loginVars
      <3>1. PICK c \in Channels : LabelCall(c)
        BY <2>2
      <3>2. program' = program
        BY <3>1 DEF LabelCall, LabelInitCall, AutoClusSdr, AutoOther, LabelTerm
      <3>3. phase' = phase \/ \E p \in Phases : phase' = [phase EXCEPT ![c] = p]
        BY <3>1 DEF LabelCall, LabelInitCall, AutoClusSdr, AutoOther, LabelTerm, Becomes, Phases
      <3>4. QED BY <2>2, <3>2, <3>3 DEF LoginsInv
    <2>3. CASE UNCHANGED vars
      BY <2>3 DEF vars, callVars, LoginsInv
    <2>4. ASSUME NEW c \in Channels, LoginCall(c)
          PROVE  FALSE
      BY <2>4, OnlyLogins
    <2>5. QED BY <2>1, <2>2, <2>3, <2>4 DEF Next
  <1>2. LoginTypeOK'
    BY <1>1 DEF LoginsInv, LoginTypeOK, loginVars
  <1>3. \A c \in Channels : pc'[c] = "idle" /\ sent'[c] = NotYet /\ ~misfreed'[c]
    BY <1>1 DEF LoginsInv, loginVars
  <1>4. QED BY <1>1, <1>2, <1>3 DEF LoginsInv, Programs, Logins, Phases, NotYet

LEMMA UnchangedStep ==
  ASSUME LoginsInv, UNCHANGED vars
  PROVE  LoginsInv'
  <1>1. UNCHANGED <<program, phase, ExitUserArea, heap, crashed, loginVars>>
    BY DEF vars, callVars
  <1>2. LoginTypeOK'
    BY <1>1 DEF LoginsInv, LoginTypeOK, loginVars
  <1>3. \A c \in Channels : ThreadKept(c) /\ BlocksKept(c)
    BY <1>1 DEF ThreadKept, BlocksKept, loginVars
  <1>4. program \in Logins => \A c \in Channels : LoginInv(c)' /\ SentInv(c)'
    BY <1>1, <1>3, KeptChannel DEF LoginsInv, loginVars
  <1>5. program \notin Logins => 
          \A c \in Channels : pc'[c] = "idle" /\ sent'[c] = NotYet /\ ~misfreed'[c]
    BY <1>1 DEF LoginsInv, loginVars
  <1>6. QED BY <1>1, <1>2, <1>4, <1>5 
         DEF LoginsInv, Programs, Logins, Phases, NotYet, NULL, Blocks, NoBlock, Csps, Bodies, Kinds

LEMMA LoginsStep == LoginsInv /\ [Next]_vars => LoginsInv'
  <1> SUFFICES ASSUME LoginsInv, [Next]_vars PROVE LoginsInv'
    OBVIOUS
  <1>1. CASE program \notin Logins
    BY <1>1, LabelStep
  <1>2. CASE program \in Logins
    <2>1. CASE UNCHANGED vars
      BY <2>1, UnchangedStep
    <2>2. ASSUME NEW c \in Channels, LoginCall(c)
          PROVE  LoginsInv'
      <3>1. CASE LoginInitCall(c) BY <1>2, <3>1, InitStep
      <3>2. CASE Send(c) BY <1>2, <3>2, SendStep
      <3>3. CASE SecParmsC(c) BY <1>2, <3>3, SecParmsCStep
      <3>4. CASE WriteMemoryCallback(c) BY <1>2, <3>4, WriteStep
      <3>5. CASE LoginFails(c) BY <1>2, <3>5, LoginFailsStep
      <3>6. CASE LoginDone(c) BY <1>2, <3>6, LoginDoneStep
      <3>7. CASE TermC(c) BY <1>2, <3>7, TermCStep
      <3>8. CASE SecParmsJms(c) BY <1>2, <3>8, SecParmsJmsStep
      <3>9. CASE FirstObtainToken(c) BY <1>2, <3>9, FirstObtainStep
      <3>10. CASE SecondObtainToken(c) BY <1>2, <3>10, SecondObtainStep
      <3>11. CASE TermJms(c) BY <1>2, <3>11, TermJmsStep
      <3>12. QED BY <2>2, <3>1, <3>2, <3>3, <3>4, <3>5, <3>6, <3>7, <3>8, <3>9, <3>10, <3>11 
                 DEF LoginCall
    <2>3. ASSUME EditConfigFile \/ \E c \in Channels : LabelCall(c)
          PROVE  FALSE
      BY <1>2, <2>3 DEF EditConfigFile, LabelCall, LabelInitCall, AutoClusSdr, AutoOther, LabelTerm,
                        Called, Logins
    <2>4. QED BY <2>1, <2>2, <2>3 DEF Next
  <1>3. QED BY <1>1, <1>2

(* The exits that log in keep their invariant: where each thread is, what  *)
(* has come of an answer, and which blocks are whose.                      *)
THEOREM LoginsInvariance == Spec => []LoginsInv
  <1>1. QED BY LoginsInit, LoginsStep, PTL DEF Spec

(* A token that the queue manager is sent is the token server's answer to  *)
(* this very conversation of this channel, whole (extjwtexit.c,            *)
(* AuthTokenLogin and WriteMemoryCallback; JmsJwtExit.java,                *)
(* channelSecurityExit).                                                   *)
THEOREM SentSafety == Spec => []SendsOwnToken
  <1>1. ASSUME LoginsInv, NEW c \in Channels
        PROVE  /\ sent[c] \notin {NotYet, NoCsp, Applications} =>
                    /\ sent[c].of = c /\ sent[c].conversation = conversations[c]
                    /\ answers[c] # <<>>
                    /\ IsToken(Last(answers[c])) => sent[c] = Last(answers[c])
               /\ sent[c] = NoCsp /\ program = "JmsJwtExit" => ~endpoint
    <2>1. CASE program \notin Logins
      BY <1>1, <2>1, ValueFacts DEF LoginsInv, Logins
    <2>2. CASE program \in Logins /\ sent[c] = NoCsp
      <3>1. answers[c] # <<>> => Last(answers[c]) \in Bodies
        BY <1>1 DEF LoginsInv, LoginTypeOK, Last
      <3>2. sent[c] = NoCsp /\ NoCsp # NotYet /\ NoCsp # Applications
        BY <2>2, ValueFacts
      <3>3. answers[c] # <<>> => Used(Last(answers[c])) # NoCsp
        BY <3>1, UsedFacts, ValueFacts
      <3>4. program = "JmsJwtExit" => ~endpoint
        BY <1>1, <2>2, <3>2, <3>3 DEF LoginsInv, SentInv
      <3>5. QED BY <3>2, <3>4
    <2>3. CASE program \in Logins /\ sent[c] \notin {NotYet, NoCsp, Applications}
      <3>1. /\ answers[c] # <<>> /\ OwnAnswer(c, Last(answers[c]))
            /\ sent[c] = Used(Last(answers[c]))
        BY <1>1, <2>3 DEF LoginsInv, SentInv
      <3>2. /\ Last(answers[c]).of = c /\ Last(answers[c]).conversation = conversations[c]
            /\ Last(answers[c]) \in Bodies
        <4>1. LET a == Last(answers[c]) IN a = Says(c, a.what)
          BY <3>1 DEF OwnAnswer
        <4>2. Last(answers[c]) \in Bodies
          BY <1>1, <3>1 DEF LoginsInv, LoginTypeOK, Last
        <4>3. QED BY <4>1, <4>2 DEF Says, Answer
      <3>3. /\ sent[c].of = c /\ sent[c].conversation = conversations[c]
            /\ IsToken(Last(answers[c])) => sent[c] = Last(answers[c])
        BY <3>1, <3>2 DEF Used, Bodies
      <3>4. QED BY <2>3, <3>1, <3>3
    <2>4. QED BY <2>1, <2>2, <2>3
  <1>2. LoginsInv => SendsOwnToken
    BY <1>1 DEF SendsOwnToken
  <1>3. QED BY <1>2, LoginsInvariance, PTL

(* A channel is closed if and only if the first request of a conversation  *)
(* has brought no token; then nothing is sent (extjwtexit.c:309).          *)
THEOREM ClosedSafety == Spec => []ClosedWithoutToken
  <1>1. LoginsInv => ClosedWithoutToken
    <2> SUFFICES ASSUME LoginsInv, program \in Logins, NEW c \in Channels
                 PROVE  /\ phase[c] = "closing" <=> 
                             answers[c] # <<>> /\ ~IsToken(answers[c][1]) /\ phase[c] # "ended"
                        /\ phase[c] = "closing" => sent[c] = NotYet
      BY DEF ClosedWithoutToken
    <2>1. PointInv(c) /\ phase[c] \in Phases /\ conversations[c] \in Nat
      BY DEF LoginsInv, LoginInv, LoginTypeOK
    <2>2. Len(answers[c]) = 1 => answers[c] # <<>>
      OBVIOUS
    <2>3. QED BY <2>1, <2>2 DEF PointInv, Phases
  <1>2. QED BY <1>1, LoginsInvariance, PTL

(* When one of their channels has ended, fewer blocks of it are left than  *)
(* it had conversations, none with JmsJwtExit; and the application's MQCSP *)
(* is freed only where extjwtexit found it after a login that failed.      *)
LEMMA LeavesLittle == LoginsInv => (program \in Logins => LeavesNothing)
  <1> SUFFICES ASSUME LoginsInv, program \in Logins, NEW c \in Channels
               PROVE  /\ phase[c] = "ended" =>
                           \/ BlocksOf(c) = {}
                           \/ program = "extjwtexit" /\ Cardinality(BlocksOf(c)) < conversations[c]
                      /\ misfreed[c] => program = "extjwtexit" /\ ~IsToken(Last(answers[c]))
    BY DEF LeavesNothing
  <1>1. HeapInv(c) /\ MisfreedInv(c)
    BY DEF LoginsInv, LoginInv
  <1>2. Len(answers[c]) = 1 => Last(answers[c]) = answers[c][1]
    BY DEF Last
  <1>3. QED BY <1>1, <1>2 DEF HeapInv, MisfreedInv

-----------------------------------------------------------------------------
(* All three exits.                                                        *)

LEMMA ListsOfIInv == 
  /\ IInv /\ program = "amqsxlbl" => ListsInv 
  /\ ListsInv /\ LoginsInv /\ program = "amqsxlbl" => IInv
  BY DEF IInv, TypeOK, ListsInv, LoginsInv

LEMMA IInvInit == Init => IInv
  <1> SUFFICES ASSUME Init PROVE IInv
    OBVIOUS
  <1>1. LoginsInv /\ CallsInit /\ LabelInit
    BY LoginsInit DEF Init
  <1>2. CallsTypeOK
    <2>1. Live = {}
      BY <1>1 DEF CallsInit, Live
    <2>2. QED BY <1>1, <2>1 DEF CallsInit, CallsTypeOK, Phases, Responses, Addresses
  <1>3. LabelTypeOK
    <2>1. Blank.length = 0
      BY DEF Blank
    <2>2. \A c \in Channels : 0 <= certlabl[c].length /\ certlabl[c].length <= MQ_CERT_LABEL_LENGTH
      BY <1>1, <2>1 DEF LabelInit, MQ_CERT_LABEL_LENGTH
    <2>3. QED BY <1>1, <2>2 DEF LabelInit, LabelTypeOK
  <1>4. LabelsInv
    <2>1. \A c \in Channels : BlocksOf(c) = {} /\ ExitUserArea[c] = NULL /\ phase[c] = "new"
      BY <1>1 DEF CallsInit, BlocksOf, Live
    <2>2. QED BY <1>1, <2>1 DEF LabelsInv, LabelInv, LostInv, CallsInit
  <1>5. QED BY <1>1, <1>2, <1>3, <1>4 DEF IInv, TypeOK, LoginsInv, LabelInit

LEMMA LoginTypes ==
  ASSUME IInv, LoginsInv', NEW c \in Channels, LoginCall(c)
  PROVE  CallsTypeOK' /\ program' = program /\ program \in Logins
  <1>1. program \in Logins
    BY OnlyLogins DEF IInv
  <1>2. program' = program
    BY DEF LoginCall, LoginInitCall, Send, SecParmsC, WriteMemoryCallback, LoginFails, LoginDone, 
       TermC, SecParmsJms, FirstObtainToken, SecondObtainToken, TermJms, callVars
  <1>3. \/ ExitResponse' = ExitResponse
        \/ \E r \in Responses : ExitResponse' = [ExitResponse EXCEPT ![c] = r]
    BY DEF LoginCall, LoginInitCall, Send, SecParmsC, WriteMemoryCallback, LoginFails, LoginDone, 
       TermC, SecParmsJms, FirstObtainToken, SecondObtainToken, TermJms, callVars, SecParms, 
       CloseChannel, Responds, Responses
  <1>4. ExitResponse' \in [Channels -> Responses]
    BY <1>3 DEF IInv, TypeOK, CallsTypeOK
  <1>5. /\ program' \in Programs /\ phase' \in [Channels -> Phases]
        /\ ExitUserArea' = [d \in Channels |-> NULL]
        /\ heap' \in [Blocks -> Csps \cup {NoBlock}] /\ ~crashed'
    BY <1>1, <1>2 DEF LoginsInv, Programs, Phases, NULL, Blocks, NoBlock, Csps, Bodies, Kinds, Logins
  <1>6. crashed' \in BOOLEAN
    <2>1. CASE Send(c) \/ TermC(c)
      BY <2>1 DEF Send, TermC, FreeSecurityParms, Frees, IInv, TypeOK, CallsTypeOK
    <2>2. CASE ~Send(c) /\ ~TermC(c)
      BY <2>2 DEF LoginCall, LoginInitCall, SecParmsC, WriteMemoryCallback, LoginFails, LoginDone, 
         SecParmsJms, FirstObtainToken, SecondObtainToken, TermJms, callVars, IInv, TypeOK, 
         CallsTypeOK
    <2>3. QED BY <2>1, <2>2
  <1>7. \A b \in Live' : heap'[b].kind \in {"entry", "csp"} /\ heap'[b].of \in Channels
    <2>1. \A b \in Live' : b \in Blocks /\ heap'[b] # NoBlock
      BY DEF Live, Blocks, NoBlock
    <2>2. \A b \in Live' : heap'[b] \in Csps
      BY <1>5, <2>1
    <2>3. QED BY <2>2 DEF Csps
  <1>8. DOMAIN heap' = Blocks
    BY <1>5
  <1>9. QED BY <1>1, <1>2, <1>4, <1>5, <1>6, <1>7, <1>8 
         DEF CallsTypeOK, Programs, Phases, Responses, Addresses, Blocks, NULL

LEMMA IInvStep == IInv /\ [Next]_vars => IInv'
  <1> SUFFICES ASSUME IInv, [Next]_vars PROVE IInv'
    OBVIOUS
  <1>1. LoginsInv'
    BY LoginsStep DEF IInv
  <1>2. ASSUME EditConfigFile
        PROVE  IInv'
    <2>1. program = "amqsxlbl" /\ program' = program
      BY <1>2 DEF EditConfigFile, callVars
    <2>2. ListsInv'
      <3>1. ListsInv
        BY <2>1, ListsOfIInv
      <3>2. UNCHANGED <<callVars, asRead, definition, certlabl>> /\ configFile' \in ConfigFiles \cup {NoFile}
        BY <1>2 DEF EditConfigFile
      <3>3. QED BY <3>1, <3>2, KeptLists
    <2>3. QED BY <1>1, <2>1, <2>2 DEF IInv, TypeOK, ListsInv, LoginsInv
  <1>3. ASSUME NEW c \in Channels, LabelCall(c)
        PROVE  IInv'
    <2>1. program = "amqsxlbl" /\ program' = program
      BY <1>3 DEF LabelCall, LabelInitCall, AutoClusSdr, AutoOther, LabelTerm, Called
    <2>2. ListsInv'
      BY <1>3, <2>1, ListsOfIInv, LabelCallStep
    <2>3. QED BY <1>1, <2>1, <2>2 DEF IInv, TypeOK, ListsInv, LoginsInv
  <1>4. ASSUME NEW c \in Channels, LoginCall(c), UNCHANGED labelVars
        PROVE  IInv'
    <2>1. CallsTypeOK' /\ program' = program /\ program \in Logins
      BY <1>1, <1>4, LoginTypes
    <2>2. LabelTypeOK'
      BY <1>4 DEF IInv, TypeOK, LabelTypeOK, labelVars, NoFile, NoDefinition, MQ_CERT_LABEL_LENGTH
    <2>3. LoginTypeOK'
      BY <1>1 DEF LoginsInv
    <2>4. \A d \in Channels : definition'[d] = NoDefinition
      BY <1>4, <2>1 DEF IInv, labelVars, Logins
    <2>5. QED BY <1>1, <2>1, <2>2, <2>3, <2>4 DEF IInv, TypeOK, Logins, NoDefinition
  <1>5. CASE UNCHANGED vars
    <2>1. CASE program = "amqsxlbl"
      <3>1. ListsInv'
        BY <1>5, <2>1, ListsOfIInv, KeptLists DEF vars, labelVars, ListsInv, LabelTypeOK
      <3>2. program' = program
        BY <1>5 DEF vars, callVars
      <3>3. QED BY <1>1, <2>1, <3>1, <3>2 DEF IInv, TypeOK, ListsInv, LoginsInv
    <2>2. CASE program # "amqsxlbl"
      <3>1. CallsTypeOK'
        BY <1>5 DEF IInv, TypeOK, CallsTypeOK, vars, callVars, Live, Addresses, Blocks, NoBlock, 
           NULL, Programs, Phases, Responses
      <3>2. LabelTypeOK'
        BY <1>5 DEF IInv, TypeOK, LabelTypeOK, vars, labelVars, NoFile, NoDefinition, 
           MQ_CERT_LABEL_LENGTH
      <3>3. LoginTypeOK'
        BY <1>1 DEF LoginsInv
      <3>4. program' = program /\ \A d \in Channels : definition'[d] = NoDefinition
        BY <1>5, <2>2 DEF IInv, vars, callVars, labelVars
      <3>5. QED BY <1>1, <2>2, <3>1, <3>2, <3>3, <3>4 DEF IInv, TypeOK, NoDefinition
    <2>3. QED BY <2>1, <2>2
  <1>6. QED BY <1>2, <1>3, <1>4, <1>5 DEF Next

(* The lists of amqsxlbl are those of the files as they were read, and the *)
(* exits that log in keep their invariant.                                 *)
THEOREM Invariance == Spec => []IInv
  <1>1. QED BY IInvInit, IInvStep, PTL DEF Spec

LEMMA FirstMatchStep == IInv /\ FirstMatch /\ [Next]_vars => FirstMatch'
  <1> SUFFICES ASSUME IInv, FirstMatch, [Next]_vars PROVE FirstMatch'
    OBVIOUS
  <1> DEFINE Right(d) == definition[d] # NoDefinition =>
               IF definition[d].Version >= MQCD_VERSION_11
               THEN ExitResponse[d] = "OK" /\ certlabl[d] = Promised(asRead[d], definition[d])
               ELSE ExitResponse[d] = "SUPPRESS_FUNCTION" /\ certlabl[d] = Blank
  <1>1. \A d \in Channels : Right(d)
    BY DEF FirstMatch
  <1>2. (\A d \in Channels : Right(d)') => FirstMatch'
    BY DEF FirstMatch
  <1>3. ASSUME NEW d \in Channels, definition'[d] = definition[d], ExitResponse'[d] = ExitResponse[d], 
               certlabl'[d] = certlabl[d], asRead'[d] = asRead[d]
        PROVE  Right(d)'
    <2>1. Right(d)
      BY <1>1
    <2> DEFINE Then(cd, file) == cd # NoDefinition =>
                 IF cd.Version >= MQCD_VERSION_11
                 THEN ExitResponse[d] = "OK" /\ certlabl[d] = Promised(file, cd)
                 ELSE ExitResponse[d] = "SUPPRESS_FUNCTION" /\ certlabl[d] = Blank
    <2>2. Then(definition[d], asRead[d])
      BY <2>1
    <2>3. Then(definition'[d], asRead'[d])
      <3> HIDE DEF Then
      <3>1. QED BY <1>3, <2>2
    <2>4. QED BY <1>3, <2>3 DEF NoDefinition, MQCD_VERSION_11, Blank
  <1> HIDE DEF Right
  <1>4. CASE EditConfigFile \/ UNCHANGED vars
    BY <1>2, <1>3, <1>4 DEF EditConfigFile, vars, callVars, labelVars
  <1>5. ASSUME NEW c \in Channels, LoginCall(c)
        PROVE  FirstMatch'
    <2>1. program' # "amqsxlbl" /\ IInv'
      BY <1>5, IInvStep, LoginTypes DEF IInv, Logins
    <2>2. \A d \in Channels : definition'[d] = NoDefinition
      BY <2>1 DEF IInv, NoDefinition
    <2>3. QED BY <2>2 DEF FirstMatch, NoDefinition
  <1>6. ASSUME NEW c \in Channels, LabelCall(c)
        PROVE  FirstMatch'
    <2>1. CallsTypeOK /\ LabelTypeOK /\ ListsInv
      BY <1>6, ListsOfIInv DEF IInv, TypeOK, LabelCall, LabelInitCall, AutoClusSdr, AutoOther, 
         LabelTerm, Called
    <2>2. \A d \in Channels \ {c} : 
            /\ definition'[d] = definition[d] /\ ExitResponse'[d] = ExitResponse[d]
            /\ certlabl'[d] = certlabl[d] /\ asRead'[d] = asRead[d]
      <3>1. CASE LabelInitCall(c)
        BY <2>1, <3>1 DEF LabelInitCall, Responds, CallsTypeOK, LabelTypeOK
      <3>2. CASE AutoClusSdr(c)
        BY <2>1, <3>2 DEF AutoClusSdr, Responds, CallsTypeOK, LabelTypeOK
      <3>3. CASE AutoOther(c) \/ LabelTerm(c)
        BY <2>1, <3>3 DEF AutoOther, LabelTerm, Responds, CallsTypeOK, LabelTypeOK
      <3>4. QED BY <1>6, <3>1, <3>2, <3>3 DEF LabelCall
    <2>3. Right(c)'
      <3>1. CASE ~AutoClusSdr(c)
        <4>1. definition' = [definition EXCEPT ![c] = NoDefinition]
          BY <1>6, <3>1 DEF LabelCall, LabelInitCall, AutoOther, LabelTerm
        <4>2. definition'[c] = NoDefinition
          BY <2>1, <4>1 DEF LabelTypeOK
        <4>3. QED BY <4>2 DEF Right, NoDefinition
      <3>2. CASE AutoClusSdr(c)
        <4>1. PICK cd \in Definitions :
                /\ definition' = [definition EXCEPT ![c] = cd]
                /\ IF cd.Version < MQCD_VERSION_11
                   THEN /\ certlabl' = [certlabl EXCEPT ![c] = Blank]
                        /\ Responds(c, "SUPPRESS_FUNCTION")
                        /\ UNCHANGED crashed
                   ELSE /\ certlabl' = [certlabl EXCEPT ![c] = evalMapList(c, cd)]
                        /\ crashed' = ~(Walked(c) \subseteq Live)
                        /\ Responds(c, "OK")
          BY <3>2 DEF AutoClusSdr
        <4>2. ~crashed /\ phase[c] = "open" /\ asRead' = asRead
          BY <3>2 DEF AutoClusSdr, Called
        <4>3. asRead[c] \in ConfigFiles \cup {NoFile} /\ Len(asRead[c]) \in Nat
          BY <2>1, FileFacts DEF LabelTypeOK
        <4>4. HasRead(c, Len(asRead[c]))
          <5>1. PICK n \in 0..Len(asRead[c]) : HasRead(c, n) /\ (n < Len(asRead[c]) => crashed)
            BY <2>1, <4>2 DEF ListsInv, LabelsInv, LabelInv
          <5>2. n = Len(asRead[c])
            BY <4>2, <4>3, <5>1
          <5>3. QED BY <5>1, <5>2
        <4>5. evalMapList(c, cd) = Promised(asRead[c], cd)
          BY <4>3, <4>4, PromiseKept
        <4>6. cd.Version \in Nat /\ definition'[c] = cd
          BY <2>1, <4>1, LabelMapAssumption DEF LabelTypeOK
        <4>7. IF cd.Version >= MQCD_VERSION_11
              THEN ExitResponse'[c] = "OK" /\ certlabl'[c] = Promised(asRead[c], cd)
              ELSE ExitResponse'[c] = "SUPPRESS_FUNCTION" /\ certlabl'[c] = Blank
          <5>1. CASE cd.Version >= MQCD_VERSION_11
            <6>1. ~(cd.Version < MQCD_VERSION_11)
              BY <4>6, <5>1 DEF MQCD_VERSION_11
            <6>2. QED BY <2>1, <4>1, <4>5, <5>1, <6>1 DEF Responds, CallsTypeOK, LabelTypeOK
          <5>2. CASE ~(cd.Version >= MQCD_VERSION_11)
            <6>1. cd.Version < MQCD_VERSION_11
              BY <4>6, <5>2 DEF MQCD_VERSION_11
            <6>2. QED BY <2>1, <4>1, <5>2, <6>1 DEF Responds, CallsTypeOK, LabelTypeOK
          <5>3. QED BY <5>1, <5>2
        <4>8. QED BY <4>2, <4>6, <4>7 DEF Right, Promised, Promises, Blank, NoDefinition, MQCD_VERSION_11
      <3>3. QED BY <3>1, <3>2
    <2>4. QED BY <1>2, <1>3, <2>2, <2>3
  <1>7. QED BY <1>4, <1>5, <1>6 DEF Next

(* A cluster sender channel gets the label that the file, as it was at     *)
(* MQXR_INIT, promises to its name or its clusters: that of the first line *)
(* that fits, however many lines, entries and other channels there are     *)
(* (amqsxlbl.c, readConfigFile and evalMapList).                           *)
THEOREM LabelSafety == Spec => []FirstMatch
  <1>1. Init => FirstMatch
    BY DEF Init, LabelInit, FirstMatch
  <1>2. QED BY <1>1, FirstMatchStep, Invariance, PTL DEF Spec

(* A channel that has ended has left nothing on the heap but what          *)
(* extjwtexit loses of earlier conversations (amqsxlbl.c, freeMapList;     *)
(* extjwtexit.c:338; JmsJwtExit.java).                                     *)
THEOREM HeapSafety == Spec => []LeavesNothing
  <1>1. IInv => LeavesNothing
    <2>1. CASE program \in Logins
      BY <2>1, LeavesLittle DEF IInv
    <2>2. CASE program \notin Logins
      <3>1. IInv => \A c \in Channels : ~misfreed[c] /\ LabelInv(c)
        BY <2>2 DEF IInv, LoginsInv, LabelsInv, Programs, Logins
      <3>2. QED BY <3>1 DEF LabelInv, LeavesNothing
    <2>3. QED BY <2>1, <2>2
  <1>2. QED BY <1>1, Invariance, PTL

(* A process crashes in amqsxlbl only, when the memory is used up: never   *)
(* because a list is walked, freed or begun again.                         *)
THEOREM CrashesForMemory == Spec => [](~NeverCrashes => program = "amqsxlbl" /\ Live = Blocks)
  <1>1. IInv => (~NeverCrashes => program = "amqsxlbl" /\ Live = Blocks)
    BY DEF IInv, LoginsInv, LabelsInv, LostInv, NeverCrashes, Programs, Logins
  <1>2. QED BY <1>1, Invariance, PTL

(* It never does if there is memory for every line of a file on each       *)
(* channel.                                                                *)
THEOREM MemorySafety ==
  ASSUME IsFiniteSet(Channels), NEW L \in Nat, \A file \in ConfigFiles : Len(file) <= L, 
         Cardinality(Channels) * L <= MaxBlock
  PROVE  Spec => []NeverCrashes
  <1>1. IInv => NeverCrashes
    <2> SUFFICES ASSUME IInv PROVE ~crashed
      BY DEF NeverCrashes
    <2>1. CASE program = "amqsxlbl"
      BY <2>1, ListsOfIInv, MemoryLasts
    <2>2. CASE program # "amqsxlbl"
      BY <2>2 DEF IInv, LoginsInv, Programs, Logins
    <2>3. QED BY <2>1, <2>2
  <1>2. QED BY <1>1, Invariance, PTL
=============================================================================
