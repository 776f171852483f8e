------------------------------- MODULE OtelGet -------------------------------
(***************************************************************************)
(* MQGET, MQCB and message callbacks as the OTel exit sees them            *)
(* (mqiotel_get.cc and the wrappers of mqiotel.c): before the call the     *)
(* exit may have the properties of the message returned in a handle of its *)
(* own; once the message is there it links the context it carries to the   *)
(* active span.                                                            *)
(***************************************************************************)
EXTENDS OtelTables

(* The property options of an MQGMO; none of them is AS_Q_DEF.             *)
AsQDef == {}
AppOptions == {AsQDef} \cup {{o} : o \in AppFlags}

(* Options & GETPROPSOPTIONS.  The macro has no parentheses, so that only  *)
(* its first flag is masked and the other three are or-ed in.              *)
Masked(options) == 
  (options \cap {"FORCE_MQRFH2"}) 
    \cup {"IN_HANDLE", "NO_PROPERTIES", "COMPATIBILITY"}

(* The condition for overriding the application: it or the queue is set    *)
(* for not returning any properties.  With the macro as it is, it is never *)
(* fulfilled.                                                              *)
Overrides(options, propCtl) ==
  \/ Masked(options) = {"NO_PROPERTIES"}
  \/ Masked(options) = AsQDef /\ propCtl = "none"

(* A get call: what the application passed, and what became of it.         *)
GetCall(op, ho, gmo, options, after, pp, mh) ==
  [op |-> op, ho |-> ho, gmo |-> gmo, asked |-> options, 
   options |-> after,                      \* its MQGMO's options afterwards
   pp |-> pp, mh |-> mh,                   \* the MQGMO in use, its handle
   span |-> None, msg |-> NoProps, got |-> "nothing", link |-> NoProps]

(* mqotGetBefore.  The MQGMO the queue manager will use is the one of the  *)
(* application if it has a message handle of its own, and otherwise a copy *)
(* in the exit's structure, of which the handle can only be the exit's.    *)
(* The flags are changed in the application's MQGMO, not in the copy.      *)
mqotGetBefore(c, ho, gmo, options, appHandle, op) ==
  LET key == objectKey(c, ho) 
      Record(pp, mh, after) == 
        GetCall(op, ho, gmo, options, after, pp, mh)
  IN
  \/ /\ appHandle
     /\ call' = [call EXCEPT ![c] = Record(gmo, AppHandle, options)]
     /\ UNCHANGED <<tables, alive>>
  \/ /\ ~appHandle
     /\ Save(key, "gmo", gmo)
     /\ LET b == optionsMap'[key] IN
        IF Overrides(options, heap'[b].propCtl)
        THEN \E mh \in GotHandle(c, ho) :
               /\ StoreHandle(c, ho, mh)
               /\ call' = [call EXCEPT ![c] = 
                    Record(Mine(b), mh, 
                           (options \ {"NO_PROPERTIES"}) \cup {"IN_HANDLE"})]
        ELSE /\ call' = [call EXCEPT ![c] = Record(Mine(b), MQHM_NONE, options)]
             /\ UNCHANGED <<handleMap, alive>>

(* MQGET: all synchronous ones share the dummy hObj.                       *)
Get(c) ==
  /\ Ready(c)
  /\ opened[c] # {}
  /\ \E gmo \in Gmos, options \in AppOptions, appHandle \in BOOLEAN :
       mqotGetBefore(c, MQHO_UNUSABLE_HOBJ, gmo, options, appHandle, "get")
  /\ UNCHANGED <<connected, opened, consumers, props>>

(* MQCB for a message consumer: the queue manager keeps the handle that    *)
(* the MQGMO has now for the messages to come.                             *)
RegisterConsumer(c) ==
  /\ Ready(c)
  /\ \E ho \in opened[c], gmo \in Gmos, options \in AppOptions, 
        appHandle \in BOOLEAN :
       /\ mqotGetBefore(c, ho, gmo, options, appHandle, "getdone")
       /\ consumers' = [consumers EXCEPT ![c][ho] = 
                          [mh |-> call'[c].mh, options |-> options]]
  /\ UNCHANGED <<connected, opened, props>>

-----------------------------------------------------------------------------
(* What the queue manager answers.  Outcomes: a message, one truncated as  *)
(* accepted, one with a warning such as a failed conversion, no message.   *)
(* Its context is left in the handle, in an RFH2 or nowhere: options other *)
(* than IN_HANDLE and AS_Q_DEF make no use of a handle, and AS_Q_DEF leaves *)
(* the choice to the queue.  A context has a traceparent, a tracestate or  *)
(* both: either is enough for a link.                                      *)

Outcomes == {"ok", "truncated", "warning", "fail"}
Returned == Outcomes \ {"fail"}
Contexts == 
  {NoProps} 
    \cup [parent : Spans, state : {None}]
    \cup [parent : {None}, state : StateSpans]
    \cup {[parent |-> s, state |-> s] : s \in StateSpans}

Places(mh, options) ==
  {"none"} 
    \cup {p \in {"handle"} : isValidHandle(mh) /\ options \subseteq {"IN_HANDLE"}}
    \cup {p \in {"rfh2"} : options \subseteq {"FORCE_MQRFH2", "COMPATIBILITY"}}

(* The values mqotGetAfter comes to link: from a valid handle in the MQGMO *)
(* if there is one, else from an RFH2, and only when there is a message.   *)
ExtractedAlways(c, mh, outcome, msg, where, after) ==  \* With no such check.
  IF isValidHandle(mh) THEN after[c][mh]
  ELSE IF where = "rfh2" THEN msg
  ELSE NoProps

Extracted(c, mh, outcome, msg, where, after) ==
  IF outcome \notin {"ok", "truncated"} THEN NoProps
  ELSE IF isValidHandle(mh) THEN after[c][mh]
  ELSE IF where = "rfh2" THEN msg
  ELSE NoProps

(* mqotGetAfter, on the handle mh of the MQGMO at pp.  A message that is   *)
(* returned replaces the properties of a valid handle.                     *)
mqotGetAfter(c, ho, mh, pp, rec, outcomes) ==
  \E outcome \in outcomes, msg \in Contexts, span \in Spans \cup {None} :
    \E where \in Places(mh, rec.asked) :
      /\ props' = IF isValidHandle(mh) /\ outcome \in Returned
                  THEN [props EXCEPT ![c][mh] = 
                          IF where = "handle" THEN msg ELSE NoProps]
                  ELSE props
      /\ call' = [call EXCEPT ![c] = [rec EXCEPT 
           !.op = "getdone", !.span = span, !.msg = msg,
           !.got = IF outcome \in Returned THEN where ELSE "nothing",
           !.pp = IF /\ isValidHandle(mh)
                     /\ ho = MQHO_UNUSABLE_HOBJ 
                     /\ compareMsgHandle(c, ho, mh)
                  THEN heap[optionsMap[objectKey(c, ho)]].gmo ELSE pp,
           !.link = IF span = None THEN NoProps
                    ELSE Extracted(c, mh, outcome, msg, where, props')]]

GetReturns(c) ==
  /\ call[c].op = "get"
  /\ mqotGetAfter(c, call[c].ho, call[c].mh, call[c].pp, call[c], Outcomes)
  /\ UNCHANGED <<tables, connected, opened, consumers, alive>>

(* CallbackBefore: a message handed to a consumer, only when it came       *)
(* without a warning.                                                      *)
Callback(c) ==
  /\ Ready(c)
  /\ \E ho \in opened[c], gmo \in Gmos :
       LET consumer == consumers[c][ho] IN
       /\ consumer # None
       /\ mqotGetAfter(c, ho, consumer.mh, gmo, 
            GetCall("callback", ho, gmo, consumer.options, consumer.options, 
                    gmo, consumer.mh),
            {"ok", "truncated"})
  /\ UNCHANGED <<tables, connected, opened, consumers, alive>>
=============================================================================
