------------------------------- MODULE OtelPut -------------------------------
(***************************************************************************)
(* MQPUT and MQPUT1 as the OTel exit sees them (mqiotel_put.cc and the     *)
(* wrappers of mqiotel.c): the BEFORE hook adds the context of the active  *)
(* span to the properties of the message, in the message handle of the     *)
(* application or in one of its own that it slips into the MQPMO; the      *)
(* AFTER hook takes it out again.                                          *)
(***************************************************************************)
EXTENDS OtelTables

(* The hObj the hooks are given: MQPUT1 has none and passes a dummy.       *)
PutObjects(c) == opened[c] \cup {MQHO_UNUSABLE_HOBJ}

(* Which of the properties the message must not get from the span.  The    *)
(* handle that is asked for OriginalMsgHandle is the uninitialised mho:    *)
(* any handle of the connection, or none (and then the failing inquiry     *)
(* passes for a property that exists).  A search in an RFH2 yields npos    *)
(* when it fails: either way the answer counts as found.                   *)
SkipsOriginalOnly(c, kind, mho) ==  \* With a NewMsgHandle not looked at.
  IF kind # "original" THEN {}
  ELSE {p \in {"parent", "state"} : 
          isValidHandle(mho) => propsContain(c, mho, p)}

HandleSkips(c, kind, mho) ==
  IF kind = "new" 
  THEN {p \in {"parent", "state"} : propsContain(c, AppHandle, p)}
  ELSE IF kind = "original"
  THEN {p \in {"parent", "state"} : 
          isValidHandle(mho) => propsContain(c, mho, p)}
  ELSE {}

Rfh2Skips(rfh2) == IF rfh2 = "no" THEN {} ELSE {"parent", "state"}

(* The properties of a handle after the span's have been set in it.        *)
WithSpan(old, span, skip) ==
  [parent |-> IF span = None \/ "parent" \in skip THEN old.parent ELSE span,
   state  |-> IF span \notin StateSpans \/ "state" \in skip 
              THEN old.state ELSE span]

(* What the message carries: the handle's properties, and the RFH2's.      *)
Sent(inHandle, rfh2) ==
  IF rfh2 = "context" THEN [parent |-> App, state |-> App] ELSE inHandle

(* mqotPutBefore; pp is the MQPMO the queue manager will use, mh the       *)
(* message handle in it, msg the message's properties.  MQSETMP on an      *)
(* unusable handle fails, which is only logged.                            *)
mqotPutBefore(c, ho, pmo, kind, rfh2, span, mho) ==
  LET skip == HandleSkips(c, kind, mho) \cup Rfh2Skips(rfh2) 
      Record(pp, mh, inHandle) == 
        [op |-> "put", ho |-> ho, pmo |-> pmo, kind |-> kind, rfh2 |-> rfh2, 
         span |-> span, pp |-> pp, mh |-> mh, msg |-> Sent(inHandle, rfh2)]
  IN
  \/ /\ kind # "neither"
     /\ props' = [props EXCEPT ![c][AppHandle] = WithSpan(@, span, skip)]
     /\ call' = [call EXCEPT ![c] = Record(pmo, AppHandle, props'[c][AppHandle])]
     /\ UNCHANGED <<tables, alive>>
  \/ /\ kind = "neither"
     /\ Save(objectKey(c, ho), "pmo", pmo)
     /\ \E mh \in GotHandle(c, NullHobj) :
          /\ StoreHandle(c, NullHobj, mh)
          /\ props' = IF isValidHandle(mh) 
                      THEN [props EXCEPT ![c][mh] = WithSpan(@, span, skip)]
                      ELSE props
          /\ call' = [call EXCEPT ![c] = 
               Record(Mine(optionsMap'[objectKey(c, ho)]), mh,
                      IF isValidHandle(mh) THEN props'[c][mh] ELSE NoProps)]

Put(c) ==
  /\ Ready(c)
  /\ \E ho \in PutObjects(c), pmo \in Pmos, kind \in PmoKinds, 
        rfh2 \in Rfh2Kinds, span \in Spans \cup {None} :
       \E mho \in IF kind = "original" THEN alive[c] \cup {AppHandle, MQHM_NONE} 
                                       ELSE {MQHM_NONE} :
         mqotPutBefore(c, ho, pmo, kind, rfh2, span, mho)
  /\ UNCHANGED <<connected, opened, consumers>>

(* mqotPutAfter, and the return to the application.                        *)
mqotPutAfter(c) ==
  IF compareMsgHandle(c, NullHobj, call[c].mh)
  THEN heap[optionsMap[objectKey(c, call[c].ho)]].pmo
  ELSE call[c].pp

PutReturns(c) ==
  /\ call[c].op = "put"
  /\ call' = [call EXCEPT ![c].op = "putdone", ![c].pp = mqotPutAfter(c)]
  /\ UNCHANGED <<tables, qmgr>>
=============================================================================
