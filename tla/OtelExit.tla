------------------------------ MODULE OtelExit ------------------------------
(***************************************************************************)
(* The loaded OTel exit at work: the connections of a process open, close, *)
(* put, get, consume and disconnect, each one call at a time, over the     *)
(* shared tables.  A hook is one step; between the BEFORE and the AFTER    *)
(* hook of a call, and between the iterations of the loops of MQDISC, the  *)
(* other connections go on.                                                *)
(***************************************************************************)
EXTENDS OtelObjects, OtelPut, OtelGet

(* The queue manager and the exit complete what the application started.   *)
ExitStep(c) == 
  PutReturns(c) \/ GetReturns(c) \/ DiscHandles(c) \/ DiscOptions(c)

AppStep(c) ==
  \/ Connect(c) \/ GoOn(c) \/ AppSetsProperties(c)
  \/ Open(c) \/ Close(c)
  \/ Put(c)
  \/ Get(c) \/ RegisterConsumer(c) \/ Callback(c)
  \/ Disc(c)

Next == \E c \in Conns : ExitStep(c) \/ AppStep(c)

(* A thread inside an MQI call is scheduled.                               *)
Fairness == \A c \in Conns : WF_vars(ExitStep(c))

Spec == Init /\ [][Next]_vars /\ Fairness

-----------------------------------------------------------------------------
(* Properties.                                                             *)

Properties == [parent : Values, state : Values]
Consumers == [mh : {AppHandle, MQHM_NONE}, options : AppOptions]

(* What a connection can be doing.                                         *)
Shown == Hobjs \cup {MQHO_UNUSABLE_HOBJ}
Copies == {Mine(b) : b \in Blocks}
PutCalls == 
  [op : {"put", "putdone"}, ho : Shown, pmo : Pmos, kind : PmoKinds, rfh2 : Rfh2Kinds,
   span : Spans \cup {None}, pp : Pmos \cup Copies \cup {Garbage}, 
   mh : Handles \cup {AppHandle, MQHM_UNUSABLE_HMSG}, msg : Properties]
GetCalls ==
  [op : {"get", "getdone"}, ho : Shown, gmo : Gmos, asked : AppOptions, 
   options : AppOptions, pp : Gmos \cup Copies, mh : {AppHandle, MQHM_NONE},
   span : Spans \cup {None}, msg : Contexts, got : {"nothing", "none", "handle", "rfh2"},
   link : Properties]
DiscCalls ==
  [op : {"discHandles", "discOptions"}, hc : Conns \cup {MQHC_UNUSABLE_HCONN},
   at : Keys \cup {End}]
Calls == {Idle} \cup PutCalls \cup GetCalls \cup DiscCalls

TypeOK ==
  /\ handleMap \in [Keys -> Handles \cup {None}]
  /\ optionsMap \in [Keys -> Blocks \cup {Null, None}]
  /\ heap \in [Blocks -> Struct \cup {None}]
  /\ connected \subseteq Conns
  /\ opened \in [Conns -> SUBSET Hobjs]
  /\ consumers \in [Conns -> [Hobjs -> Consumers \cup {None}]]
  /\ alive \in [Conns -> SUBSET Handles]
  /\ props \in [Conns -> [Handles \cup {AppHandle} -> Properties]]
  /\ call \in [Conns -> Calls]

(* The MQPMO that the exit puts in the place of the application's is out   *)
(* again when MQPUT returns: the application's very structure is back, not *)
(* that of an earlier call and not one on the heap, whatever MQPUT, MQPUT1 *)
(* and MQGET have stored under the same key in between.  (Without a handle *)
(* of its own in it, the exit does not recognise its MQPMO.)               *)
PmoRestored ==
  \A c \in Conns : 
    call[c].op = "putdone" /\ isValidHandle(call[c].mh) => call[c].pp = call[c].pmo

(* The exit's copy that a call in flight runs on stays allocated, stays    *)
(* findable under the call's key for the AFTER hook, and belongs to that   *)
(* call alone.                                                             *)
InFlight == {c \in Conns : call[c].op \in {"put", "get"}}
InFlightOptionsLive ==
  \A c \in InFlight : 
    LET b == optionsMap[objectKey(c, call[c].ho)] IN
    call[c].pp \notin Pmos \cup Gmos =>
      /\ b \in Blocks /\ heap[b] # None /\ call[c].pp = Mine(b)
      /\ \A d \in InFlight \ {c} : call[d].pp # call[c].pp

(* Two keys never lead to one structure, and none leads to freed memory.   *)
NoDanglingEntries ==
  \A k \in Present(optionsMap) : 
    optionsMap[k] \in Blocks =>
      /\ heap[optionsMap[k]] # None
      /\ \A j \in Present(optionsMap) \ {k} : optionsMap[j] # optionsMap[k]

(* What a NewMsgHandle holds in the two properties before MQPUT it still   *)
(* holds afterwards.                                                       *)
NewHandleKept ==
  [][\A c \in Conns : 
       call'[c].op = "put" /\ call[c].op # "put" /\ call'[c].kind = "new" =>
         \A p \in {"parent", "state"} : 
           props[c][AppHandle][p] # None => 
             props'[c][AppHandle][p] = props[c][AppHandle][p]]_vars

(* The exit never deletes its message handles, so it may not go on making  *)
(* them: one serves all the calls of a connection, and the one the map     *)
(* holds exists in the queue manager, also when the hConn value returns.   *)
OneLivingHandle ==
  \A c \in Conns : 
    /\ Cardinality(alive[c]) <= 1
    /\ \A k \in Present(handleMap) : k[1] = c => handleMap[k] \in alive[c]

(* A link that is added to the active span is that of the message which    *)
(* the call returned, never of an earlier message left in the handle.      *)
LinkIsThisMessage ==
  \A c \in Conns :
    call[c].op = "getdone" /\ call[c].link # NoProps =>
      /\ call[c].got \in {"handle", "rfh2"}
      /\ call[c].link = call[c].msg
      /\ call[c].span # None

(* MQDISC forgets everything under its own hConn (but for an empty hConn/  *)
(* entry) and nothing under another's: no later connection with the same   *)
(* hConn value meets old entries.                                          *)
DiscForgets ==
  \A c \in Conns \ connected : 
    \A k \in Keys : k[1] = c => 
      /\ handleMap[k] = None
      /\ optionsMap[k] = None \/ (k[2] = Bare /\ optionsMap[k] = Null)

DiscOnlyOwn ==
  [][\A c \in Conns : 
       call[c].op \in {"discHandles", "discOptions"} /\ call'[c] # call[c] =>
         \A k \in Keys : k[1] # c => 
           handleMap'[k] = handleMap[k] /\ optionsMap'[k] = optionsMap[k]]_vars

(* MQDISC comes to an end.  The code does not keep this promise: the loops *)
(* spin on any key of another hConn, and, when the hook is shown the       *)
(* unusable hConn, on any key at all.                                      *)
DiscCompletes ==
  \A c \in Conns : call[c].op = "discHandles" ~> c \notin connected

InDisc(c) == call[c].op \in {"discHandles", "discOptions"}

(* What is true of it: an MQDISC whose hook is shown the hConn as it was   *)
(* comes to an end unless one of its iterators meets a key of another      *)
(* hConn.  Its own keys, the empty one that the look-up inserts while the  *)
(* loop runs included, are erased one after the other.                     *)
MeetsForeignKey(c) == call[c].at # End /\ call[c].at[1] # c
OwnDiscCompletes ==
  \A c \in Conns : 
    call[c].op = "discHandles" /\ call[c].hc = c 
      ~> c \notin connected \/ (InDisc(c) /\ MeetsForeignKey(c))

-----------------------------------------------------------------------------
(* The inductive invariant, in parts.                                      *)

(* What the tables have for a connection are entries under its own keys.   *)
KeysOf(c) == {k \in Keys : k[1] = c}

(* Structures are found under all keys but the bare ones, which only       *)
(* MQDISC comes to, with a NULL.                                           *)
StructuresInv ==
  /\ NoDanglingEntries
  /\ \A k \in Keys : IF k[2] = Bare THEN optionsMap[k] \in {Null, None}
                      ELSE optionsMap[k] \in Blocks \cup {None}

(* The exit's only handle on a connection is that of the key with "*",     *)
(* until MQDISC has taken it out of the map.                               *)
HandleInv(c) ==
  LET own == handleMap[<<c, Star>>] IN
  /\ \A k \in KeysOf(c) : k[2] # Star => handleMap[k] = None
  /\ own # None => alive[c] = {own}
  /\ own = None => alive[c] = {} \/ (InDisc(c) /\ \E h \in Handles : alive[c] = {h})

(* The structure that a call runs on is the one of its key, and holds the  *)
(* MQPMO that is to be put back by the handle that is to be recognised.    *)
CopyInv(c) ==
  c \in InFlight =>
    LET b == optionsMap[objectKey(c, call[c].ho)] IN
    call[c].pp \in Pmos \cup Gmos \/ (b \in Blocks /\ call[c].pp = Mine(b))

PutInv(c) ==
  call[c].op = "put" =>
    LET b == optionsMap[objectKey(c, call[c].ho)] IN
    \/ call[c].mh = AppHandle /\ call[c].pp = call[c].pmo
    \/ /\ call[c].mh # AppHandle /\ b \in Blocks /\ heap[b].pmo = call[c].pmo
       /\ isValidHandle(call[c].mh) => handleMap[<<c, Star>>] = call[c].mh

(* What the iterators of MQDISC have passed is gone.  A key is passed when *)
(* it is before the iterator, or when that is at the end.                  *)
Passed(c, k) == call[c].at = End \/ Before(k, call[c].at)
Forgotten(k) == optionsMap[k] = None \/ (k[2] = Bare /\ optionsMap[k] = Null)
DiscInv(c) ==
  /\ InDisc(c) => call[c].hc \in {c, MQHC_UNUSABLE_HCONN}
  /\ call[c].op = "discHandles" => 
       \A k \in KeysOf(c) : Passed(c, k) => handleMap[k] = None
  /\ call[c].op = "discOptions" => 
       \A k \in KeysOf(c) : handleMap[k] = None /\ (Passed(c, k) => Forgotten(k))

(* Without a connection there is no call, and nothing left of one.         *)
ConnectedInv(c) ==
  c \notin connected =>
    call[c] = Idle /\ \A k \in KeysOf(c) : handleMap[k] = None /\ Forgotten(k)

ConnInv(c) ==
  HandleInv(c) /\ CopyInv(c) /\ PutInv(c) /\ DiscInv(c) /\ ConnectedInv(c)

IInv == 
  /\ TypeOK /\ StructuresInv /\ PmoRestored /\ LinkIsThisMessage
  /\ \A c \in Conns : ConnInv(c)
=============================================================================
