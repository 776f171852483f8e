----------------------------- MODULE OtelTables -----------------------------
(***************************************************************************)
(* The tables of the OTel exit's loaded library (mqiotel_main.cc): a map   *)
(* from hConn/hObj keys to message handles and a map from the same keys to *)
(* structures on the heap.  Both are shared by all connections of the      *)
(* process and are emptied, connection by connection, at MQDISC.           *)
(*                                                                         *)
(* The queue manager's side that the exit relies on is here too: the       *)
(* message handles it hands out and the properties they hold.              *)
(*                                                                         *)
(* Operators described as "With ..." or as wrong are variations of the one *)
(* they precede, kept to show that the properties notice the mistake.      *)
(***************************************************************************)
EXTENDS Integers, FiniteSets

CONSTANTS
  Conns,       \* hConn values, numbers
  Hobjs,       \* hObj values, numbers
  Blocks,      \* what malloc can return: bounds the structures in existence
  Handles,     \* message handles MQCRTMH can return on a connection, numbers
  AppHandle,   \* the message handle of the application on a connection
  Spans,       \* the OTel spans that can be active, or sent to us
  StateSpans,  \* those of them with a non-empty tracestate
  PmoKinds,    \* the message handles of its MQPUTs: NewMsgHandle ("new"),
               \* OriginalMsgHandle ("original") or "neither"
  Rfh2Kinds,   \* its messages: without an RFH2 ("no"), with one that has no 
               \* OTel properties ("plain"), with the application's ("context")
  Pmos, Gmos,  \* addresses of the application's MQPMO and MQGMO structures
  AppFlags,    \* the property options it uses in its MQGMO
  PropCtls,    \* the PROPCTL attributes of its queues, "none" and "other",
               \* which includes what stands for none found
  UnusableAtDisc, \* can MQDISC's hook, registered as AFTER, be shown an
                  \* hConn that has become unusable already
  App,         \* a property value that the application has set itself
  Null,        \* the null pointer
  None         \* nothing there: no key, no structure, no value

ASSUME TablesAssumption ==
  /\ Conns \subseteq Nat \ {0}
  /\ Hobjs \subseteq Nat \ {0}
  /\ Handles \subseteq Nat \ {0} 
  /\ AppHandle \in Nat \ (Handles \cup {0})
  /\ StateSpans \subseteq Spans
  /\ {None, App} \cap Spans = {}
  /\ PmoKinds \subseteq {"new", "original", "neither"}
  /\ Rfh2Kinds \subseteq {"no", "plain", "context"}
  /\ AppFlags \subseteq 
       {"FORCE_MQRFH2", "IN_HANDLE", "NO_PROPERTIES", "COMPATIBILITY"}
  /\ "other" \in PropCtls /\ PropCtls \subseteq {"none", "other"}
  /\ UnusableAtDisc \in BOOLEAN
  /\ None \notin Blocks \cup Handles
  /\ Null \notin Blocks \cup {None}

VARIABLES
  handleMap,   \* objectHandleMap
  optionsMap,  \* objectOptionsMap
  heap,        \* the hobjOptions structures
  connected,   \* the hConns in use
  opened,      \* the hObjs in use, per connection
  consumers,   \* the callbacks registered with MQCB, per connection
  alive,       \* the exit's message handles in existence, per connection
  props,       \* the properties in each message handle, per connection
  call         \* what the application's thread is doing, per connection

vars == <<handleMap, optionsMap, heap, 
          connected, opened, consumers, alive, props, call>>

tables == <<handleMap, optionsMap, heap>>
qmgr   == <<connected, opened, consumers, alive, props>>

-----------------------------------------------------------------------------
(* Keys are the pairs hConn/hObj, hConn/"*" and hConn/"", in map order.    *)

MQHC_UNUSABLE_HCONN == -1
MQHO_UNUSABLE_HOBJ == -1
MQHM_UNUSABLE_HMSG == -1
MQHM_NONE          == 0
NullHobj           == -2

Bare == -1
Star == 0
Keys == Conns \X (Hobjs \cup {Star, Bare})

objectKey(hc, ho) ==
  IF ho \in {NullHobj, MQHO_UNUSABLE_HOBJ} THEN <<hc, Star>> ELSE <<hc, ho>>

Before(j, k) == j[1] < k[1] \/ (j[1] = k[1] /\ j[2] < k[2])

(* A map is a function with None at the keys it does not have.             *)
Present(map) == {k \in Keys : map[k] # None}
Count(map, k) == k \in Present(map)

(* The smallest of a set of keys, or End: begin() and ++ of the iterators. *)
End == <<0, 0>>
First(keys) == 
  IF keys = {} THEN End ELSE CHOOSE k \in keys : \A j \in keys \ {k} : Before(k, j)
Following(keys, k) == First({j \in keys : Before(k, j)})

isValidHandle(mh) == mh \notin {MQHM_NONE, MQHM_UNUSABLE_HMSG}

-----------------------------------------------------------------------------
(* hobjOptions structures.  malloc leaves what was in the memory: propCtl  *)
(* may look like any value, the pointers are garbage until they are set.   *)

Garbage == <<"garbage">>
Struct == [propCtl : PropCtls, pmo : Pmos \cup {Garbage}, gmo : Gmos \cup {Garbage}]

ASSUME StructAssumption == None \notin Struct

FreeBlocks == {b \in Blocks : heap[b] = None}

(* With the field set only in a new structure.                             *)
SaveOnce(k, f, p) ==
  \/ Count(optionsMap, k) /\ UNCHANGED <<heap, optionsMap>>
  \/ /\ ~Count(optionsMap, k)
     /\ \E b \in FreeBlocks, junk \in PropCtls : 
          /\ heap' = [heap EXCEPT ![b] = 
                        [[propCtl |-> junk, pmo |-> Garbage, gmo |-> Garbage]
                           EXCEPT ![f] = p]]
          /\ optionsMap' = [optionsMap EXCEPT ![k] = b]

(* savePmo and saveGmo: the structure of a key, made if there is none, has *)
(* its pointer field f set to p.                                           *)
Save(k, f, p) ==
  IF Count(optionsMap, k)
  THEN /\ heap' = [heap EXCEPT ![optionsMap[k]][f] = p]
       /\ UNCHANGED optionsMap
  ELSE \E b \in FreeBlocks, junk \in PropCtls : 
         /\ heap' = [heap EXCEPT ![b] = 
                       [[propCtl |-> junk, pmo |-> Garbage, gmo |-> Garbage]
                          EXCEPT ![f] = p]]
         /\ optionsMap' = [optionsMap EXCEPT ![k] = b]

(* The address of myPmo or myGmo in the structure of a block.              *)
Mine(b) == <<"my", b>>

-----------------------------------------------------------------------------
(* Message handles.                                                        *)

NoProps == [parent |-> None, state |-> None]
Values == Spans \cup {None, App}

(* MQCRTMH: a new handle without properties, or a failure.                 *)
CrtMh(c) == 
  {h \in Handles \ alive[c] : \A g \in Handles \ alive[c] : h <= g} 
    \cup {MQHM_UNUSABLE_HMSG}

(* getMsgHandle: the handle of the key, made if there is none.  What it    *)
(* returns is one of GotHandle, and StoreHandle is what it leaves behind.  *)
GotHandle(c, ho) ==
  IF Count(handleMap, objectKey(c, ho)) THEN {handleMap[objectKey(c, ho)]} 
                                        ELSE CrtMh(c)

(* With the map forgotten, and with a failure stored.                      *)
StoreNothing(c, ho, mh) ==
  /\ UNCHANGED handleMap
  /\ alive' = [alive EXCEPT ![c] = @ \cup ({mh} \cap Handles)]

StoreUnchecked(c, ho, mh) ==
  /\ handleMap' = [handleMap EXCEPT ![objectKey(c, ho)] = mh]
  /\ alive' = [alive EXCEPT ![c] = @ \cup ({mh} \cap Handles)]

StoreHandle(c, ho, mh) ==
  IF Count(handleMap, objectKey(c, ho)) \/ ~isValidHandle(mh)
  THEN UNCHANGED <<handleMap, alive>>
  ELSE /\ handleMap' = [handleMap EXCEPT ![objectKey(c, ho)] = mh]
       /\ alive' = [alive EXCEPT ![c] = @ \cup {mh}]

(* compareMsgHandle: is mh the handle that the exit has for this key?      *)
compareMsgHandle(c, ho, mh) ==
  Count(handleMap, objectKey(c, ho)) /\ handleMap[objectKey(c, ho)] = mh

(* propsContain.                                                           *)
propsContain(c, mh, p) == props[c][mh][p] # None

-----------------------------------------------------------------------------
(* Calls.  A connection runs one MQI call at a time; what a call came back *)
(* with can be seen until the application goes on.                         *)

Idle == [op |-> "idle"]
Ready(c) == c \in connected /\ call[c] = Idle

Init ==
  /\ handleMap = [k \in Keys |-> None]
  /\ optionsMap = [k \in Keys |-> None]
  /\ heap = [b \in Blocks |-> None]
  /\ connected = {}
  /\ opened = [c \in Conns |-> {}]
  /\ consumers = [c \in Conns |-> [o \in Hobjs |-> None]]
  /\ alive = [c \in Conns |-> {}]
  /\ props = [c \in Conns |-> [h \in Handles \cup {AppHandle} |-> NoProps]]
  /\ call = [c \in Conns |-> Idle]

Connect(c) ==
  /\ c \notin connected
  /\ call[c] = Idle
  /\ connected' = connected \cup {c}
  /\ UNCHANGED <<tables, opened, consumers, alive, props, call>>

GoOn(c) ==
  /\ call[c].op \in {"putdone", "getdone"}
  /\ call' = [call EXCEPT ![c] = Idle]
  /\ UNCHANGED <<tables, qmgr>>

(* The application fills its own message handle: a new one, or the one it  *)
(* had, with whatever it wants in the two properties.                      *)
AppSetsProperties(c) ==
  /\ Ready(c)
  /\ PmoKinds \cap {"new", "original"} # {}
  /\ \E p \in [parent : {None, App}, state : {None, App}] :
       props' = [props EXCEPT ![c][AppHandle] = p]
  /\ UNCHANGED <<tables, connected, opened, consumers, alive, call>>

-----------------------------------------------------------------------------
(* MQDISC: mqotDiscBefore, one iteration of its loops at a time, for the   *)
(* hConn the hook is shown.  The iterators advance only by erasing: on a   *)
(* key of another hConn the loop spins, here a state in which the thread   *)
(* of c has no step.  (When that other connection then erases the key, the *)
(* iterator dangles: the thread has no defined step any more and has none  *)
(* here.)                                                                  *)

(* startswith(): is k a key of the hConn that c's hook is shown?  And two  *)
(* ways to get that wrong: any key, keys of real objects.                  *)
AnyKey(c, k) == c \in Conns /\ k \in Keys
ObjectKeyOnly(c, k) == k[1] = call[c].hc /\ k[2] \in Hobjs
OwnKey(c, k) == k[1] = call[c].hc

(* With the first loop missing.                                            *)
DiscSkipsHandles(c) ==
  /\ Ready(c)
  /\ call' = [call EXCEPT ![c] = 
       [op |-> "discOptions", hc |-> c, at |-> First(Present(optionsMap))]]
  /\ UNCHANGED <<tables, qmgr>>

Disc(c) ==
  /\ Ready(c)
  /\ \E hc \in {c} \cup (IF UnusableAtDisc THEN {MQHC_UNUSABLE_HCONN} ELSE {}) :
       call' = [call EXCEPT ![c] = 
         [op |-> "discHandles", hc |-> hc, at |-> First(Present(handleMap))]]
  /\ UNCHANGED <<tables, qmgr>>

DiscHandles(c) ==
  /\ call[c].op = "discHandles"
  /\ LET k == call[c].at IN
     \/ /\ k \in Present(handleMap)
        /\ OwnKey(c, k)
        /\ handleMap' = [handleMap EXCEPT ![k] = None]
        /\ call' = [call EXCEPT ![c].at = Following(Present(handleMap), k)]
     \/ /\ k = End
        /\ call' = [call EXCEPT ![c].op = "discOptions", 
                                ![c].at = First(Present(optionsMap))]
        /\ UNCHANGED handleMap
  /\ UNCHANGED <<optionsMap, heap, qmgr>>

(* The structure looked up, and freed, is that of the key hConn/"": the    *)
(* look-up puts a NULL there when the map has no such key.                 *)
DiscOptions(c) ==
  /\ call[c].op = "discOptions"
  /\ LET k == call[c].at 
         prefix == <<call[c].hc, Bare>>
         o == IF Count(optionsMap, prefix) THEN optionsMap[prefix] ELSE Null
     IN
     \/ /\ k \in Present(optionsMap)
        /\ OwnKey(c, k)
        /\ heap' = IF o \in Blocks THEN [heap EXCEPT ![o] = None] ELSE heap
        /\ optionsMap' = [optionsMap EXCEPT ![prefix] = o, ![k] = None]
        /\ call' = [call EXCEPT ![c].at = Following(Present(optionsMap), k)]
        /\ UNCHANGED qmgr
     \/ /\ k = End
        /\ call' = [call EXCEPT ![c] = Idle]
        /\ connected' = connected \ {c}
        /\ opened' = [opened EXCEPT ![c] = {}]
        /\ consumers' = [consumers EXCEPT ![c] = [o2 \in Hobjs |-> None]]
        /\ alive' = [alive EXCEPT ![c] = {}]
        /\ props' = [props EXCEPT ![c] = [h \in DOMAIN @ |-> NoProps]]
        /\ UNCHANGED <<optionsMap, heap>>
  /\ UNCHANGED handleMap
=============================================================================
