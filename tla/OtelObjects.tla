----------------------------- MODULE OtelObjects -----------------------------
(***************************************************************************)
(* MQOPEN and MQCLOSE as the OTel exit sees them (mqiotel_open.cc): the    *)
(* AFTER hooks keep the queue's PROPCTL with the object handle.            *)
(***************************************************************************)
EXTENDS OtelTables

(* mqotOpenAfter for an object opened with the handle value ho; input is   *)
(* TRUE for a queue opened to get messages, and propCtl is what the        *)
(* inquiry brought.  A structure the key had before is not freed.          *)
mqotOpenAfter(c, ho, input, propCtl) ==
  LET key == objectKey(c, ho) IN
  IF input
  THEN \E b \in FreeBlocks :
         /\ heap' = [heap EXCEPT ![b] = 
                       [propCtl |-> propCtl, pmo |-> Garbage, gmo |-> Garbage]]
         /\ optionsMap' = [optionsMap EXCEPT ![key] = b]
  ELSE UNCHANGED <<heap, optionsMap>>

(* The application's MQOPEN, which may fail and then leaves an unusable    *)
(* handle; the hook does not look at the completion code, and can learn    *)
(* PROPCTL all the same, by opening the queue itself for inquiry.          *)
Open(c) ==
  /\ Ready(c)
  /\ \E input \in BOOLEAN, propCtl \in PropCtls :
       \/ \E ho \in Hobjs \ opened[c] :
            /\ opened' = [opened EXCEPT ![c] = @ \cup {ho}]
            /\ mqotOpenAfter(c, ho, input, propCtl)
       \/ /\ UNCHANGED opened
          /\ mqotOpenAfter(c, MQHO_UNUSABLE_HOBJ, input, propCtl)
  /\ UNCHANGED <<handleMap, connected, consumers, alive, props, call>>

(* With the entry left in the map.                                         *)
CloseKeepsEntry(c, ho) ==
  LET o == optionsMap[objectKey(c, ho)] IN
  /\ heap' = IF o \in Blocks THEN [heap EXCEPT ![o] = None] ELSE heap
  /\ UNCHANGED optionsMap

(* mqotCloseAfter: free and forget the structure of the key.               *)
mqotCloseAfter(c, ho) ==
  LET key == objectKey(c, ho) IN
  IF Count(optionsMap, key)
  THEN /\ heap' = IF optionsMap[key] \in Blocks 
                  THEN [heap EXCEPT ![optionsMap[key]] = None] ELSE heap
       /\ optionsMap' = [optionsMap EXCEPT ![key] = None]
  ELSE UNCHANGED <<heap, optionsMap>>

(* The application's MQCLOSE.  A successful one makes the application's    *)
(* handle unusable; whether the hook is shown the handle before or after   *)
(* that is the queue manager's affair, and both are allowed here.  A       *)
(* failed one shows the handle and leaves the object open.                 *)
Close(c) ==
  /\ Ready(c)
  /\ \E ho \in opened[c] :
       \/ \E shown \in {ho, MQHO_UNUSABLE_HOBJ} :
            /\ opened' = [opened EXCEPT ![c] = @ \ {ho}]
            /\ consumers' = [consumers EXCEPT ![c][ho] = None]
            /\ mqotCloseAfter(c, shown)
       \/ /\ UNCHANGED <<opened, consumers>>
          /\ mqotCloseAfter(c, ho)
  /\ UNCHANGED <<handleMap, connected, alive, props, call>>
=============================================================================
