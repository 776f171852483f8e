--------------------------- MODULE OtelExitProofs ---------------------------
(***************************************************************************)
(* Proofs about the loaded OTel exit, for any numbers of connections,      *)
(* objects, structures, handles, spans and options.                        *)
(***************************************************************************)
EXTENDS OtelExit, NumberLemmas, FiniteSetTheorems

-----------------------------------------------------------------------------
(* The order of the keys, and the iterators over it.                       *)

LEMMA KeyFacts ==
  /\ \A k \in Keys : /\ k = <<k[1], k[2]>> /\ k[1] \in Conns /\ k[2] \in Hobjs \cup {Star, Bare}
                     /\ k[1] \in Nat /\ k[1] # 0 /\ k[2] \in Int /\ k[2] + 1 \in Nat
  /\ End \notin Keys
  <1>1. ASSUME NEW k \in Keys
        PROVE  /\ k = <<k[1], k[2]>> /\ k[1] \in Conns /\ k[2] \in Hobjs \cup {Star, Bare}
               /\ k[1] \in Nat /\ k[1] # 0 /\ k[2] \in Int /\ k[2] + 1 \in Nat
    <2>1. PICK c \in Conns, o \in Hobjs \cup {Star, Bare} : k = <<c, o>>
      BY <1>1 DEF Keys
    <2>2. c \in Nat /\ c # 0 /\ o \in Int /\ o + 1 \in Nat
      BY <2>1, TablesAssumption DEF Star, Bare
    <2>3. QED BY <2>1, <2>2
  <1>2. End \notin Keys
    BY <1>1 DEF End
  <1>3. QED BY <1>1, <1>2

LEMMA OrderFacts ==
  /\ \A j, k \in Keys : j = k \/ Before(j, k) \/ Before(k, j)
  /\ \A j, k \in Keys : ~(Before(j, k) /\ Before(k, j))
  /\ \A k \in Keys : ~Before(k, k)
  /\ \A i, j, k \in Keys : Before(i, j) /\ Before(j, k) => Before(i, k)
  BY KeyFacts DEF Before

(* begin(): the smallest of some keys, or the end.                         *)
LEMMA FirstIsSmallest ==
  ASSUME NEW S \in SUBSET Keys
  PROVE  /\ S = {} => First(S) = End
         /\ S # {} => First(S) \in S /\ \A j \in S \ {First(S)} : Before(First(S), j)
  <1>1. CASE S = {}
    BY <1>1 DEF First
  <1>2. CASE S # {}
    <2> DEFINE Cs == {k[1] : k \in S}
    <2>1. Cs \in SUBSET Nat /\ Cs # {}
      BY <1>2, KeyFacts
    <2>2. PICK c \in Cs : \A d \in Cs : c <= d
      BY <2>1, SmallestNumber
    <2> DEFINE Of == {k \in S : k[1] = c}
               Os == {k[2] + 1 : k \in Of}
    <2>3. Os \in SUBSET Nat /\ Os # {}
      BY <2>2, KeyFacts
    <2>4. PICK o \in Os : \A p \in Os : o <= p
      BY <2>3, SmallestNumber
    <2>5. PICK k \in Of : o = k[2] + 1
      OBVIOUS
    <2>6. \A j \in S \ {k} : Before(k, j)
      <3> SUFFICES ASSUME NEW j \in S, j # k PROVE Before(k, j)
        OBVIOUS
      <3>1. c <= j[1] /\ c = k[1] /\ c \in Nat /\ j[1] \in Nat
        BY <2>1, <2>2
      <3>2. CASE j[1] = c
        <4>1. j[2] + 1 \in Os /\ k[2] + 1 <= j[2] + 1
          BY <2>4, <2>5, <3>2
        <4>2. j[2] # k[2]
          BY <3>1, <3>2, KeyFacts
        <4>3. QED BY <3>1, <3>2, <4>1, <4>2, KeyFacts DEF Before
      <3>3. CASE j[1] # c
        BY <3>1, <3>3 DEF Before
      <3>4. QED BY <3>2, <3>3
    <2>7. \E i \in S : \A j \in S \ {i} : Before(i, j)
      BY <2>6
    <2>8. QED BY <1>2, <2>7 DEF First
  <1>3. QED BY <1>1, <1>2

(* What an iterator has passed, at the beginning and after one step, is    *)
(* nothing, and what it had passed before with the key it stood at.        *)
LEMMA FirstPasses ==
  ASSUME NEW S \in SUBSET Keys
  PROVE  /\ First(S) \in S \cup {End}
         /\ \A j \in S : First(S) # End /\ ~Before(j, First(S))
  <1>1. CASE S = {}
    BY <1>1, FirstIsSmallest
  <1>2. CASE S # {}
    <2>1. First(S) \in S /\ First(S) # End
      BY <1>2, FirstIsSmallest, KeyFacts
    <2>2. ASSUME NEW j \in S PROVE ~Before(j, First(S))
      BY <1>2, <2>1, FirstIsSmallest, OrderFacts
    <2>3. QED BY <2>1, <2>2
  <1>3. QED BY <1>1, <1>2

LEMMA FollowingPasses ==
  ASSUME NEW S \in SUBSET Keys, NEW k \in S
  PROVE  /\ Following(S, k) \in S \cup {End}
         /\ \A j \in S : Following(S, k) = End \/ Before(j, Following(S, k)) 
                         => j = k \/ Before(j, k)
  <1> DEFINE After == {j \in S : Before(k, j)}
  <1>1. Following(S, k) = First(After) /\ After \in SUBSET Keys
    BY DEF Following
  <1>2. \A j \in S : j = k \/ Before(j, k) \/ j \in After
    BY OrderFacts
  <1> HIDE DEF After
  <1>3. QED BY <1>1, <1>2, FirstPasses DEF After

LEMMA PresentFacts ==
  ASSUME NEW map
  PROVE  Present(map) \in SUBSET Keys /\ \A k \in Keys : k \in Present(map) <=> map[k] # None
  BY DEF Present

-----------------------------------------------------------------------------
(* The keys of a connection.                                               *)

LEMMA KeysOfFacts ==
  ASSUME NEW c \in Conns
  PROVE  /\ KeysOf(c) \in SUBSET Keys
         /\ \A k \in Keys : k \in KeysOf(c) <=> k[1] = c
         /\ <<c, Star>> \in KeysOf(c)
         /\ \A ho \in Hobjs \cup {MQHO_UNUSABLE_HOBJ, NullHobj} : 
              objectKey(c, ho) \in KeysOf(c) /\ objectKey(c, ho)[2] # Bare
         /\ \A ho \in {MQHO_UNUSABLE_HOBJ, NullHobj} : objectKey(c, ho) = <<c, Star>>
         /\ <<c, Star>>[2] # Bare
  <1>1. /\ KeysOf(c) \in SUBSET Keys
        /\ \A k \in Keys : k \in KeysOf(c) <=> k[1] = c
    BY DEF KeysOf
  <1>2. <<c, Star>> \in KeysOf(c)
    BY DEF KeysOf, Keys
  <1>3. ASSUME NEW ho \in {MQHO_UNUSABLE_HOBJ, NullHobj} PROVE objectKey(c, ho) = <<c, Star>>
    BY DEF objectKey
  <1>4. <<c, Star>>[2] # Bare
    BY DEF Star, Bare
  <1>5. ASSUME NEW ho \in Hobjs, ho \notin {MQHO_UNUSABLE_HOBJ, NullHobj} 
        PROVE objectKey(c, ho) \in KeysOf(c) /\ objectKey(c, ho)[2] # Bare
    <2>1. objectKey(c, ho) = <<c, ho>> /\ ho \in Nat
      BY <1>5, TablesAssumption DEF objectKey
    <2>2. QED BY <2>1 DEF KeysOf, Keys, Bare
  <1>6. QED BY <1>1, <1>2, <1>3, <1>4, <1>5

-----------------------------------------------------------------------------
(* Structures.                                                             *)

(* The table of structures and the heap are well-formed.                   *)
TablesOK ==
  /\ optionsMap \in [Keys -> Blocks \cup {Null, None}]
  /\ heap \in [Blocks -> Struct \cup {None}]
  /\ StructuresInv

(* What leaves the entries of all keys but k, and their structures, alone. *)
OnlyEntry(k) ==
  \A j \in Keys \ {k} : 
    /\ optionsMap'[j] = optionsMap[j]
    /\ optionsMap[j] \in Blocks => heap'[optionsMap[j]] = heap[optionsMap[j]]

(* A structure in a free block becomes that of a key.                      *)
LEMMA NewStructure ==
  ASSUME TablesOK, NEW k \in Keys, k[2] # Bare, NEW b \in FreeBlocks, NEW s \in Struct,
         heap' = [heap EXCEPT ![b] = s],
         optionsMap' = [optionsMap EXCEPT ![k] = b]
  PROVE  TablesOK' /\ OnlyEntry(k) /\ optionsMap'[k] = b /\ b \in Blocks /\ heap'[b] = s
  <1>1. b \in Blocks /\ heap[b] = None /\ b # Null /\ b # None /\ s # None
    BY TablesAssumption, StructAssumption DEF FreeBlocks
  <1>2. /\ optionsMap' \in [Keys -> Blocks \cup {Null, None}] /\ optionsMap'[k] = b
        /\ \A j \in Keys \ {k} : optionsMap'[j] = optionsMap[j]
    BY <1>1 DEF TablesOK
  <1>3. /\ heap' \in [Blocks -> Struct \cup {None}] /\ heap'[b] = s
        /\ \A a \in Blocks \ {b} : heap'[a] = heap[a]
    BY <1>1 DEF TablesOK
  <1>4. \A j \in Keys : optionsMap[j] # b
    BY <1>1, PresentFacts DEF TablesOK, StructuresInv, NoDanglingEntries
  <1>5. NoDanglingEntries'
    <2> SUFFICES ASSUME NEW j \in Keys, optionsMap'[j] # None, optionsMap'[j] \in Blocks
                 PROVE  /\ heap'[optionsMap'[j]] # None 
                        /\ \A i \in Keys \ {j} : 
                             optionsMap'[i] # None => optionsMap'[i] # optionsMap'[j]
      BY DEF NoDanglingEntries, Present
    <2>1. CASE j = k
      BY <1>1, <1>2, <1>3, <1>4, <2>1
    <2>2. CASE j # k
      BY <1>1, <1>2, <1>3, <1>4, <2>2, PresentFacts 
      DEF TablesOK, StructuresInv, NoDanglingEntries
    <2>3. QED BY <2>1, <2>2
  <1>6. \A j \in Keys : IF j[2] = Bare THEN optionsMap'[j] \in {Null, None}
                        ELSE optionsMap'[j] \in Blocks \cup {None}
    BY <1>1, <1>2 DEF TablesOK, StructuresInv
  <1>7. TablesOK'
    BY <1>2, <1>3, <1>5, <1>6 DEF TablesOK, StructuresInv
  <1>8. OnlyEntry(k)
    BY <1>2, <1>3, <1>4 DEF OnlyEntry
  <1>9. QED BY <1>1, <1>2, <1>3, <1>7, <1>8

(* The structure of a key is filled again.                                 *)
LEMMA SameStructure ==
  ASSUME TablesOK, NEW k \in Keys, NEW b \in Blocks, b = optionsMap[k], NEW s \in Struct,
         heap' = [heap EXCEPT ![b] = s], 
         UNCHANGED optionsMap
  PROVE  TablesOK' /\ OnlyEntry(k) /\ heap'[b] = s
  <1>1. b # None /\ s # None /\ k \in Present(optionsMap)
    BY TablesAssumption, StructAssumption, PresentFacts
  <1>2. \A j \in Keys \ {k} : optionsMap[j] # b
    BY <1>1, PresentFacts DEF TablesOK, StructuresInv, NoDanglingEntries
  <1>3. /\ heap' \in [Blocks -> Struct \cup {None}] /\ heap'[b] = s
        /\ \A a \in Blocks \ {b} : heap'[a] = heap[a]
    BY DEF TablesOK
  <1>4. NoDanglingEntries'
    BY <1>1, <1>2, <1>3 DEF TablesOK, StructuresInv, NoDanglingEntries, Present
  <1>5. QED BY <1>2, <1>3, <1>4 DEF TablesOK, StructuresInv, OnlyEntry

(* The entry of a key goes, with the structure it leads to.                *)
LEMMA GoneStructure ==
  ASSUME TablesOK, NEW k \in Keys, 
         heap' = IF optionsMap[k] \in Blocks THEN [heap EXCEPT ![optionsMap[k]] = None] ELSE heap,
         optionsMap' = [optionsMap EXCEPT ![k] = None]
  PROVE  TablesOK' /\ OnlyEntry(k) /\ optionsMap'[k] = None
  <1>1. /\ optionsMap' \in [Keys -> Blocks \cup {Null, None}] /\ optionsMap'[k] = None
        /\ \A j \in Keys \ {k} : optionsMap'[j] = optionsMap[j]
    BY DEF TablesOK
  <1>2. /\ heap' \in [Blocks -> Struct \cup {None}]
        /\ \A a \in Blocks : a # optionsMap[k] => heap'[a] = heap[a]
    BY DEF TablesOK
  <1>3. \A j \in Keys \ {k} : optionsMap[j] \in Blocks => optionsMap[j] # optionsMap[k]
    BY TablesAssumption, PresentFacts DEF TablesOK, StructuresInv, NoDanglingEntries
  <1>4. NoDanglingEntries'
    <2> SUFFICES ASSUME NEW j \in Keys, optionsMap'[j] # None, optionsMap'[j] \in Blocks
                 PROVE  /\ heap'[optionsMap'[j]] # None 
                        /\ \A i \in Keys \ {j} : 
                             optionsMap'[i] # None => optionsMap'[i] # optionsMap'[j]
      BY DEF NoDanglingEntries, Present
    <2>1. j # k /\ optionsMap'[j] = optionsMap[j] /\ j \in Present(optionsMap)
      BY <1>1, PresentFacts
    <2>2. QED BY <1>1, <1>2, <1>3, <2>1, PresentFacts
              DEF TablesOK, StructuresInv, NoDanglingEntries
  <1>5. \A j \in Keys : IF j[2] = Bare THEN optionsMap'[j] \in {Null, None}
                        ELSE optionsMap'[j] \in Blocks \cup {None}
    BY <1>1 DEF TablesOK, StructuresInv
  <1>6. QED BY <1>1, <1>2, <1>3, <1>4, <1>5 DEF TablesOK, StructuresInv, OnlyEntry

(* Pointers of the application that a structure can keep.                  *)
Field(f, p) == (f = "pmo" /\ p \in Pmos) \/ (f = "gmo" /\ p \in Gmos)

LEMMA StructFields ==
  ASSUME NEW f, NEW p, Field(f, p), NEW s \in Struct
  PROVE  /\ [s EXCEPT ![f] = p] \in Struct /\ [s EXCEPT ![f] = p][f] = p
         /\ f = "gmo" => [s EXCEPT ![f] = p].pmo = s.pmo
         /\ f = "pmo" => [s EXCEPT ![f] = p].gmo = s.gmo
  <1>1. CASE f = "pmo" /\ p \in Pmos
    BY <1>1 DEF Struct
  <1>2. CASE f = "gmo" /\ p \in Gmos
    BY <1>2 DEF Struct
  <1>3. QED BY <1>1, <1>2 DEF Field

LEMMA Saved ==
  ASSUME TablesOK, NEW k \in Keys, k[2] # Bare, NEW f, NEW p, Field(f, p),
         Save(k, f, p)
  PROVE  /\ TablesOK' /\ OnlyEntry(k) 
         /\ optionsMap'[k] \in Blocks /\ heap'[optionsMap'[k]] \in Struct
         /\ heap'[optionsMap'[k]][f] = p
         /\ optionsMap[k] \in Blocks =>
              /\ optionsMap'[k] = optionsMap[k]
              /\ f = "gmo" => heap'[optionsMap'[k]].pmo = heap[optionsMap[k]].pmo
  <1>1. CASE Count(optionsMap, k)
    <2> DEFINE b == optionsMap[k]
               s == [heap[b] EXCEPT ![f] = p]
    <2>1. b \in Blocks /\ heap[b] \in Struct
      BY <1>1 DEF Count, Present, TablesOK, StructuresInv, NoDanglingEntries
    <2>2. s \in Struct /\ s[f] = p /\ (f = "gmo" => s.pmo = heap[b].pmo)
      BY <2>1, StructFields
    <2>3. heap' = [heap EXCEPT ![b] = s] /\ UNCHANGED optionsMap
      BY <1>1 DEF Save
    <2> HIDE DEF s
    <2>4. TablesOK' /\ OnlyEntry(k) /\ heap'[b] = s
      BY <2>1, <2>2, <2>3, SameStructure
    <2>5. QED BY <2>1, <2>2, <2>3, <2>4
  <1>2. CASE ~Count(optionsMap, k)
    <2> DEFINE s(junk) == [[propCtl |-> junk, pmo |-> Garbage, gmo |-> Garbage] EXCEPT ![f] = p]
    <2>1. PICK b \in FreeBlocks, junk \in PropCtls : 
            heap' = [heap EXCEPT ![b] = s(junk)] /\ optionsMap' = [optionsMap EXCEPT ![k] = b]
      BY <1>2 DEF Save
    <2>2. [propCtl |-> junk, pmo |-> Garbage, gmo |-> Garbage] \in Struct
      BY DEF Struct
    <2>3. s(junk) \in Struct /\ s(junk)[f] = p
      BY <2>2, StructFields
    <2> HIDE DEF s
    <2>4. TablesOK' /\ OnlyEntry(k) /\ optionsMap'[k] = b /\ b \in Blocks /\ heap'[b] = s(junk)
      BY <2>1, <2>3, NewStructure
    <2>5. optionsMap[k] \notin Blocks
      BY <1>2, TablesAssumption, PresentFacts DEF Count
    <2>6. QED BY <2>3, <2>4, <2>5
  <1>3. QED BY <1>1, <1>2

LEMMA Opened ==
  ASSUME TablesOK, NEW c \in Conns, NEW ho \in Shown, NEW input \in BOOLEAN, 
         NEW propCtl \in PropCtls, mqotOpenAfter(c, ho, input, propCtl)
  PROVE  TablesOK' /\ OnlyEntry(objectKey(c, ho))
  <1> DEFINE k == objectKey(c, ho)
             s == [propCtl |-> propCtl, pmo |-> Garbage, gmo |-> Garbage]
  <1>1. k \in Keys /\ k[2] # Bare
    BY KeysOfFacts DEF Shown
  <1>2. CASE input
    <2>1. PICK b \in FreeBlocks : 
            heap' = [heap EXCEPT ![b] = s] /\ optionsMap' = [optionsMap EXCEPT ![k] = b]
      BY <1>2 DEF mqotOpenAfter
    <2>2. s \in Struct
      BY DEF Struct
    <2> HIDE DEF k, s
    <2>3. QED BY <1>1, <2>1, <2>2, NewStructure DEF k
  <1>3. CASE ~input
    BY <1>3 DEF mqotOpenAfter, TablesOK, StructuresInv, NoDanglingEntries, Present, OnlyEntry
  <1>4. QED BY <1>2, <1>3

LEMMA Closed ==
  ASSUME TablesOK, NEW c \in Conns, NEW ho \in Shown, mqotCloseAfter(c, ho)
  PROVE  TablesOK' /\ OnlyEntry(objectKey(c, ho))
  <1> DEFINE k == objectKey(c, ho)
  <1>1. k \in Keys
    BY KeysOfFacts DEF Shown
  <1>2. CASE Count(optionsMap, k)
    <2>1. /\ heap' = IF optionsMap[k] \in Blocks THEN [heap EXCEPT ![optionsMap[k]] = None] 
                                                 ELSE heap
          /\ optionsMap' = [optionsMap EXCEPT ![k] = None]
      BY <1>2 DEF mqotCloseAfter
    <2> HIDE DEF k
    <2>2. QED BY <1>1, <2>1, GoneStructure DEF k
  <1>3. CASE ~Count(optionsMap, k)
    BY <1>3 DEF mqotCloseAfter, TablesOK, StructuresInv, NoDanglingEntries, Present, OnlyEntry
  <1>4. QED BY <1>2, <1>3

-----------------------------------------------------------------------------
(* Calls.                                                                  *)

LEMMA CallTypes ==
  ASSUME TypeOK, NEW c \in Conns
  PROVE  /\ call[c] \in Calls
         /\ call[c].op \in {"put", "putdone"} => call[c] \in PutCalls
         /\ call[c].op \in {"get", "getdone"} => call[c] \in GetCalls
         /\ InDisc(c) => call[c] \in DiscCalls
         /\ call[c] = Idle <=> call[c].op = "idle"
  <1>1. call[c] \in Calls
    BY DEF TypeOK
  <1>2. /\ \A r \in PutCalls : r.op \in {"put", "putdone"}
        /\ \A r \in GetCalls : r.op \in {"get", "getdone"}
        /\ \A r \in DiscCalls : r.op \in {"discHandles", "discOptions"}
        /\ Idle.op = "idle"
    BY DEF PutCalls, GetCalls, DiscCalls, Idle
  <1>3. call[c] = Idle \/ call[c] \in PutCalls \/ call[c] \in GetCalls \/ call[c] \in DiscCalls
    BY <1>1 DEF Calls
  <1>4. QED BY <1>1, <1>2, <1>3 DEF InDisc

(* What the invariants about the calls say of one of them.                 *)
CallInv(c) ==
  /\ call[c].op = "putdone" /\ isValidHandle(call[c].mh) => call[c].pp = call[c].pmo
  /\ call[c].op = "getdone" /\ call[c].link # NoProps =>
       /\ call[c].got \in {"handle", "rfh2"}
       /\ call[c].link = call[c].msg
       /\ call[c].span # None

(* A step of c leaves the other connections alone.                         *)
OthersKept(c) ==
  \A d \in Conns \ {c} :
    /\ \A k \in KeysOf(d) : 
         /\ handleMap'[k] = handleMap[k] /\ optionsMap'[k] = optionsMap[k]
         /\ optionsMap[k] \in Blocks => heap'[optionsMap[k]] = heap[optionsMap[k]]
    /\ alive'[d] = alive[d] /\ call'[d] = call[d]
    /\ d \in connected' <=> d \in connected

LEMMA OneEntryOfOne ==
  ASSUME NEW c \in Conns, NEW k \in KeysOf(c), OnlyEntry(k)
  PROVE  \A d \in Conns \ {c} : \A j \in KeysOf(d) : 
           /\ optionsMap'[j] = optionsMap[j]
           /\ optionsMap[j] \in Blocks => heap'[optionsMap[j]] = heap[optionsMap[j]]
  BY DEF OnlyEntry, KeysOf

LEMMA KeptInv ==
  ASSUME TypeOK, NEW c \in Conns, NEW d \in Conns \ {c}, OthersKept(c), ConnInv(d), CallInv(d)
  PROVE  ConnInv(d)' /\ CallInv(d)'
  <1>1. /\ \A k \in KeysOf(d) : 
             /\ handleMap'[k] = handleMap[k] /\ optionsMap'[k] = optionsMap[k]
             /\ optionsMap[k] \in Blocks => heap'[optionsMap[k]] = heap[optionsMap[k]]
        /\ alive'[d] = alive[d] /\ call'[d] = call[d]
        /\ d \in connected' <=> d \in connected
    BY DEF OthersKept
  <1>2. <<d, Star>> \in KeysOf(d)
    BY KeysOfFacts
  <1>3. /\ call[d].op \in {"put", "get"} => objectKey(d, call[d].ho) \in KeysOf(d)
        /\ d \in InFlight <=> call[d].op \in {"put", "get"}
        /\ d \in InFlight' <=> call[d].op \in {"put", "get"}
    <2>1. \A r \in PutCalls \cup GetCalls : r.ho \in Hobjs \cup {MQHO_UNUSABLE_HOBJ}
      BY DEF PutCalls, GetCalls, Shown
    <2>2. QED BY <1>1, <2>1, CallTypes, KeysOfFacts DEF InFlight
  <1>4. HandleInv(d)'
    BY <1>1, <1>2 DEF ConnInv, HandleInv, InDisc
  <1>5. CopyInv(d)'
    BY <1>1, <1>3 DEF ConnInv, CopyInv
  <1>6. PutInv(d)'
    BY <1>1, <1>2, <1>3 DEF ConnInv, PutInv
  <1>7. DiscInv(d)'
    BY <1>1 DEF ConnInv, DiscInv, InDisc, Passed, Forgotten
  <1>8. ConnectedInv(d)'
    BY <1>1 DEF ConnInv, ConnectedInv, Forgotten
  <1>9. CallInv(d)'
    BY <1>1 DEF CallInv
  <1>10. QED BY <1>4, <1>5, <1>6, <1>7, <1>8, <1>9 DEF ConnInv

(* So a step of c is right when it is right about the tables and about c.  *)
LEMMA StepOfOne ==
  ASSUME IInv, NEW c \in Conns, 
         TypeOK', StructuresInv', OthersKept(c), ConnInv(c)', CallInv(c)'
  PROVE  IInv'
  <1>1. \A d \in Conns : ConnInv(d) /\ CallInv(d)
    BY DEF IInv, CallInv, PmoRestored, LinkIsThisMessage
  <1>2. \A d \in Conns : ConnInv(d)' /\ CallInv(d)'
    BY <1>1, KeptInv DEF IInv
  <1>3. QED BY <1>2 DEF IInv, CallInv, PmoRestored, LinkIsThisMessage

LEMMA Parts ==
  ASSUME IInv
  PROVE  /\ TypeOK /\ TablesOK /\ \A c \in Conns : ConnInv(c) /\ CallInv(c)
  BY DEF IInv, TypeOK, TablesOK, CallInv, PmoRestored, LinkIsThisMessage

LEMMA IdleFacts ==
  /\ Idle \in Calls
  /\ Idle.op \notin {"put", "putdone", "get", "getdone", "discHandles", "discOptions"}
  BY DEF Idle, Calls

-----------------------------------------------------------------------------
(* The initial states.                                                     *)

LEMMA Initially == Init => IInv
  <1> SUFFICES ASSUME Init PROVE IInv
    OBVIOUS
  <1>1. \A c \in Conns : call[c] = Idle /\ call[c].op = "idle"
    BY DEF Init, Idle
  <1>2. TypeOK
    <2>1. NoProps \in Properties
      BY DEF NoProps, Properties, Values
    <2>2. QED BY <2>1, IdleFacts DEF Init, TypeOK
  <1>3. StructuresInv
    <2>1. \A k \in Keys : optionsMap[k] = None
      BY DEF Init
    <2>2. QED BY <2>1, TablesAssumption DEF StructuresInv, NoDanglingEntries, Present
  <1>4. PmoRestored /\ LinkIsThisMessage
    BY <1>1 DEF PmoRestored, LinkIsThisMessage
  <1>5. ASSUME NEW c \in Conns PROVE ConnInv(c)
    <2>1. HandleInv(c)
      <3>1. <<c, Star>> \in Keys /\ KeysOf(c) \in SUBSET Keys
        BY KeysOfFacts
      <3>2. QED BY <3>1 DEF Init, HandleInv
    <2>2. CopyInv(c) /\ PutInv(c) /\ DiscInv(c)
      BY <1>1 DEF CopyInv, PutInv, DiscInv, InDisc, InFlight
    <2>3. ConnectedInv(c)
      BY <1>1 DEF ConnectedInv, KeysOf, Forgotten, Init
    <2>4. QED BY <2>1, <2>2, <2>3 DEF ConnInv
  <1>6. QED BY <1>2, <1>3, <1>4, <1>5 DEF IInv

-----------------------------------------------------------------------------
(* Steps of the application between its calls, MQCONN, MQOPEN and MQCLOSE. *)

(* A step that leaves handles and calls alone, with at most one entry      *)
(* of an idle connection changed, and that not for one that is not there.  *)
LEMMA QuietStep ==
  ASSUME IInv, NEW c \in Conns, call[c] = Idle, NEW k \in KeysOf(c), 
         TypeOK', TablesOK', OnlyEntry(k),
         UNCHANGED <<handleMap, alive, call>>, 
         \A d \in Conns \ {c} : d \in connected' <=> d \in connected,
         c \in connected'
  PROVE  IInv'
  <1>1. OthersKept(c)
    BY OneEntryOfOne DEF OthersKept
  <1>2. call'[c] = Idle /\ call'[c].op = "idle"
    BY CallTypes DEF Idle
  <1>3. HandleInv(c)'
    BY <1>2, Parts, IdleFacts DEF ConnInv, HandleInv, InDisc
  <1>4. (CopyInv(c) /\ PutInv(c) /\ DiscInv(c) /\ ConnectedInv(c) /\ CallInv(c))'
    BY <1>2 DEF CopyInv, PutInv, DiscInv, ConnectedInv, CallInv, InDisc, InFlight
  <1>5. QED BY <1>1, <1>3, <1>4, StepOfOne DEF ConnInv, TablesOK

LEMMA ConnectStep ==
  ASSUME IInv, NEW c \in Conns, Connect(c)
  PROVE  IInv'
  <1>1. TypeOK' /\ TablesOK'
    BY Parts DEF Connect, TypeOK, TablesOK, StructuresInv, NoDanglingEntries, Present, tables
  <1>2. OnlyEntry(<<c, Star>>)
    BY DEF OnlyEntry, Connect, tables
  <1>3. QED BY <1>1, <1>2, QuietStep, KeysOfFacts DEF Connect, tables

LEMMA AppSetsPropertiesStep ==
  ASSUME IInv, NEW c \in Conns, AppSetsProperties(c)
  PROVE  IInv'
  <1>1. TypeOK'
    <2>1. PICK p \in [parent : {None, App}, state : {None, App}] :
            props' = [props EXCEPT ![c][AppHandle] = p]
      BY DEF AppSetsProperties
    <2>2. p \in Properties
      BY DEF Properties, Values
    <2>3. props' \in [Conns -> [Handles \cup {AppHandle} -> Properties]]
      BY <2>1, <2>2, Parts DEF TypeOK
    <2>4. QED BY <2>3, Parts DEF AppSetsProperties, TypeOK, tables
  <1>2. TablesOK'
    BY Parts DEF AppSetsProperties, TablesOK, StructuresInv, NoDanglingEntries, Present, tables
  <1>3. OnlyEntry(<<c, Star>>)
    BY DEF OnlyEntry, AppSetsProperties, tables
  <1>4. QED BY <1>1, <1>2, <1>3, QuietStep, KeysOfFacts DEF AppSetsProperties, Ready, tables

LEMMA OpenStep ==
  ASSUME IInv, NEW c \in Conns, Open(c)
  PROVE  IInv'
  <1>1. PICK ho \in Shown, input \in BOOLEAN, propCtl \in PropCtls : 
          mqotOpenAfter(c, ho, input, propCtl)
    BY TablesAssumption DEF Open, Shown
  <1>2. TablesOK' /\ OnlyEntry(objectKey(c, ho))
    BY <1>1, Opened, Parts DEF Open
  <1>3. opened' \in [Conns -> SUBSET Hobjs]
    BY Parts DEF Open, TypeOK
  <1>4. TypeOK'
    BY <1>2, <1>3, Parts DEF Open, TypeOK, TablesOK
  <1>5. objectKey(c, ho) \in KeysOf(c)
    BY KeysOfFacts DEF Shown
  <1>6. QED BY <1>2, <1>4, <1>5, QuietStep DEF Open, Ready

LEMMA CloseStep ==
  ASSUME IInv, NEW c \in Conns, Close(c)
  PROVE  IInv'
  <1>1. opened[c] \in SUBSET Hobjs
    BY Parts DEF TypeOK
  <1>2. PICK ho \in Shown : mqotCloseAfter(c, ho)
    BY <1>1 DEF Close, Shown
  <1>3. TablesOK' /\ OnlyEntry(objectKey(c, ho))
    BY <1>2, Closed, Parts DEF Close
  <1>4. opened' \in [Conns -> SUBSET Hobjs]
    BY Parts DEF Close, TypeOK
  <1>5. consumers' \in [Conns -> [Hobjs -> Consumers \cup {None}]]
    BY <1>1, Parts DEF Close, TypeOK
  <1>6. TypeOK'
    BY <1>3, <1>4, <1>5, Parts DEF Close, TypeOK, TablesOK
  <1>7. objectKey(c, ho) \in KeysOf(c)
    BY KeysOfFacts DEF Shown
  <1>8. QED BY <1>3, <1>6, <1>7, QuietStep DEF Close, Ready

-----------------------------------------------------------------------------
(* The steps that leave the tables alone: a call begins or ends with       *)
(* nothing of the exit's own involved.                                     *)

LEMMA TalkStep ==
  ASSUME IInv, NEW c \in Conns, c \in connected, ~InDisc(c), NEW r \in Calls,
         r.op \notin {"discHandles", "discOptions"},
         UNCHANGED <<tables, alive, connected>>, call' = [call EXCEPT ![c] = r],
         TypeOK', CopyInv(c)', PutInv(c)', CallInv(c)'
  PROVE  IInv'
  <1>1. call'[c] = r /\ \A d \in Conns \ {c} : call'[d] = call[d]
    BY Parts DEF TypeOK
  <1>2. OthersKept(c)
    BY <1>1 DEF OthersKept, tables
  <1>3. StructuresInv'
    BY Parts DEF TablesOK, StructuresInv, NoDanglingEntries, Present, tables
  <1>4. ~InDisc(c)'
    BY <1>1 DEF InDisc
  <1>5. HandleInv(c)'
    BY <1>4, Parts DEF ConnInv, HandleInv, tables
  <1>6. (DiscInv(c) /\ ConnectedInv(c))'
    BY <1>4 DEF DiscInv, ConnectedInv, InDisc
  <1>7. QED BY <1>2, <1>3, <1>5, <1>6, StepOfOne DEF ConnInv

(* A thread that is in a call has a connection.                            *)
LEMMA Busy ==
  ASSUME IInv, NEW c \in Conns, call[c].op # "idle"
  PROVE  c \in connected
  BY Parts DEF ConnInv, ConnectedInv, Idle

LEMMA GoOnStep ==
  ASSUME IInv, NEW c \in Conns, GoOn(c)
  PROVE  IInv'
  <1>1. c \in connected /\ ~InDisc(c)
    BY Busy DEF GoOn, InDisc
  <1>2. call'[c] = Idle /\ call' \in [Conns -> Calls]
    BY Parts, IdleFacts DEF GoOn, TypeOK
  <1>3. TypeOK'
    BY <1>2, Parts DEF GoOn, TypeOK, tables, qmgr
  <1>4. (CopyInv(c) /\ PutInv(c) /\ CallInv(c))'
    BY <1>2, IdleFacts DEF CopyInv, PutInv, CallInv, InFlight
  <1>5. QED BY <1>1, <1>3, <1>4, TalkStep, IdleFacts DEF GoOn, tables, qmgr

(* The handle that the exit recognises is one of its own.                  *)
LEMMA Recognised ==
  ASSUME TypeOK, NEW c \in Conns, NEW ho \in Shown \cup {NullHobj}, NEW mh
  PROVE  /\ compareMsgHandle(c, ho, mh) => mh \in Handles /\ handleMap[objectKey(c, ho)] = mh
         /\ mh \in Handles /\ handleMap[objectKey(c, ho)] = mh => compareMsgHandle(c, ho, mh)
  <1>1. objectKey(c, ho) \in Keys
    BY KeysOfFacts DEF Shown
  <1>2. QED BY <1>1, PresentFacts, TablesAssumption DEF TypeOK, compareMsgHandle, Count

LEMMA HandleFacts ==
  /\ \A mh \in Handles : isValidHandle(mh)
  /\ isValidHandle(AppHandle) /\ AppHandle \notin Handles
  /\ ~isValidHandle(MQHM_NONE) /\ ~isValidHandle(MQHM_UNUSABLE_HMSG)
  /\ MQHM_UNUSABLE_HMSG # AppHandle /\ MQHM_UNUSABLE_HMSG \notin Handles
  /\ MQHM_NONE # AppHandle /\ MQHM_NONE \notin Handles
  BY TablesAssumption DEF isValidHandle, MQHM_NONE, MQHM_UNUSABLE_HMSG

(* MQPUT returns with the application's MQPMO, by whatever way it left.    *)
LEMMA PutReturnsStep ==
  ASSUME IInv, NEW c \in Conns, PutReturns(c)
  PROVE  IInv'
  <1> DEFINE pp == mqotPutAfter(c)
             r == [call[c] EXCEPT !.op = "putdone", !.pp = pp]
  <1>1. call[c].op = "put" /\ call[c] \in PutCalls /\ c \in connected /\ ~InDisc(c)
    BY Parts, CallTypes, Busy DEF PutReturns, InDisc
  <1>2. \/ call[c].mh = AppHandle /\ call[c].pp = call[c].pmo
        \/ /\ call[c].mh # AppHandle 
           /\ heap[optionsMap[objectKey(c, call[c].ho)]].pmo = call[c].pmo
           /\ isValidHandle(call[c].mh) => handleMap[<<c, Star>>] = call[c].mh
    BY <1>1, Parts DEF ConnInv, PutInv
  <1>3. call[c].mh \in Handles \cup {AppHandle, MQHM_UNUSABLE_HMSG} /\ call[c].pmo \in Pmos
    BY <1>1 DEF PutCalls
  <1>4. NullHobj \in Shown \cup {NullHobj} /\ objectKey(c, NullHobj) = <<c, Star>>
    BY KeysOfFacts
  <1>5. IF isValidHandle(call[c].mh) THEN pp = call[c].pmo ELSE pp = call[c].pp
    <2>1. CASE call[c].mh = AppHandle
      BY <1>2, <1>4, <2>1, HandleFacts, Recognised, Parts DEF mqotPutAfter
    <2>2. CASE call[c].mh \in Handles
      BY <1>2, <1>4, <2>2, HandleFacts, Recognised, Parts DEF mqotPutAfter
    <2>3. CASE call[c].mh = MQHM_UNUSABLE_HMSG
      BY <1>4, <2>3, HandleFacts, Recognised, Parts DEF mqotPutAfter
    <2>4. QED BY <1>3, <2>1, <2>2, <2>3
  <1> HIDE DEF pp
  <1>6. /\ r \in PutCalls /\ r.op = "putdone" /\ r.pp = pp 
        /\ r.mh = call[c].mh /\ r.pmo = call[c].pmo
    BY <1>1, <1>3, <1>5 DEF PutCalls
  <1>7. call' = [call EXCEPT ![c] = r]
    BY DEF PutReturns, pp
  <1> HIDE DEF r
  <1>8. r \in Calls /\ call'[c] = r /\ TypeOK'
    BY <1>6, <1>7, Parts DEF PutReturns, TypeOK, Calls, tables, qmgr
  <1>9. (CopyInv(c) /\ PutInv(c) /\ CallInv(c))'
    BY <1>5, <1>6, <1>8 DEF CopyInv, PutInv, CallInv, InFlight
  <1>10. QED BY <1>1, <1>6, <1>7, <1>8, <1>9, TalkStep DEF PutReturns, tables, qmgr

-----------------------------------------------------------------------------
(* The answers of the queue manager.                                       *)

(* A get call or a callback that waits for its message.                    *)
Answering ==
  [op : {"get", "callback"}, ho : Shown, gmo : Gmos, asked : AppOptions, 
   options : AppOptions, pp : Gmos \cup Copies, mh : {AppHandle, MQHM_NONE},
   span : Spans \cup {None}, msg : Contexts, got : {"nothing", "none", "handle", "rfh2"},
   link : Properties]

LEMMA ContextFacts == NoProps \in Contexts /\ Contexts \in SUBSET Properties /\ NoProps \in Properties
  BY TablesAssumption DEF Contexts, Properties, Values, NoProps

(* A link is made from this message, whatever the handle held before.      *)
LEMMA Answered ==
  ASSUME IInv, NEW c \in Conns, NEW rec \in Answering, 
         NEW outcomes \in SUBSET Outcomes,
         mqotGetAfter(c, rec.ho, rec.mh, rec.pp, rec, outcomes)
  PROVE  /\ props' \in [Conns -> [Handles \cup {AppHandle} -> Properties]]
         /\ \E r \in GetCalls : 
              /\ call' = [call EXCEPT ![c] = r]
              /\ r.op = "getdone"
              /\ r.link # NoProps => 
                   r.got \in {"handle", "rfh2"} /\ r.link = r.msg /\ r.span # None
  <1>1. PICK outcome \in outcomes, msg \in Contexts, span \in Spans \cup {None} :
          \E where \in Places(rec.mh, rec.asked) :
            /\ props' = IF isValidHandle(rec.mh) /\ outcome \in Returned
                        THEN [props EXCEPT ![c][rec.mh] = IF where = "handle" THEN msg ELSE NoProps]
                        ELSE props
            /\ call' = [call EXCEPT ![c] = [rec EXCEPT 
                 !.op = "getdone", !.span = span, !.msg = msg,
                 !.got = IF outcome \in Returned THEN where ELSE "nothing",
                 !.pp = IF /\ isValidHandle(rec.mh)
                           /\ rec.ho = MQHO_UNUSABLE_HOBJ 
                           /\ compareMsgHandle(c, rec.ho, rec.mh)
                        THEN heap[optionsMap[objectKey(c, rec.ho)]].gmo ELSE rec.pp,
                 !.link = IF span = None THEN NoProps
                          ELSE Extracted(c, rec.mh, outcome, msg, where, props')]]
    BY DEF mqotGetAfter
  <1>2. PICK where \in Places(rec.mh, rec.asked) :
          /\ props' = IF isValidHandle(rec.mh) /\ outcome \in Returned
                      THEN [props EXCEPT ![c][rec.mh] = IF where = "handle" THEN msg ELSE NoProps]
                      ELSE props
          /\ call' = [call EXCEPT ![c] = [rec EXCEPT 
               !.op = "getdone", !.span = span, !.msg = msg,
               !.got = IF outcome \in Returned THEN where ELSE "nothing",
               !.pp = IF /\ isValidHandle(rec.mh)
                         /\ rec.ho = MQHO_UNUSABLE_HOBJ 
                         /\ compareMsgHandle(c, rec.ho, rec.mh)
                      THEN heap[optionsMap[objectKey(c, rec.ho)]].gmo ELSE rec.pp,
               !.link = IF span = None THEN NoProps
                        ELSE Extracted(c, rec.mh, outcome, msg, where, props')]]
    BY <1>1
  <1>3. where \in {"none", "handle", "rfh2"} /\ rec.mh \in {AppHandle, MQHM_NONE} /\ rec.ho \in Shown
    BY DEF Places, Answering
  <1>4. /\ props' \in [Conns -> [Handles \cup {AppHandle} -> Properties]]
        /\ isValidHandle(rec.mh) /\ outcome \in Returned =>
             props'[c][rec.mh] = IF where = "handle" THEN msg ELSE NoProps
    <2>1. props \in [Conns -> [Handles \cup {AppHandle} -> Properties]]
      BY Parts DEF TypeOK
    <2>2. CASE isValidHandle(rec.mh) /\ outcome \in Returned
      <3>1. rec.mh = AppHandle
        BY <1>3, <2>2, HandleFacts
      <3>2. (IF where = "handle" THEN msg ELSE NoProps) \in Properties
        BY ContextFacts
      <3>3. QED BY <1>2, <2>1, <2>2, <3>1, <3>2
    <2>3. CASE ~(isValidHandle(rec.mh) /\ outcome \in Returned)
      BY <1>2, <2>1, <2>3
    <2>4. QED BY <2>2, <2>3
  <1> DEFINE link == IF span = None THEN NoProps
                     ELSE Extracted(c, rec.mh, outcome, msg, where, props')
             got == IF outcome \in Returned THEN where ELSE "nothing"
             pp == IF /\ isValidHandle(rec.mh)
                      /\ rec.ho = MQHO_UNUSABLE_HOBJ 
                      /\ compareMsgHandle(c, rec.ho, rec.mh)
                   THEN heap[optionsMap[objectKey(c, rec.ho)]].gmo ELSE rec.pp
             r == [rec EXCEPT !.op = "getdone", !.span = span, !.msg = msg,
                              !.got = got, !.pp = pp, !.link = link]
  <1>5. link = NoProps \/ (link = msg /\ where \in {"handle", "rfh2"} /\ got = where /\ span # None)
    BY <1>4 DEF Extracted, Returned, Outcomes
  <1>6. link \in Properties
    BY <1>5, ContextFacts
  <1>7. pp = rec.pp
    BY <1>3, HandleFacts, Recognised, Parts
  <1>8. got \in {"nothing", "none", "handle", "rfh2"}
    BY <1>3
  <1>9. call' = [call EXCEPT ![c] = r]
    BY <1>2
  <1> HIDE DEF link, pp, got
  <1>10. /\ r \in GetCalls /\ r.op = "getdone"
         /\ r.link = link /\ r.got = got /\ r.msg = msg /\ r.span = span
    BY <1>6, <1>7, <1>8 DEF Answering, GetCalls
  <1> HIDE DEF r
  <1>11. QED BY <1>4, <1>5, <1>9, <1>10

LEMMA AnsweredStep ==
  ASSUME IInv, NEW c \in Conns, c \in connected, ~InDisc(c), 
         props' \in [Conns -> [Handles \cup {AppHandle} -> Properties]],
         NEW r \in GetCalls, call' = [call EXCEPT ![c] = r],
         r.op = "getdone",
         r.link # NoProps => r.got \in {"handle", "rfh2"} /\ r.link = r.msg /\ r.span # None,
         UNCHANGED <<tables, connected, opened, consumers, alive>>
  PROVE  IInv' /\ call'[c].op = "getdone"
  <1>1. r \in Calls /\ call'[c] = r /\ TypeOK'
    BY Parts DEF TypeOK, Calls, tables
  <1>2. (CopyInv(c) /\ PutInv(c) /\ CallInv(c))'
    BY <1>1 DEF CopyInv, PutInv, CallInv, InFlight
  <1>3. QED BY <1>1, <1>2, TalkStep

LEMMA GetReturnsStep ==
  ASSUME IInv, NEW c \in Conns, GetReturns(c)
  PROVE  IInv' /\ call'[c].op = "getdone"
  <1>1. call[c].op = "get" /\ call[c] \in GetCalls /\ c \in connected /\ ~InDisc(c)
    BY Parts, CallTypes, Busy DEF GetReturns, InDisc
  <1>2. call[c] \in Answering
    BY <1>1 DEF GetCalls, Answering
  <1>3. mqotGetAfter(c, call[c].ho, call[c].mh, call[c].pp, call[c], Outcomes)
    BY DEF GetReturns
  <1>4. QED BY <1>1, <1>2, <1>3, Answered, AnsweredStep DEF GetReturns

LEMMA CallbackStep ==
  ASSUME IInv, NEW c \in Conns, Callback(c)
  PROVE  IInv' /\ call'[c].op = "getdone"
  <1>1. opened[c] \in SUBSET Hobjs /\ consumers[c] \in [Hobjs -> Consumers \cup {None}]
    BY Parts DEF TypeOK
  <1>2. PICK ho \in opened[c], gmo \in Gmos :
          /\ consumers[c][ho] # None
          /\ mqotGetAfter(c, ho, consumers[c][ho].mh, gmo, 
               GetCall("callback", ho, gmo, consumers[c][ho].options, 
                       consumers[c][ho].options, gmo, consumers[c][ho].mh),
               {"ok", "truncated"})
    BY DEF Callback
  <1> DEFINE consumer == consumers[c][ho]
             rec == GetCall("callback", ho, gmo, consumer.options, consumer.options, 
                            gmo, consumer.mh)
  <1>3. consumer \in Consumers
    BY <1>1, <1>2
  <1>4. consumer.mh \in {AppHandle, MQHM_NONE} /\ consumer.options \in AppOptions
    BY <1>3 DEF Consumers
  <1> HIDE DEF consumer
  <1>5. rec \in Answering
    BY <1>1, <1>4, ContextFacts DEF GetCall, Answering, Shown
  <1>6. rec.ho = ho /\ rec.mh = consumer.mh /\ rec.pp = gmo
    BY DEF GetCall
  <1>7. mqotGetAfter(c, rec.ho, rec.mh, rec.pp, rec, {"ok", "truncated"})
    BY <1>2, <1>6 DEF consumer
  <1>8. {"ok", "truncated"} \in SUBSET Outcomes
    BY DEF Outcomes
  <1>9. c \in connected /\ ~InDisc(c)
    BY IdleFacts DEF Callback, Ready, InDisc
  <1> HIDE DEF rec
  <1>10. QED BY <1>5, <1>7, <1>8, <1>9, Answered, AnsweredStep DEF Callback

-----------------------------------------------------------------------------
(* The steps that enter something into the tables: the BEFORE hooks of     *)
(* MQPUT, MQPUT1, MQGET and MQCB.                                          *)

(* Such a step is right when it is right about its own connection.         *)
LEMMA HookStep ==
  ASSUME IInv, NEW c \in Conns, Ready(c), c \in connected', NEW r \in Calls,
         r.op \notin {"discHandles", "discOptions"}, call' = [call EXCEPT ![c] = r],
         NEW k \in KeysOf(c), TablesOK', OnlyEntry(k),
         \A j \in Keys : j[1] # c => handleMap'[j] = handleMap[j],
         \A d \in Conns \ {c} : alive'[d] = alive[d] /\ (d \in connected' <=> d \in connected),
         TypeOK', HandleInv(c)', CopyInv(c)', PutInv(c)', CallInv(c)'
  PROVE  IInv'
  <1>1. call'[c] = r /\ \A d \in Conns \ {c} : call'[d] = call[d]
    BY Parts DEF TypeOK
  <1>2. OthersKept(c)
    BY <1>1, OneEntryOfOne, KeysOfFacts DEF OthersKept, KeysOf
  <1>3. ~InDisc(c)'
    BY <1>1 DEF InDisc
  <1>4. (DiscInv(c) /\ ConnectedInv(c))'
    BY <1>3 DEF DiscInv, ConnectedInv, InDisc
  <1>5. QED BY <1>2, <1>4, StepOfOne DEF ConnInv, TablesOK

(* The exit never has its own handle made for getting: the condition for   *)
(* that is false, whatever the application and the queue ask for.          *)
LEMMA NeverOverrides ==
  ASSUME NEW options, NEW propCtl
  PROVE  ~Overrides(options, propCtl)
  <1>1. "IN_HANDLE" \in Masked(options)
    BY DEF Masked
  <1>2. QED BY <1>1 DEF Overrides, AsQDef

(* The handle a put gets is the one of the connection, from now on.        *)
LEMMA HandleGot ==
  ASSUME IInv, NEW c \in Conns, Ready(c), 
         NEW mh \in GotHandle(c, NullHobj), StoreHandle(c, NullHobj, mh)
  PROVE  /\ handleMap' \in [Keys -> Handles \cup {None}] /\ alive' \in [Conns -> SUBSET Handles]
         /\ mh \in Handles \cup {MQHM_UNUSABLE_HMSG}
         /\ mh \in Handles => handleMap'[<<c, Star>>] = mh
         /\ \A j \in Keys : j[1] # c => handleMap'[j] = handleMap[j]
         /\ \A d \in Conns \ {c} : alive'[d] = alive[d]
         /\ HandleInv(c)'
  <1> DEFINE k == <<c, Star>>
  <1>1. objectKey(c, NullHobj) = k /\ k \in Keys /\ k \in KeysOf(c) /\ k[1] = c
    BY KeysOfFacts
  <1>2. ~InDisc(c)
    BY IdleFacts DEF Ready, InDisc
  <1>3. /\ handleMap \in [Keys -> Handles \cup {None}] /\ alive \in [Conns -> SUBSET Handles]
        /\ \A j \in KeysOf(c) : j[2] # Star => handleMap[j] = None
        /\ handleMap[k] # None => alive[c] = {handleMap[k]}
        /\ handleMap[k] = None => alive[c] = {}
    BY <1>2, Parts DEF TypeOK, ConnInv, HandleInv
  <1>4. Count(handleMap, k) <=> handleMap[k] # None
    BY <1>1, PresentFacts DEF Count
  <1> HIDE DEF k
  <1>5. CASE handleMap[k] # None
    <2>1. mh = handleMap[k] /\ UNCHANGED <<handleMap, alive>>
      BY <1>1, <1>4, <1>5 DEF GotHandle, StoreHandle
    <2>2. HandleInv(c)'
      BY <1>3, <1>5, <2>1 DEF HandleInv, k
    <2>3. QED BY <1>1, <1>3, <1>5, <2>1, <2>2 DEF k
  <1>6. CASE handleMap[k] = None /\ mh \in Handles
    <2>1. handleMap' = [handleMap EXCEPT ![k] = mh] /\ alive' = [alive EXCEPT ![c] = @ \cup {mh}]
      BY <1>1, <1>4, <1>6, HandleFacts DEF StoreHandle
    <2>2. /\ handleMap'[k] = mh /\ alive'[c] = {mh} /\ mh # None
          /\ \A j \in Keys : j # k => handleMap'[j] = handleMap[j]
      BY <1>1, <1>3, <1>6, <2>1, TablesAssumption
    <2>3. HandleInv(c)'
      <3>1. \A j \in KeysOf(c) : j[2] # Star => handleMap'[j] = None
        BY <1>3, <2>2, KeysOfFacts DEF k
      <3>2. QED BY <2>2, <3>1 DEF HandleInv, k
    <2>4. QED BY <1>1, <1>3, <1>6, <2>1, <2>2, <2>3 DEF k
  <1>7. CASE handleMap[k] = None /\ mh \notin Handles
    <2>1. mh = MQHM_UNUSABLE_HMSG
      BY <1>1, <1>4, <1>7 DEF GotHandle, CrtMh
    <2>2. UNCHANGED <<handleMap, alive>>
      BY <1>1, <2>1, HandleFacts DEF StoreHandle
    <2>3. HandleInv(c)'
      BY <1>3, <1>7, <2>2 DEF HandleInv, k
    <2>4. QED BY <1>3, <1>7, <2>1, <2>2, <2>3
  <1>8. QED BY <1>5, <1>6, <1>7

LEMMA SpanProperties ==
  ASSUME NEW old \in Properties, NEW span \in Spans \cup {None}, NEW skip, NEW rfh2
  PROVE  WithSpan(old, span, skip) \in Properties /\ Sent(old, rfh2) \in Properties
  BY TablesAssumption DEF WithSpan, Sent, Properties, Values

(* MQPUT with a handle of the application in its MQPMO ...                 *)
LEMMA PutWithHandle ==
  ASSUME IInv, NEW c \in Conns, Ready(c), NEW ho \in Shown, NEW pmo \in Pmos, 
         NEW kind \in PmoKinds, NEW rfh2 \in Rfh2Kinds, NEW span \in Spans \cup {None}, NEW mho,
         kind # "neither", mqotPutBefore(c, ho, pmo, kind, rfh2, span, mho),
         UNCHANGED <<connected, opened, consumers>>
  PROVE  IInv'
  <1> DEFINE p == WithSpan(props[c][AppHandle], span, 
                           HandleSkips(c, kind, mho) \cup Rfh2Skips(rfh2))
             r == [op |-> "put", ho |-> ho, pmo |-> pmo, kind |-> kind, rfh2 |-> rfh2, 
                   span |-> span, pp |-> pmo, mh |-> AppHandle, 
                   msg |-> Sent(props'[c][AppHandle], rfh2)]
  <1>1. /\ props' = [props EXCEPT ![c][AppHandle] = p]
        /\ call' = [call EXCEPT ![c] = r]
        /\ UNCHANGED <<tables, alive>>
    BY DEF mqotPutBefore
  <1>2. props \in [Conns -> [Handles \cup {AppHandle} -> Properties]]
    BY Parts DEF TypeOK
  <1>3. p \in Properties
    BY <1>2, SpanProperties
  <1> HIDE DEF p
  <1>4. props' \in [Conns -> [Handles \cup {AppHandle} -> Properties]]
    BY <1>1, <1>2, <1>3
  <1>5. Sent(props'[c][AppHandle], rfh2) \in Properties
    BY <1>4, SpanProperties
  <1>6. r \in PutCalls
    BY <1>5 DEF PutCalls
  <1>7. /\ r.op = "put" /\ r.ho = ho /\ r.pmo = pmo /\ r.pp = pmo /\ r.mh = AppHandle
    OBVIOUS
  <1> HIDE DEF r
  <1>8. r \in Calls /\ call'[c] = r /\ TypeOK'
    BY <1>1, <1>4, <1>6, Parts DEF TypeOK, Calls, tables
  <1>9. (CopyInv(c) /\ PutInv(c) /\ CallInv(c))'
    BY <1>7, <1>8 DEF CopyInv, PutInv, CallInv, InFlight
  <1>10. c \in connected /\ ~InDisc(c)
    BY IdleFacts DEF Ready, InDisc
  <1>11. QED BY <1>1, <1>7, <1>8, <1>9, <1>10, TalkStep

(* ... and without, on a copy in the structure of the key.                 *)
LEMMA PutOnCopy ==
  ASSUME IInv, NEW c \in Conns, Ready(c), NEW ho \in Shown, NEW pmo \in Pmos, 
         NEW kind \in PmoKinds, NEW rfh2 \in Rfh2Kinds, NEW span \in Spans \cup {None}, NEW mho,
         kind = "neither", mqotPutBefore(c, ho, pmo, kind, rfh2, span, mho),
         UNCHANGED <<connected, opened, consumers>>
  PROVE  IInv'
  <1> DEFINE k == objectKey(c, ho)
             skip == HandleSkips(c, kind, mho) \cup Rfh2Skips(rfh2)
  <1>1. Save(k, "pmo", pmo)
    BY DEF mqotPutBefore
  <1>2. PICK mh \in GotHandle(c, NullHobj) :
          /\ StoreHandle(c, NullHobj, mh)
          /\ props' = IF isValidHandle(mh) 
                      THEN [props EXCEPT ![c][mh] = WithSpan(@, span, skip)] ELSE props
          /\ call' = [call EXCEPT ![c] = 
               [op |-> "put", ho |-> ho, pmo |-> pmo, kind |-> kind, rfh2 |-> rfh2, 
                span |-> span, pp |-> Mine(optionsMap'[k]), mh |-> mh, 
                msg |-> Sent(IF isValidHandle(mh) THEN props'[c][mh] ELSE NoProps, rfh2)]]
    BY DEF mqotPutBefore
  <1> DEFINE before == IF isValidHandle(mh) THEN props'[c][mh] ELSE NoProps
             r == [op |-> "put", ho |-> ho, pmo |-> pmo, kind |-> kind, rfh2 |-> rfh2, 
                   span |-> span, pp |-> Mine(optionsMap'[k]), mh |-> mh, 
                   msg |-> Sent(before, rfh2)]
  <1>3. k \in KeysOf(c) /\ k \in Keys /\ k[2] # Bare
    BY KeysOfFacts DEF Shown
  <1>4. /\ TablesOK' /\ OnlyEntry(k) /\ optionsMap'[k] \in Blocks
        /\ heap'[optionsMap'[k]].pmo = pmo
    <2>1. Field("pmo", pmo)
      BY DEF Field
    <2> HIDE DEF k
    <2>2. /\ TablesOK' /\ OnlyEntry(k) /\ optionsMap'[k] \in Blocks
          /\ heap'[optionsMap'[k]]["pmo"] = pmo /\ heap'[optionsMap'[k]] \in Struct
      BY <1>1, <1>3, <2>1, Saved, Parts
    <2>3. QED BY <2>2 DEF Struct
  <1>5. /\ handleMap' \in [Keys -> Handles \cup {None}] /\ alive' \in [Conns -> SUBSET Handles]
        /\ mh \in Handles \cup {MQHM_UNUSABLE_HMSG}
        /\ mh \in Handles => handleMap'[<<c, Star>>] = mh
        /\ \A j \in Keys : j[1] # c => handleMap'[j] = handleMap[j]
        /\ \A d \in Conns \ {c} : alive'[d] = alive[d]
        /\ HandleInv(c)'
    BY <1>2, HandleGot
  <1>6. props' \in [Conns -> [Handles \cup {AppHandle} -> Properties]]
    <2>1. props \in [Conns -> [Handles \cup {AppHandle} -> Properties]]
      BY Parts DEF TypeOK
    <2>2. CASE mh \in Handles
      <3>1. props' = [props EXCEPT ![c][mh] = WithSpan(props[c][mh], span, skip)]
        BY <1>2, <2>2, HandleFacts
      <3>2. WithSpan(props[c][mh], span, skip) \in Properties
        BY <2>1, <2>2, SpanProperties
      <3> HIDE DEF skip
      <3>3. QED BY <2>1, <2>2, <3>1, <3>2
    <2>3. CASE mh = MQHM_UNUSABLE_HMSG
      BY <1>2, <2>1, <2>3, HandleFacts
    <2>4. QED BY <1>5, <2>2, <2>3
  <1>7. Sent(before, rfh2) \in Properties
    BY <1>5, <1>6, SpanProperties, ContextFacts, HandleFacts
  <1>8. call' = [call EXCEPT ![c] = r]
    BY <1>2
  <1>9. Mine(optionsMap'[k]) \in Copies
    BY <1>4 DEF Copies
  <1> HIDE DEF before, k
  <1>10. r \in PutCalls
    BY <1>5, <1>7, <1>9 DEF PutCalls
  <1>11. r.op = "put" /\ r.ho = ho /\ r.pmo = pmo /\ r.pp = Mine(optionsMap'[k]) /\ r.mh = mh
    OBVIOUS
  <1> HIDE DEF r
  <1>12. r \in Calls /\ call'[c] = r /\ TypeOK'
    BY <1>4, <1>5, <1>6, <1>8, <1>10, Parts DEF TypeOK, TablesOK, Calls
  <1>13. CopyInv(c)'
    BY <1>4, <1>11, <1>12 DEF CopyInv, k
  <1>14. PutInv(c)'
    BY <1>4, <1>5, <1>11, <1>12, HandleFacts DEF PutInv, k
  <1>15. CallInv(c)'
    BY <1>11, <1>12 DEF CallInv
  <1>16. c \in connected'
    BY DEF Ready
  <1>17. QED BY <1>3, <1>4, <1>5, <1>8, <1>11, <1>12, <1>13, <1>14, <1>15, <1>16, HookStep

LEMMA PutStep ==
  ASSUME IInv, NEW c \in Conns, Put(c)
  PROVE  IInv'
  <1>1. opened[c] \in SUBSET Hobjs
    BY Parts DEF TypeOK
  <1>2. PICK ho \in Shown, pmo \in Pmos, kind \in PmoKinds, rfh2 \in Rfh2Kinds, 
             span \in Spans \cup {None} : 
          \E mho \in alive[c] \cup {AppHandle, MQHM_NONE} : 
            mqotPutBefore(c, ho, pmo, kind, rfh2, span, mho)
    <2>1. PutObjects(c) \in SUBSET Shown
      BY <1>1 DEF PutObjects, Shown
    <2>2. PICK ho \in PutObjects(c), pmo \in Pmos, kind \in PmoKinds, rfh2 \in Rfh2Kinds, 
               span \in Spans \cup {None} : 
            \E mho \in IF kind = "original" THEN alive[c] \cup {AppHandle, MQHM_NONE} 
                                            ELSE {MQHM_NONE} :
              mqotPutBefore(c, ho, pmo, kind, rfh2, span, mho)
      BY DEF Put
    <2>3. QED BY <2>1, <2>2
  <1>3. QED BY <1>2, PutWithHandle, PutOnCopy DEF Put

(* MQGET and MQCB, on the application's MQGMO or on a copy of it.          *)
LEMMA GetBegins ==
  ASSUME IInv, NEW c \in Conns, NEW ho \in Shown, NEW gmo \in Gmos, 
         NEW options \in AppOptions, NEW appHandle \in BOOLEAN, NEW op \in {"get", "getdone"},
         mqotGetBefore(c, ho, gmo, options, appHandle, op)
  PROVE  /\ UNCHANGED <<handleMap, alive>> /\ TablesOK' /\ OnlyEntry(objectKey(c, ho))
         /\ \E r \in GetCalls : 
              /\ call' = [call EXCEPT ![c] = r]
              /\ r.op = op /\ r.ho = ho /\ r.link = NoProps
              /\ r.mh \in {AppHandle, MQHM_NONE}
              /\ \/ r.pp \in Gmos 
                 \/ /\ optionsMap'[objectKey(c, ho)] \in Blocks
                    /\ r.pp = Mine(optionsMap'[objectKey(c, ho)])
  <1> DEFINE k == objectKey(c, ho)
             r(pp, mh) == GetCall(op, ho, gmo, options, options, pp, mh)
  <1>1. ASSUME NEW pp \in Gmos \cup Copies, NEW mh \in {AppHandle, MQHM_NONE}
        PROVE  /\ r(pp, mh) \in GetCalls /\ r(pp, mh).op = op /\ r(pp, mh).ho = ho 
               /\ r(pp, mh).link = NoProps
               /\ r(pp, mh).mh = mh /\ r(pp, mh).pp = pp
    BY ContextFacts DEF GetCall, GetCalls
  <1>2. CASE appHandle
    <2>1. call' = [call EXCEPT ![c] = r(gmo, AppHandle)] /\ UNCHANGED <<tables, alive>>
      BY <1>2 DEF mqotGetBefore
    <2>2. TablesOK' /\ OnlyEntry(k)
      BY <2>1, Parts 
      DEF tables, TablesOK, StructuresInv, NoDanglingEntries, Present, OnlyEntry
    <2> HIDE DEF r, k
    <2>3. QED BY <1>1, <2>1, <2>2 DEF tables, k
  <1>3. CASE ~appHandle
    <2>1. /\ Save(k, "gmo", gmo)
          /\ call' = [call EXCEPT ![c] = r(Mine(optionsMap'[k]), MQHM_NONE)]
          /\ UNCHANGED <<handleMap, alive>>
      BY <1>3, NeverOverrides DEF mqotGetBefore
    <2>2. k \in Keys /\ k[2] # Bare /\ Field("gmo", gmo)
      BY KeysOfFacts DEF Field, Shown
    <2> HIDE DEF k, r
    <2>3. TablesOK' /\ OnlyEntry(k) /\ optionsMap'[k] \in Blocks
      BY <2>1, <2>2, Saved, Parts
    <2>4. Mine(optionsMap'[k]) \in Copies
      BY <2>3 DEF Copies
    <2>5. QED BY <1>1, <2>1, <2>3, <2>4 DEF k
  <1>4. QED BY <1>2, <1>3

LEMMA GetBegun ==
  ASSUME IInv, NEW c \in Conns, Ready(c), NEW ho \in Shown, NEW r \in GetCalls,
         r.ho = ho, r.link = NoProps, r.op \in {"get", "getdone"},
         \/ r.pp \in Gmos 
         \/ /\ optionsMap'[objectKey(c, ho)] \in Blocks
            /\ r.pp = Mine(optionsMap'[objectKey(c, ho)]),
         call' = [call EXCEPT ![c] = r],
         UNCHANGED <<handleMap, alive, connected, opened, props>>, 
         TablesOK', OnlyEntry(objectKey(c, ho)),
         consumers' \in [Conns -> [Hobjs -> Consumers \cup {None}]]
  PROVE  IInv' /\ call'[c] = r
  <1>1. r \in Calls /\ call'[c] = r /\ TypeOK'
    BY Parts DEF TypeOK, TablesOK, Calls
  <1>2. HandleInv(c)'
    BY <1>1, Parts, IdleFacts DEF Ready, ConnInv, HandleInv, InDisc
  <1>3. (CopyInv(c) /\ PutInv(c) /\ CallInv(c))'
    BY <1>1 DEF CopyInv, PutInv, CallInv
  <1>4. objectKey(c, ho) \in KeysOf(c)
    BY KeysOfFacts DEF Shown
  <1>5. c \in connected'
    BY DEF Ready
  <1>6. QED BY <1>1, <1>2, <1>3, <1>4, <1>5, HookStep

LEMMA GetStep ==
  ASSUME IInv, NEW c \in Conns, Get(c)
  PROVE  IInv' /\ call'[c].op = "get"
  <1>1. PICK gmo \in Gmos, options \in AppOptions, appHandle \in BOOLEAN :
          mqotGetBefore(c, MQHO_UNUSABLE_HOBJ, gmo, options, appHandle, "get")
    BY DEF Get
  <1>2. MQHO_UNUSABLE_HOBJ \in Shown
    BY DEF Shown
  <1>3. consumers' \in [Conns -> [Hobjs -> Consumers \cup {None}]]
    BY Parts DEF Get, TypeOK
  <1>4. QED BY <1>1, <1>2, <1>3, GetBegins, GetBegun DEF Get

LEMMA RegisterConsumerStep ==
  ASSUME IInv, NEW c \in Conns, RegisterConsumer(c)
  PROVE  IInv' /\ call'[c].op = "getdone"
  <1>1. opened[c] \in SUBSET Hobjs
    BY Parts DEF TypeOK
  <1>2. PICK ho \in opened[c], gmo \in Gmos, options \in AppOptions, appHandle \in BOOLEAN :
          /\ mqotGetBefore(c, ho, gmo, options, appHandle, "getdone")
          /\ consumers' = [consumers EXCEPT ![c][ho] = 
                             [mh |-> call'[c].mh, options |-> options]]
    BY DEF RegisterConsumer
  <1>3. ho \in Shown /\ ho \in Hobjs
    BY <1>1 DEF Shown
  <1>4. /\ UNCHANGED <<handleMap, alive>> /\ TablesOK' /\ OnlyEntry(objectKey(c, ho))
        /\ \E r \in GetCalls : 
             /\ call' = [call EXCEPT ![c] = r]
             /\ r.op = "getdone" /\ r.ho = ho /\ r.link = NoProps
             /\ r.mh \in {AppHandle, MQHM_NONE}
             /\ \/ r.pp \in Gmos 
                \/ /\ optionsMap'[objectKey(c, ho)] \in Blocks
                   /\ r.pp = Mine(optionsMap'[objectKey(c, ho)])
    BY <1>2, <1>3, GetBegins
  <1>5. PICK r \in GetCalls : 
          /\ call' = [call EXCEPT ![c] = r]
          /\ r.op = "getdone" /\ r.ho = ho /\ r.link = NoProps
          /\ r.mh \in {AppHandle, MQHM_NONE}
          /\ \/ r.pp \in Gmos 
             \/ /\ optionsMap'[objectKey(c, ho)] \in Blocks
                /\ r.pp = Mine(optionsMap'[objectKey(c, ho)])
    BY <1>4
  <1>6. call'[c].mh \in {AppHandle, MQHM_NONE}
    BY <1>5, Parts DEF TypeOK
  <1>7. [mh |-> call'[c].mh, options |-> options] \in Consumers
    BY <1>6 DEF Consumers
  <1>8. consumers' \in [Conns -> [Hobjs -> Consumers \cup {None}]]
    BY <1>2, <1>3, <1>7, Parts DEF TypeOK
  <1>9. IInv' /\ call'[c] = r
    <2>1. Ready(c) /\ UNCHANGED <<handleMap, alive, connected, opened, props>>
      BY <1>4 DEF RegisterConsumer
    <2>2. r.op \in {"get", "getdone"}
      BY <1>5
    <2>3. QED BY <1>3, <1>4, <1>5, <1>8, <2>1, <2>2, GetBegun
  <1>10. QED BY <1>5, <1>9

-----------------------------------------------------------------------------
(* MQDISC.                                                                 *)

(* What its loops erase is a key of the connection's own.                  *)
LEMMA OwnKeys ==
  ASSUME IInv, NEW c \in Conns, InDisc(c), NEW k \in Keys, OwnKey(c, k)
  PROVE  call[c].hc = c /\ k \in KeysOf(c)
  <1>1. call[c].hc \in {c, MQHC_UNUSABLE_HCONN}
    BY Parts DEF ConnInv, DiscInv
  <1>2. k[1] \in Nat
    BY KeyFacts
  <1>3. call[c].hc # MQHC_UNUSABLE_HCONN
    BY <1>2 DEF OwnKey, MQHC_UNUSABLE_HCONN
  <1>4. QED BY <1>1, <1>3, KeysOfFacts DEF OwnKey

(* Where its iterators can stand.                                          *)
LEMMA IteratorTypes ==
  ASSUME NEW map
  PROVE  /\ First(Present(map)) \in Keys \cup {End}
         /\ \A k \in Present(map) : Following(Present(map), k) \in Keys \cup {End}
  BY FirstPasses, FollowingPasses, PresentFacts

(* A step in the loops is right when it is right about the handles, and    *)
(* about what the iterator has passed.                                     *)
LEMMA LoopStep ==
  ASSUME IInv, NEW c \in Conns, c \in connected, NEW r \in DiscCalls, 
         call' = [call EXCEPT ![c] = r],
         TypeOK', StructuresInv', HandleInv(c)', DiscInv(c)',
         \A j \in Keys : j[1] # c => handleMap'[j] = handleMap[j] /\ optionsMap'[j] = optionsMap[j],
         UNCHANGED <<heap, connected, alive>>
  PROVE  IInv'
  <1>1. call'[c] = r /\ \A d \in Conns \ {c} : call'[d] = call[d]
    BY Parts DEF TypeOK
  <1>2. r.op \in {"discHandles", "discOptions"}
    BY DEF DiscCalls
  <1>3. OthersKept(c)
    BY <1>1 DEF OthersKept, KeysOf
  <1>4. (CopyInv(c) /\ PutInv(c) /\ CallInv(c) /\ ConnectedInv(c))'
    BY <1>1, <1>2 DEF CopyInv, PutInv, CallInv, ConnectedInv, InFlight
  <1>5. QED BY <1>3, <1>4, StepOfOne DEF ConnInv

LEMMA DiscStep ==
  ASSUME IInv, NEW c \in Conns, Disc(c)
  PROVE  IInv'
  <1>1. PICK hc \in {c, MQHC_UNUSABLE_HCONN} : 
          call' = [call EXCEPT ![c] = 
            [op |-> "discHandles", hc |-> hc, at |-> First(Present(handleMap))]]
    BY DEF Disc
  <1> DEFINE r == [op |-> "discHandles", hc |-> hc, at |-> First(Present(handleMap))]
  <1>2. r \in DiscCalls
    BY IteratorTypes DEF DiscCalls
  <1>3. r.op = "discHandles" /\ r.hc = hc /\ r.at = First(Present(handleMap))
    OBVIOUS
  <1>4. call' = [call EXCEPT ![c] = r]
    BY <1>1
  <1> HIDE DEF r
  <1>5. call'[c] = r /\ TypeOK'
    BY <1>2, <1>4, Parts DEF Disc, TypeOK, Calls, tables, qmgr
  <1>6. StructuresInv'
    BY Parts DEF Disc, TablesOK, StructuresInv, NoDanglingEntries, Present, tables
  <1>7. HandleInv(c)'
    BY Parts, IdleFacts DEF Disc, Ready, ConnInv, HandleInv, InDisc, tables, qmgr
  <1>8. DiscInv(c)'
    <2>1. ASSUME NEW k \in KeysOf(c), Passed(c, k)' PROVE handleMap[k] = None
      <3>1. First(Present(handleMap)) = End \/ Before(k, First(Present(handleMap)))
        BY <1>3, <1>5, <2>1 DEF Passed
      <3>2. k \notin Present(handleMap)
        BY <3>1, FirstPasses, PresentFacts
      <3>3. QED BY <3>2, PresentFacts, KeysOfFacts
    <2>2. QED BY <1>3, <1>5, <2>1 DEF DiscInv, InDisc, Disc, tables
  <1>9. QED BY <1>2, <1>4, <1>5, <1>6, <1>7, <1>8, LoopStep DEF Disc, Ready, tables, qmgr

(* One iteration over the handles.                                         *)
LEMMA ErasesHandle ==
  ASSUME IInv, NEW c \in Conns, DiscHandles(c), call[c].at # End
  PROVE  IInv'
  <1> DEFINE k == call[c].at
             n == Following(Present(handleMap), k)
             r == [call[c] EXCEPT !.at = n]
  <1>1. /\ call[c].op = "discHandles" /\ k \in Present(handleMap) /\ OwnKey(c, k)
        /\ handleMap' = [handleMap EXCEPT ![k] = None]
        /\ call' = [call EXCEPT ![c].at = n]
        /\ UNCHANGED <<optionsMap, heap, qmgr>>
    BY DEF DiscHandles
  <1>2. k \in Keys /\ k \in KeysOf(c) /\ InDisc(c) /\ call[c] \in DiscCalls /\ c \in connected
    BY <1>1, PresentFacts, OwnKeys, CallTypes, Parts, Busy DEF InDisc
  <1>3. n \in Keys \cup {End}
    BY <1>1, IteratorTypes
  <1> HIDE DEF n
  <1>4. r \in DiscCalls /\ r.op = "discHandles" /\ r.at = n /\ r.hc = call[c].hc
    BY <1>1, <1>2, <1>3 DEF DiscCalls
  <1>5. call' = [call EXCEPT ![c] = r]
    BY <1>1
  <1> HIDE DEF r
  <1>6. /\ handleMap' \in [Keys -> Handles \cup {None}] /\ handleMap'[k] = None
        /\ \A j \in Keys \ {k} : handleMap'[j] = handleMap[j]
    BY <1>1, <1>2, Parts DEF TypeOK
  <1>7. call'[c] = r /\ TypeOK'
    <2>1. r \in Calls
      BY <1>4 DEF Calls
    <2>2. call'[c] = r /\ call' \in [Conns -> Calls]
      BY <1>5, <2>1, Parts DEF TypeOK
    <2>3. QED BY <1>1, <1>6, <2>2, Parts DEF TypeOK, qmgr
  <1>8. StructuresInv'
    BY <1>1, Parts DEF TablesOK, StructuresInv, NoDanglingEntries, Present
  <1>9. HandleInv(c)'
    <2>1. k = <<c, Star>> /\ handleMap[k] \in Handles /\ alive[c] = {handleMap[k]}
      <3>1. handleMap[k] # None /\ handleMap[k] \in Handles
        BY <1>1, <1>2, PresentFacts, Parts DEF TypeOK
      <3>2. k[2] = Star /\ k[1] = c
        BY <1>2, <3>1, Parts, KeysOfFacts DEF ConnInv, HandleInv
      <3>3. k = <<c, Star>>
        BY <1>2, <3>2, KeyFacts
      <3>4. QED BY <3>1, <3>3, Parts DEF ConnInv, HandleInv
    <2>2. InDisc(c)'
      BY <1>4, <1>7 DEF InDisc
    <2>3. alive'[c] = alive[c]
      BY <1>1 DEF qmgr
    <2>4. \A j \in KeysOf(c) : j[2] # Star => handleMap'[j] = None
      BY <1>2, <1>6, Parts, KeysOfFacts DEF ConnInv, HandleInv
    <2> HIDE DEF k
    <2>5. QED BY <1>6, <2>1, <2>2, <2>3, <2>4 DEF HandleInv
  <1>10. DiscInv(c)'
    <2>1. ASSUME NEW j \in KeysOf(c), Passed(c, j)' PROVE handleMap'[j] = None
      <3>1. n = End \/ Before(j, n)
        BY <1>4, <1>7, <2>1 DEF Passed
      <3>2. j \in Present(handleMap) => j = k \/ Before(j, k)
        BY <1>1, <3>1, FollowingPasses, PresentFacts DEF n
      <3>3. Before(j, k) => handleMap[j] = None
        BY <1>1, Parts DEF ConnInv, DiscInv, Passed
      <3>4. QED BY <1>6, <3>2, <3>3, PresentFacts, KeysOfFacts
    <2>2. r.hc \in {c, MQHC_UNUSABLE_HCONN}
      BY <1>2, <1>4, Parts DEF ConnInv, DiscInv
    <2>3. QED BY <1>4, <1>7, <2>1, <2>2 DEF DiscInv, InDisc
  <1>11. \A j \in Keys : j[1] # c => handleMap'[j] = handleMap[j] /\ optionsMap'[j] = optionsMap[j]
    <2>1. k[1] = c /\ UNCHANGED optionsMap
      BY <1>1, <1>2, KeysOfFacts
    <2> HIDE DEF k
    <2>2. QED BY <1>6, <2>1
  <1>12. QED BY <1>1, <1>2, <1>4, <1>5, <1>7, <1>8, <1>9, <1>10, <1>11, LoopStep DEF qmgr

(* From the handles to the structures.                                     *)
LEMMA HandlesErased ==
  ASSUME IInv, NEW c \in Conns, DiscHandles(c), call[c].at = End
  PROVE  IInv'
  <1> DEFINE n == First(Present(optionsMap))
             r == [call[c] EXCEPT !.op = "discOptions", !.at = n]
  <1>1. /\ call[c].op = "discHandles" 
        /\ call' = [call EXCEPT ![c] = r]
        /\ UNCHANGED <<handleMap, optionsMap, heap, qmgr>>
    BY KeyFacts, PresentFacts DEF DiscHandles
  <1>2. InDisc(c) /\ call[c] \in DiscCalls /\ c \in connected
    BY <1>1, CallTypes, Parts, Busy DEF InDisc
  <1>3. n \in Keys \cup {End}
    BY IteratorTypes
  <1> HIDE DEF n
  <1>4. r \in DiscCalls /\ r.op = "discOptions" /\ r.at = n /\ r.hc = call[c].hc
    BY <1>2, <1>3 DEF DiscCalls
  <1> HIDE DEF r
  <1>5. call'[c] = r /\ TypeOK'
    BY <1>1, <1>4, Parts DEF TypeOK, Calls, qmgr
  <1>6. StructuresInv'
    BY <1>1, Parts DEF TablesOK, StructuresInv, NoDanglingEntries, Present
  <1>7. HandleInv(c)'
    BY <1>1, <1>2, <1>4, <1>5, Parts DEF ConnInv, HandleInv, InDisc, qmgr
  <1>8. DiscInv(c)'
    <2>1. ASSUME NEW j \in KeysOf(c), Passed(c, j)' PROVE Forgotten(j)
      <3>1. n = End \/ Before(j, n)
        BY <1>4, <1>5, <2>1 DEF Passed
      <3>2. j \notin Present(optionsMap)
        BY <3>1, FirstPasses, PresentFacts DEF n
      <3>3. QED BY <3>2, PresentFacts, KeysOfFacts DEF Forgotten
    <2>2. \A j \in KeysOf(c) : handleMap[j] = None
      BY <1>1, Parts DEF ConnInv, DiscInv, Passed
    <2>3. r.hc \in {c, MQHC_UNUSABLE_HCONN}
      BY <1>2, <1>4, Parts DEF ConnInv, DiscInv
    <2>4. QED BY <1>1, <1>4, <1>5, <2>1, <2>2, <2>3 DEF DiscInv, InDisc, Forgotten
  <1>9. QED BY <1>1, <1>2, <1>4, <1>5, <1>6, <1>7, <1>8, LoopStep DEF qmgr

(* One iteration over the structures.  What it frees is the NULL of the    *)
(* bare key: every structure stays, and none is freed under a call.        *)
LEMMA ErasesOptions ==
  ASSUME IInv, NEW c \in Conns, DiscOptions(c), call[c].at # End
  PROVE  IInv'
  <1> DEFINE k == call[c].at
             prefix == <<c, Bare>>
             n == Following(Present(optionsMap), k)
             r == [call[c] EXCEPT !.at = n]
  <1>1. /\ call[c].op = "discOptions" /\ k \in Present(optionsMap) /\ OwnKey(c, k)
        /\ call' = [call EXCEPT ![c].at = n]
        /\ UNCHANGED <<handleMap, qmgr>>
    BY DEF DiscOptions
  <1>2. /\ k \in Keys /\ k \in KeysOf(c) /\ InDisc(c) /\ call[c].hc = c
        /\ call[c] \in DiscCalls /\ c \in connected
    BY <1>1, PresentFacts, OwnKeys, CallTypes, Parts, Busy DEF InDisc
  <1>3. prefix \in Keys /\ prefix[1] = c /\ prefix[2] = Bare
    BY DEF Keys
  <1>4. UNCHANGED heap /\ optionsMap' = [optionsMap EXCEPT ![prefix] = Null, ![k] = None]
    <2> DEFINE o == IF Count(optionsMap, prefix) THEN optionsMap[prefix] ELSE Null
    <2>1. optionsMap[prefix] \in {Null, None}
      BY <1>3, Parts DEF TablesOK, StructuresInv
    <2>2. o = Null
      BY <1>3, <2>1, PresentFacts DEF Count
    <2>3. Null \notin Blocks
      BY TablesAssumption
    <2>4. /\ heap' = IF o \in Blocks THEN [heap EXCEPT ![o] = None] ELSE heap
          /\ optionsMap' = [optionsMap EXCEPT ![prefix] = o, ![k] = None]
      BY <1>1, <1>2, KeyFacts DEF DiscOptions
    <2> HIDE DEF o
    <2>5. QED BY <2>2, <2>3, <2>4
  <1>5. n \in Keys \cup {End}
    BY <1>1, IteratorTypes
  <1> HIDE DEF n
  <1>6. r \in DiscCalls /\ r.op = "discOptions" /\ r.at = n /\ r.hc = c
    BY <1>1, <1>2, <1>5 DEF DiscCalls
  <1>7. call' = [call EXCEPT ![c] = r]
    BY <1>1
  <1> HIDE DEF r, k, prefix
  <1>8. /\ optionsMap' \in [Keys -> Blocks \cup {Null, None}] /\ optionsMap'[k] = None
        /\ optionsMap'[prefix] \in {Null, None}
        /\ \A j \in Keys \ {k, prefix} : optionsMap'[j] = optionsMap[j]
    BY <1>2, <1>3, <1>4, Parts DEF TypeOK
  <1>9. call'[c] = r /\ TypeOK'
    <2>1. r \in Calls
      BY <1>6 DEF Calls
    <2>2. call'[c] = r /\ call' \in [Conns -> Calls]
      BY <1>7, <2>1, Parts DEF TypeOK
    <2>3. QED BY <1>1, <1>4, <1>8, <2>2, Parts DEF TypeOK, qmgr
  <1>10. StructuresInv'
    <2>1. ASSUME NEW j \in Keys, optionsMap'[j] \in Blocks 
          PROVE  optionsMap'[j] = optionsMap[j] /\ j \in Present(optionsMap)
      <3>1. None \notin Blocks /\ Null \notin Blocks
        BY TablesAssumption
      <3>2. j # k /\ j # prefix
        BY <1>8, <2>1, <3>1
      <3>3. QED BY <1>8, <2>1, <3>1, <3>2, PresentFacts
    <2>2. NoDanglingEntries'
      <3> SUFFICES ASSUME NEW j \in Keys, optionsMap'[j] \in Blocks
                   PROVE  /\ heap'[optionsMap'[j]] # None 
                          /\ \A i \in Keys \ {j} : optionsMap'[i] # optionsMap'[j]
        BY DEF NoDanglingEntries, Present
      <3>1. QED BY <1>4, <2>1, Parts DEF TablesOK, StructuresInv, NoDanglingEntries
    <2>3. \A j \in Keys : IF j[2] = Bare THEN optionsMap'[j] \in {Null, None}
                          ELSE optionsMap'[j] \in Blocks \cup {None}
      BY <1>3, <1>8, Parts DEF TablesOK, StructuresInv
    <2>4. QED BY <2>2, <2>3 DEF StructuresInv
  <1>11. HandleInv(c)'
    BY <1>1, <1>2, <1>6, <1>9, Parts DEF ConnInv, HandleInv, InDisc, qmgr
  <1>12. DiscInv(c)'
    <2>1. ASSUME NEW j \in KeysOf(c), Passed(c, j)' PROVE Forgotten(j)'
      <3>1. n = End \/ Before(j, n)
        BY <1>6, <1>9, <2>1 DEF Passed
      <3>2. j \in Present(optionsMap) => j = k \/ Before(j, k)
        BY <1>1, <3>1, FollowingPasses, PresentFacts DEF n, k
      <3>3. Before(j, k) => Forgotten(j)
        BY <1>1, Parts DEF ConnInv, DiscInv, Passed, k
      <3>4. j = k \/ j = prefix \/ Forgotten(j)
        BY <3>2, <3>3, PresentFacts, KeysOfFacts DEF Forgotten
      <3>5. QED BY <1>3, <1>8, <3>4, KeysOfFacts DEF Forgotten
    <2>2. \A j \in KeysOf(c) : handleMap'[j] = None
      BY <1>1, Parts DEF ConnInv, DiscInv
    <2>3. QED BY <1>6, <1>9, <2>1, <2>2 DEF DiscInv, InDisc
  <1>13. \A j \in Keys : j[1] # c => handleMap'[j] = handleMap[j] /\ optionsMap'[j] = optionsMap[j]
    BY <1>1, <1>2, <1>3, <1>8, KeysOfFacts
  <1>14. QED BY <1>1, <1>2, <1>4, <1>6, <1>7, <1>9, <1>10, <1>11, <1>12, <1>13, LoopStep DEF qmgr

(* The connection is gone, and with it all that was the queue manager's.   *)
LEMMA Disconnects ==
  ASSUME IInv, NEW c \in Conns, DiscOptions(c), call[c].at = End
  PROVE  IInv'
  <1>1. /\ call[c].op = "discOptions"
        /\ call' = [call EXCEPT ![c] = Idle]
        /\ connected' = connected \ {c}
        /\ opened' = [opened EXCEPT ![c] = {}]
        /\ consumers' = [consumers EXCEPT ![c] = [o2 \in Hobjs |-> None]]
        /\ alive' = [alive EXCEPT ![c] = {}]
        /\ props' = [props EXCEPT ![c] = [h \in DOMAIN @ |-> NoProps]]
        /\ UNCHANGED <<optionsMap, heap, handleMap>>
    BY KeyFacts, PresentFacts DEF DiscOptions
  <1>2. TypeOK'
    <2>1. call' \in [Conns -> Calls] /\ alive' \in [Conns -> SUBSET Handles]
      BY <1>1, Parts, IdleFacts DEF TypeOK
    <2>2. opened' \in [Conns -> SUBSET Hobjs]
      BY <1>1, Parts DEF TypeOK
    <2>3. consumers' \in [Conns -> [Hobjs -> Consumers \cup {None}]]
      BY <1>1, Parts DEF TypeOK
    <2>4. props' \in [Conns -> [Handles \cup {AppHandle} -> Properties]]
      BY <1>1, Parts, ContextFacts DEF TypeOK
    <2>5. QED BY <1>1, <2>1, <2>2, <2>3, <2>4, Parts DEF TypeOK
  <1>3. StructuresInv'
    BY <1>1, Parts DEF TablesOK, StructuresInv, NoDanglingEntries, Present
  <1>4. call'[c] = Idle /\ alive'[c] = {} /\ \A d \in Conns \ {c} : call'[d] = call[d] /\ alive'[d] = alive[d]
    BY <1>1, Parts DEF TypeOK
  <1>5. OthersKept(c)
    BY <1>1, <1>4 DEF OthersKept
  <1>6. \A k \in KeysOf(c) : handleMap'[k] = None /\ Forgotten(k)'
    BY <1>1, Parts DEF ConnInv, DiscInv, Passed, Forgotten
  <1>7. HandleInv(c)'
    BY <1>4, <1>6, KeysOfFacts DEF HandleInv
  <1>8. (CopyInv(c) /\ PutInv(c) /\ DiscInv(c) /\ ConnectedInv(c) /\ CallInv(c))'
    BY <1>4, <1>6, IdleFacts 
    DEF CopyInv, PutInv, DiscInv, ConnectedInv, CallInv, InDisc, InFlight
  <1>9. QED BY <1>2, <1>3, <1>5, <1>7, <1>8, StepOfOne DEF ConnInv

-----------------------------------------------------------------------------
(* The theorems.                                                           *)

LEMMA EveryStep ==
  ASSUME IInv, [Next]_vars
  PROVE  IInv'
  <1>1. ASSUME NEW c \in Conns, ExitStep(c) PROVE IInv'
    <2>1. CASE PutReturns(c)
      BY <2>1, PutReturnsStep
    <2>2. CASE GetReturns(c)
      BY <2>2, GetReturnsStep
    <2>3. CASE DiscHandles(c)
      BY <2>3, ErasesHandle, HandlesErased
    <2>4. CASE DiscOptions(c)
      BY <2>4, ErasesOptions, Disconnects
    <2>5. QED BY <1>1, <2>1, <2>2, <2>3, <2>4 DEF ExitStep
  <1>2. ASSUME NEW c \in Conns, AppStep(c) PROVE IInv'
    BY <1>2, ConnectStep, GoOnStep, AppSetsPropertiesStep, OpenStep, CloseStep, PutStep, GetStep,
       RegisterConsumerStep, CallbackStep, DiscStep DEF AppStep
  <1>3. CASE UNCHANGED vars
    <2>1. /\ TypeOK' /\ StructuresInv' /\ (PmoRestored /\ LinkIsThisMessage)'
      BY <1>3 DEF vars, IInv, TypeOK, StructuresInv, NoDanglingEntries, Present, PmoRestored, 
         LinkIsThisMessage
    <2>2. ASSUME NEW c \in Conns PROVE ConnInv(c)'
      BY <1>3 DEF vars, IInv, ConnInv, HandleInv, CopyInv, PutInv, DiscInv, ConnectedInv,
         InDisc, InFlight, Passed, Forgotten
    <2>3. QED BY <2>1, <2>2 DEF IInv
  <1>4. QED BY <1>1, <1>2, <1>3 DEF Next

(* The inductive invariant holds in every reachable state, for all         *)
(* connections, objects, structures, handles, spans and options: what the  *)
(* tables hold for a connection, what its call in flight runs on and what  *)
(* MQDISC has passed fit together.                                         *)
THEOREM Invariance == Spec => []IInv
  BY Initially, EveryStep, PTL DEF Spec

(* The application has its own MQPMO back when MQPUT and MQPUT1 return,    *)
(* whatever was stored under the same key in between.                      *)
THEOREM PmoSafety == Spec => []PmoRestored
  <1>1. IInv => PmoRestored
    BY DEF IInv
  <1>2. QED BY <1>1, Invariance, PTL

(* The tables never lead to freed memory, nor two keys to one structure.   *)
THEOREM TableSafety == Spec => []NoDanglingEntries
  <1>1. IInv => NoDanglingEntries
    BY DEF IInv, StructuresInv
  <1>2. QED BY <1>1, Invariance, PTL

(* One message handle serves all the calls of a connection, and the one    *)
(* in the map exists in the queue manager.                                 *)
THEOREM HandleSafety == Spec => []OneLivingHandle
  <1>1. ASSUME IInv, NEW c \in Conns 
        PROVE  /\ Cardinality(alive[c]) <= 1
               /\ \A k \in Present(handleMap) : k[1] = c => handleMap[k] \in alive[c]
    <2>1. HandleInv(c)
      BY <1>1, Parts DEF ConnInv
    <2>2. alive[c] = {} \/ \E h : alive[c] = {h}
      BY <2>1 DEF HandleInv
    <2>3. Cardinality(alive[c]) <= 1
      <3>1. CASE alive[c] = {}
        BY <3>1, FS_EmptySet
      <3>2. ASSUME NEW h, alive[c] = {h} PROVE Cardinality(alive[c]) = 1
        BY <3>2, FS_Singleton
      <3>3. QED BY <2>2, <3>1, <3>2
    <2>4. ASSUME NEW k \in Present(handleMap), k[1] = c PROVE handleMap[k] \in alive[c]
      <3>1. k \in Keys /\ handleMap[k] # None /\ k = <<k[1], k[2]>>
        BY <2>4, PresentFacts, KeyFacts
      <3>2. k[2] = Star
        BY <2>1, <2>4, <3>1, KeysOfFacts DEF HandleInv
      <3>3. k = <<c, Star>>
        BY <2>4, <3>1, <3>2
      <3>4. QED BY <2>1, <3>1, <3>3 DEF HandleInv
    <2>5. QED BY <2>3, <2>4
  <1>2. IInv => OneLivingHandle
    BY <1>1 DEF OneLivingHandle
  <1>3. QED BY <1>2, Invariance, PTL

(* A call in flight runs on a structure that stays allocated, that the     *)
(* AFTER hook finds, and that no other call runs on.                       *)
THEOREM InFlightSafety == Spec => []InFlightOptionsLive
  <1>1. ASSUME IInv, NEW c \in InFlight, call[c].pp \notin Pmos \cup Gmos
        PROVE  LET b == optionsMap[objectKey(c, call[c].ho)] IN
               /\ b \in Blocks /\ heap[b] # None /\ call[c].pp = Mine(b)
               /\ \A d \in InFlight \ {c} : call[d].pp # call[c].pp
    <2> DEFINE key(e) == objectKey(e, call[e].ho)
               b(e) == optionsMap[key(e)]
    <2>1. ASSUME NEW e \in InFlight 
          PROVE  /\ key(e) \in KeysOf(e) /\ key(e)[1] = e /\ key(e) \in Keys
                 /\ call[e].pp \in Pmos \cup Gmos \/ (b(e) \in Blocks /\ call[e].pp = Mine(b(e)))
      <3>1. \A r \in PutCalls \cup GetCalls : r.ho \in Hobjs \cup {MQHO_UNUSABLE_HOBJ}
        BY DEF PutCalls, GetCalls, Shown
      <3>2. e \in Conns /\ call[e].ho \in Hobjs \cup {MQHO_UNUSABLE_HOBJ}
        BY <1>1, <2>1, <3>1, CallTypes, Parts DEF InFlight
      <3>3. QED BY <1>1, <2>1, <3>2, KeysOfFacts, Parts DEF ConnInv, CopyInv
    <2>2. b(c) \in Blocks /\ call[c].pp = Mine(b(c)) /\ key(c) \in Present(optionsMap)
      BY <1>1, <2>1, TablesAssumption, PresentFacts
    <2>3. heap[b(c)] # None /\ \A k \in Present(optionsMap) \ {key(c)} : optionsMap[k] # b(c)
      BY <1>1, <2>2 DEF IInv, StructuresInv, NoDanglingEntries
    <2>4. ASSUME NEW d \in InFlight \ {c}, call[d].pp = call[c].pp PROVE FALSE
      <3>1. b(d) \in Blocks /\ Mine(b(d)) = Mine(b(c)) /\ key(d) # key(c)
        BY <1>1, <2>1, <2>2, <2>4
      <3>2. b(d) = b(c) /\ key(d) \in Present(optionsMap)
        BY <2>1, <3>1, TablesAssumption, PresentFacts DEF Mine
      <3>3. QED BY <2>3, <3>1, <3>2
    <2>5. QED BY <2>2, <2>3, <2>4
  <1>2. IInv => InFlightOptionsLive
    BY <1>1 DEF InFlightOptionsLive
  <1>3. QED BY <1>2, Invariance, PTL

(* The active span is linked to the message just returned or to none.      *)
THEOREM LinkSafety == Spec => []LinkIsThisMessage
  <1>1. IInv => LinkIsThisMessage
    BY DEF IInv
  <1>2. QED BY <1>1, Invariance, PTL

(* After MQDISC the tables have nothing of the connection but perhaps the  *)
(* empty entry that the look-up has left.                                  *)
THEOREM DiscSafety == Spec => []DiscForgets
  <1>1. IInv => DiscForgets
    BY Parts DEF ConnInv, ConnectedInv, DiscForgets, Forgotten, KeysOf
  <1>2. QED BY <1>1, Invariance, PTL

-----------------------------------------------------------------------------
(* What the steps of MQDISC and MQPUT may not do.                          *)

(* A step of one connection does not touch the call of another.            *)
LEMMA CallOfOne ==
  ASSUME IInv, NEW c \in Conns, ExitStep(c) \/ AppStep(c)
  PROVE  \A d \in Conns \ {c} : call'[d] = call[d]
  <1> SUFFICES UNCHANGED call \/ \E r : call' = [call EXCEPT ![c] = r]
    BY Parts DEF TypeOK
  <1>1. CASE PutReturns(c)
    BY <1>1 DEF PutReturns
  <1>2. CASE GetReturns(c)
    BY <1>2 DEF GetReturns, mqotGetAfter
  <1>3. CASE DiscHandles(c)
    BY <1>3 DEF DiscHandles
  <1>4. CASE DiscOptions(c)
    BY <1>4 DEF DiscOptions
  <1>5. CASE Connect(c) \/ AppSetsProperties(c) \/ Open(c) \/ Close(c)
    BY <1>5 DEF Connect, AppSetsProperties, Open, Close
  <1>6. CASE GoOn(c)
    BY <1>6 DEF GoOn
  <1>7. CASE Put(c)
    BY <1>7 DEF Put, mqotPutBefore
  <1>8. CASE Get(c)
    BY <1>8 DEF Get, mqotGetBefore
  <1>9. CASE RegisterConsumer(c)
    BY <1>9 DEF RegisterConsumer, mqotGetBefore
  <1>10. CASE Callback(c)
    <2>1. ASSUME NEW ho, NEW mh, NEW pp, NEW rec, NEW outcomes, 
                 mqotGetAfter(c, ho, mh, pp, rec, outcomes)
          PROVE  \E r : call' = [call EXCEPT ![c] = r]
      BY <2>1 DEF mqotGetAfter
    <2>2. QED BY <1>10, <2>1 DEF Callback
  <1>11. CASE Disc(c)
    BY <1>11 DEF Disc
  <1>12. QED BY <1>1, <1>2, <1>3, <1>4, <1>5, <1>6, <1>7, <1>8, <1>9, <1>10, <1>11 
             DEF ExitStep, AppStep

(* A thread in MQDISC does nothing else.                                   *)
LEMMA OnlyDisc ==
  ASSUME NEW c \in Conns, InDisc(c), ExitStep(c) \/ AppStep(c)
  PROVE  DiscHandles(c) \/ DiscOptions(c)
  <1>1. call[c] # Idle /\ call[c].op \notin {"put", "get", "putdone", "getdone"}
    BY IdleFacts DEF InDisc
  <1>2. QED BY <1>1 DEF ExitStep, AppStep, PutReturns, GetReturns, Connect, GoOn, 
            AppSetsProperties, Open, Close, Put, Get, RegisterConsumer, Callback, Disc, Ready

(* MQDISC erases nothing under the keys of another connection, not even    *)
(* when it has met one of them.                                            *)
THEOREM DiscKeepsOthers == Spec => DiscOnlyOwn
  <1> DEFINE Step == \A c \in Conns : 
               call[c].op \in {"discHandles", "discOptions"} /\ call'[c] # call[c] =>
                 \A k \in Keys : k[1] # c => 
                   handleMap'[k] = handleMap[k] /\ optionsMap'[k] = optionsMap[k]
  <1>1. ASSUME IInv, [Next]_vars, NEW c \in Conns, InDisc(c), call'[c] # call[c],
               NEW k \in Keys, k[1] # c
        PROVE  handleMap'[k] = handleMap[k] /\ optionsMap'[k] = optionsMap[k]
    <2>1. ExitStep(c) \/ AppStep(c)
      BY <1>1, CallOfOne DEF Next, vars
    <2>2. DiscHandles(c) \/ DiscOptions(c)
      BY <1>1, <2>1, OnlyDisc
    <2>3. CASE DiscHandles(c)
      <3>1. CASE call[c].at = End
        BY <2>3, <3>1, KeyFacts, PresentFacts DEF DiscHandles
      <3>2. CASE call[c].at # End
        <4>1. /\ call[c].at \in Present(handleMap) /\ OwnKey(c, call[c].at)
              /\ handleMap' = [handleMap EXCEPT ![call[c].at] = None] /\ UNCHANGED optionsMap
          BY <2>3, <3>2 DEF DiscHandles
        <4>2. call[c].at \in Keys /\ call[c].at[1] = c
          BY <1>1, <4>1, PresentFacts, OwnKeys, KeysOfFacts
        <4>3. QED BY <1>1, <4>1, <4>2, Parts DEF TypeOK
      <3>3. QED BY <3>1, <3>2
    <2>4. CASE DiscOptions(c)
      <3>1. CASE call[c].at = End
        BY <2>4, <3>1, KeyFacts, PresentFacts DEF DiscOptions
      <3>2. CASE call[c].at # End
        <4>1. PICK o : 
                /\ call[c].at \in Present(optionsMap) /\ OwnKey(c, call[c].at)
                /\ optionsMap' = [optionsMap EXCEPT ![<<call[c].hc, Bare>>] = o, 
                                                    ![call[c].at] = None]
                /\ UNCHANGED handleMap
          BY <2>4, <3>2 DEF DiscOptions
        <4>2. call[c].at \in Keys /\ call[c].at[1] = c /\ call[c].hc = c
          BY <1>1, <4>1, PresentFacts, OwnKeys, KeysOfFacts
        <4>3. k # call[c].at /\ k # <<call[c].hc, Bare>>
          BY <1>1, <4>2
        <4>4. QED BY <1>1, <4>1, <4>3, Parts DEF TypeOK
      <3>3. QED BY <3>1, <3>2
    <2>5. QED BY <2>2, <2>3, <2>4
  <1>2. IInv /\ [Next]_vars => [Step]_vars
    BY <1>1 DEF InDisc
  <1>3. QED BY <1>2, Invariance, PTL DEF Spec, DiscOnlyOwn

(* Only MQPUT begins a put.                                                *)
LEMMA OnlyPut ==
  ASSUME IInv, NEW c \in Conns, ExitStep(c) \/ AppStep(c), call'[c].op = "put", call[c].op # "put"
  PROVE  Put(c)
  <1>1. ~PutReturns(c)
    BY DEF PutReturns
  <1>2. ~GetReturns(c) /\ ~Get(c) /\ ~RegisterConsumer(c) /\ ~Callback(c)
    BY GetReturnsStep, GetStep, RegisterConsumerStep, CallbackStep
  <1>3. ASSUME DiscHandles(c) \/ DiscOptions(c) PROVE FALSE
    <2>1. InDisc(c) /\ call[c] \in DiscCalls
      BY <1>3, CallTypes, Parts DEF DiscHandles, DiscOptions, InDisc
    <2>2. \A n : [call[c] EXCEPT !.at = n].op # "put"
      BY <2>1 DEF DiscCalls
    <2>3. \A n : [call[c] EXCEPT !.op = "discOptions", !.at = n].op # "put"
      BY <2>1 DEF DiscCalls
    <2>4. \/ \E n : call' = [call EXCEPT ![c] = [call[c] EXCEPT !.at = n]]
          \/ \E n : call' = [call EXCEPT ![c] = [call[c] EXCEPT !.op = "discOptions", !.at = n]]
          \/ call' = [call EXCEPT ![c] = Idle]
      BY <1>3 DEF DiscHandles, DiscOptions
    <2>5. QED BY <2>2, <2>3, <2>4, IdleFacts, Parts DEF TypeOK
  <1>4. ~Connect(c) /\ ~AppSetsProperties(c) /\ ~Open(c) /\ ~Close(c)
    BY DEF Connect, AppSetsProperties, Open, Close
  <1>5. ~GoOn(c) /\ ~Disc(c)
    BY IdleFacts, Parts DEF GoOn, Disc, TypeOK
  <1>6. QED BY <1>1, <1>2, <1>3, <1>4, <1>5 DEF ExitStep, AppStep

(* What a NewMsgHandle holds in the two properties before MQPUT it holds   *)
(* afterwards.                                                             *)
THEOREM PutKeepsNewHandle == Spec => NewHandleKept
  <1> DEFINE Step == \A c \in Conns : 
               call'[c].op = "put" /\ call[c].op # "put" /\ call'[c].kind = "new" =>
                 \A p \in {"parent", "state"} : 
                   props[c][AppHandle][p] # None => 
                     props'[c][AppHandle][p] = props[c][AppHandle][p]
  <1>1. ASSUME IInv, [Next]_vars, NEW c \in Conns, call'[c].op = "put", call[c].op # "put", 
               call'[c].kind = "new", NEW p \in {"parent", "state"}, 
               props[c][AppHandle][p] # None
        PROVE  props'[c][AppHandle][p] = props[c][AppHandle][p]
    <2>1. Put(c)
      BY <1>1, CallOfOne, OnlyPut DEF Next, vars
    <2>2. PICK ho \in PutObjects(c), pmo \in Pmos, kind \in PmoKinds, rfh2 \in Rfh2Kinds, 
               span \in Spans \cup {None} : 
            \E mho : mqotPutBefore(c, ho, pmo, kind, rfh2, span, mho)
      BY <2>1 DEF Put
    <2>3. PICK mho : mqotPutBefore(c, ho, pmo, kind, rfh2, span, mho)
      BY <2>2
    <2>4. kind = "new"
      BY <1>1, <2>3, Parts DEF mqotPutBefore, TypeOK
    <2> DEFINE skip == HandleSkips(c, kind, mho) \cup Rfh2Skips(rfh2)
    <2>5. props' = [props EXCEPT ![c][AppHandle] = WithSpan(props[c][AppHandle], span, skip)]
      BY <2>3, <2>4 DEF mqotPutBefore
    <2>6. p \in skip
      BY <1>1, <2>4 DEF HandleSkips, propsContain
    <2> HIDE DEF skip
    <2>7. WithSpan(props[c][AppHandle], span, skip)[p] = props[c][AppHandle][p]
      BY <2>6 DEF WithSpan
    <2>8. QED BY <2>5, <2>7, Parts DEF TypeOK
  <1>2. IInv /\ [Next]_vars => [Step]_vars
    BY <1>1
  <1>3. QED BY <1>2, Invariance, PTL DEF Spec, NewHandleKept
=============================================================================
