--------------------------- MODULE LabelMapProofs ---------------------------
(***************************************************************************)
(* Proofs about the lists of amqsxlbl, for any files, definitions,         *)
(* channels and number of blocks: what readConfigFile makes of a file,     *)
(* what a walk along the list comes to, which label it finds, and that     *)
(* every call keeps the lists of all channels.                             *)
(*                                                                         *)
(* pMapList and readConfigFile are recursive functions.  Each lemma about  *)
(* one of them looks at the smallest number for which it would be wrong.   *)
(***************************************************************************)
EXTENDS LabelMap, NumberLemmas, FiniteSetTheorems

-----------------------------------------------------------------------------
(* The heap.                                                               *)

LEMMA BlockFacts ==
  MaxBlock \in Nat /\ NULL \notin Blocks /\ Blocks \in SUBSET Nat /\ IsFiniteSet(Blocks)
  <1>1. MaxBlock \in Nat /\ NULL \notin Blocks /\ Blocks \in SUBSET Nat
    BY ChannelCallsAssumption DEF NULL, Blocks
  <1>2. IsFiniteSet(Blocks)
    BY FS_Interval, ChannelCallsAssumption DEF Blocks
  <1>3. QED BY <1>1, <1>2

(* malloc returns a block of h that is free, or none if there is none.     *)
LEMMA MallocFacts ==
  ASSUME NEW h
  PROVE  \/ malloc(h) = NULL /\ \A b \in Blocks : h[b] # NoBlock
         \/ malloc(h) \in Blocks /\ h[malloc(h)] = NoBlock
  <1> DEFINE free == {b \in Blocks : h[b] = NoBlock}
  <1>1. malloc(h) = IF free = {} THEN NULL ELSE Min(free)
    BY DEF malloc
  <1>2. free \in SUBSET Nat
    BY BlockFacts
  <1>3. free # {} => Min(free) \in free
    BY <1>2, MinFacts
  <1>4. QED BY <1>1, <1>3

LEMMA BlocksOfFacts ==
  ASSUME NEW c
  PROVE  /\ \A b : b \in BlocksOf(c) <=> b \in Blocks /\ heap[b] # NoBlock /\ heap[b].of = c
         /\ IsFiniteSet(BlocksOf(c)) /\ Cardinality(BlocksOf(c)) \in Nat
         /\ BlocksOf(c) \in SUBSET Live
  <1>1. \A b : b \in BlocksOf(c) <=> b \in Blocks /\ heap[b] # NoBlock /\ heap[b].of = c
    BY DEF BlocksOf, Live
  <1>2. IsFiniteSet(BlocksOf(c))
    BY <1>1, BlockFacts, FS_Subset
  <1>3. Cardinality(BlocksOf(c)) \in Nat
    BY <1>2, FS_CardinalityType
  <1>4. QED BY <1>1, <1>2, <1>3 DEF BlocksOf

(* What a step leaves alone of the blocks of a channel.                    *)
BlocksKept(d) ==
  \A b \in Blocks : \/ heap'[b] = heap[b]
                    \/ /\ heap[b] = NoBlock \/ heap[b].of # d
                       /\ heap'[b] = NoBlock \/ heap'[b].of # d

LEMMA KeptBlocks ==
  ASSUME NEW d, BlocksKept(d)
  PROVE  BlocksOf(d)' = BlocksOf(d) /\ \A b \in BlocksOf(d) : heap'[b] = heap[b]
  <1>1. \A b \in Blocks : (heap[b] # NoBlock /\ heap[b].of = d) 
                             <=> (heap'[b] # NoBlock /\ heap'[b].of = d)
    BY DEF BlocksKept
  <1>2. BlocksOf(d)' = {b \in Blocks : heap'[b] # NoBlock /\ heap'[b].of = d}
    BY DEF BlocksOf, Live, Blocks
  <1>3. BlocksOf(d) = {b \in Blocks : heap[b] # NoBlock /\ heap[b].of = d}
    BY DEF BlocksOf, Live
  <1>4. BlocksOf(d)' = BlocksOf(d)
    BY <1>1, <1>2, <1>3
  <1>5. \A b \in BlocksOf(d) : heap'[b] = heap[b]
    BY <1>3 DEF BlocksKept
  <1>6. QED BY <1>4, <1>5

-----------------------------------------------------------------------------
(* The walk along a list.                                                  *)

NextAddress(p) == IF p \in Live THEN heap[p].pNextEntry ELSE NULL

(* There is a function such as pMapList is defined to be.                  *)
LEMMA WalkExists ==
  ASSUME NEW c, NEW N \in Nat
  PROVE  \E f : f = [n \in 0..N |-> IF n = 0 THEN ExitUserArea[c] ELSE NextAddress(f[n - 1])]
  <1> DEFINE IsWalk(f, n) == 
               f = [m \in 0..n |-> IF m = 0 THEN ExitUserArea[c] ELSE NextAddress(f[m - 1])]
             None == {n \in Nat : \A f : ~IsWalk(f, n)}
  <1>1. ASSUME None # {} PROVE FALSE
    <2>1. PICK n \in None : \A m \in None : n <= m
      BY <1>1, SmallestNumber
    <2>2. n # 0
      <3>1. IsWalk([m \in 0..0 |-> ExitUserArea[c]], 0)
        OBVIOUS
      <3>2. QED BY <3>1
    <2>3. n - 1 \in Nat /\ n - 1 \notin None
      <3>1. None \in SUBSET Nat
        OBVIOUS
      <3> HIDE DEF None
      <3>2. QED BY <2>1, <2>2, <3>1
    <2>4. PICK g : IsWalk(g, n - 1)
      BY <2>3
    <2> DEFINE f == [m \in 0..n |-> IF m < n THEN g[m] ELSE NextAddress(g[n - 1])]
    <2>5. \A m \in 0..n : f[m] = IF m = 0 THEN ExitUserArea[c] ELSE NextAddress(f[m - 1])
      <3> SUFFICES ASSUME NEW m \in 0..n
                   PROVE  f[m] = IF m = 0 THEN ExitUserArea[c] ELSE NextAddress(f[m - 1])
        OBVIOUS
      <3>1. CASE m = n
        <4>1. f[m] = NextAddress(g[n - 1]) /\ f[m - 1] = g[n - 1]
          BY <2>2, <3>1
        <4>2. QED BY <2>2, <3>1, <4>1
      <3>2. CASE m < n
        <4>1. f[m] = g[m] /\ (m # 0 => f[m - 1] = g[m - 1]) /\ m \in 0..(n - 1)
          BY <3>2
        <4>2. g[m] = IF m = 0 THEN ExitUserArea[c] ELSE NextAddress(g[m - 1])
          BY <2>4, <4>1
        <4>3. QED BY <4>1, <4>2
      <3>3. QED BY <3>1, <3>2
    <2>6. IsWalk(f, n)
      BY <2>5
    <2>7. QED BY <2>1, <2>6
  <1>2. N \notin None
    <2> HIDE DEF None
    <2>1. QED BY <1>1
  <1>3. \E f : IsWalk(f, N)
    <2> HIDE DEF IsWalk
    <2>1. QED BY <1>2
  <1>4. QED BY <1>3

LEMMA WalkFacts ==
  ASSUME NEW c
  PROVE  \A n \in 0..MaxBlock : 
           pMapList(c)[n] = IF n = 0 THEN ExitUserArea[c] ELSE NextAddress(pMapList(c)[n - 1])
  <1> DEFINE IsWalk(f) == f = [n \in 0..MaxBlock |-> 
                 IF n = 0 THEN ExitUserArea[c] ELSE NextAddress(f[n - 1])]
  <1>1. \E f : IsWalk(f)
    BY WalkExists, BlockFacts
  <1>2. pMapList(c) = CHOOSE f : IsWalk(f)
    BY DEF pMapList, NextAddress
  <1>3. IsWalk(pMapList(c))
    BY <1>1, <1>2
  <1>4. QED BY <1>3

-----------------------------------------------------------------------------
(* Lines, and how many entries precede one.                                *)

LEMMA LinesFacts ==
  ASSUME NEW file, NEW n \in Nat
  PROVE  /\ EntriesIn(file, n) \in SUBSET Nat /\ IsFiniteSet(EntriesIn(file, n))
         /\ \A i \in EntriesIn(file, n) : i \in 1..n /\ IsEntry(file[i])
         /\ \A i : Later(EntriesIn(file, n), i) \in SUBSET EntriesIn(file, n)
         /\ EntriesIn(file, 0) = {}
         /\ EntriesIn(file, n + 1) = 
              IF IsEntry(file[n + 1]) THEN EntriesIn(file, n) \cup {n + 1} ELSE EntriesIn(file, n)
  <1>1. 1..n \in SUBSET Nat /\ IsFiniteSet(1..n) /\ 1..(n + 1) = 1..n \cup {n + 1}
    <2>1. IsFiniteSet(1..n)
      BY FS_Interval
    <2>2. 1..(n + 1) = 1..n \cup {n + 1}
      OBVIOUS
    <2>3. QED BY <2>1, <2>2
  <1>2. EntriesIn(file, n) \in SUBSET (1..n) /\ EntriesIn(file, 0) = {}
    BY DEF EntriesIn
  <1>3. IsFiniteSet(EntriesIn(file, n))
    BY <1>1, <1>2, FS_Subset
  <1>4. \A i \in EntriesIn(file, n) : i \in 1..n /\ IsEntry(file[i])
    BY DEF EntriesIn
  <1>5. EntriesIn(file, n + 1) = 
          IF IsEntry(file[n + 1]) THEN EntriesIn(file, n) \cup {n + 1} ELSE EntriesIn(file, n)
    BY <1>1 DEF EntriesIn
  <1>6. QED BY <1>1, <1>2, <1>3, <1>4, <1>5 DEF Later

Rank(lines, j) == Cardinality({i \in lines : i < j})

LEMMA RankFacts ==
  ASSUME NEW lines \in SUBSET Nat, IsFiniteSet(lines)
  PROVE  /\ Cardinality(lines) \in Nat
         /\ \A j \in Nat : Rank(lines, j) \in Nat /\ Rank(lines, j) <= Cardinality(lines)
         /\ \A j \in lines : Rank(lines, j) < Cardinality(lines)
         /\ \A j, k \in lines : j < k => Rank(lines, j) < Rank(lines, k)
         /\ lines # {} => Rank(lines, Min(lines)) = 0
         /\ \A j \in lines : 
              Later(lines, j) # {} => Rank(lines, Min(Later(lines, j))) = Rank(lines, j) + 1
  <1> DEFINE Earlier(j) == {i \in lines : i < j}
  <1>0. \A i \in lines : i \in Nat
    OBVIOUS
  <1>1. Cardinality(lines) \in Nat
    BY FS_CardinalityType
  <1>2. \A j : /\ IsFiniteSet(Earlier(j)) /\ Rank(lines, j) \in Nat 
               /\ Rank(lines, j) = Cardinality(Earlier(j)) /\ Rank(lines, j) <= Cardinality(lines)
    <2> TAKE j
    <2>1. Earlier(j) \in SUBSET lines
      OBVIOUS
    <2>2. IsFiniteSet(Earlier(j)) /\ Cardinality(Earlier(j)) <= Cardinality(lines)
      BY <2>1, FS_Subset
    <2>3. Cardinality(Earlier(j)) \in Nat
      BY <2>2, FS_CardinalityType
    <2>4. QED BY <2>2, <2>3 DEF Rank
  <1>3. \A j \in lines, S \in SUBSET lines : 
          Earlier(j) \cup {j} \in SUBSET S /\ IsFiniteSet(S) => Rank(lines, j) < Cardinality(S)
    <2> SUFFICES ASSUME NEW j \in lines, NEW S \in SUBSET lines, 
                        Earlier(j) \cup {j} \in SUBSET S, IsFiniteSet(S)
                 PROVE  Rank(lines, j) < Cardinality(S)
      OBVIOUS
    <2>1. j \notin Earlier(j)
      OBVIOUS
    <2>2. Cardinality(Earlier(j) \cup {j}) = Cardinality(Earlier(j)) + 1
      BY <1>2, <2>1, FS_AddElement
    <2>3. Cardinality(Earlier(j) \cup {j}) <= Cardinality(S) /\ Cardinality(S) \in Nat
      BY FS_Subset, FS_CardinalityType
    <2>4. QED BY <1>2, <2>2, <2>3
  <1>4. \A j \in lines : Rank(lines, j) < Cardinality(lines)
    BY <1>3
  <1>5. \A j, k \in lines : j < k => Rank(lines, j) < Rank(lines, k)
    <2> SUFFICES ASSUME NEW j \in lines, NEW k \in lines, j < k
                 PROVE  Rank(lines, j) < Rank(lines, k)
      OBVIOUS
    <2>1. Earlier(j) \cup {j} \in SUBSET Earlier(k) /\ Earlier(k) \in SUBSET lines
      <3>1. \A i \in lines : i < j => i < k
        BY <1>0
      <3>2. QED BY <3>1
    <2> HIDE DEF Earlier
    <2>2. QED BY <1>2, <1>3, <2>1
  <1>6. lines # {} => Rank(lines, Min(lines)) = 0
    <2> SUFFICES ASSUME lines # {} PROVE Rank(lines, Min(lines)) = 0
      OBVIOUS
    <2> DEFINE m == Min(lines)
    <2>1. m \in lines /\ \A i \in lines : m <= i
      BY MinFacts
    <2> HIDE DEF m
    <2>2. \A i \in lines : ~(i < m)
      BY <1>0, <2>1
    <2>3. Earlier(m) = {}
      BY <2>2
    <2>4. QED BY <1>2, <2>3, FS_EmptySet DEF m
  <1>7. \A j \in lines : 
          Later(lines, j) # {} => Rank(lines, Min(Later(lines, j))) = Rank(lines, j) + 1
    <2> SUFFICES ASSUME NEW j \in lines, Later(lines, j) # {}
                 PROVE  Rank(lines, Min(Later(lines, j))) = Rank(lines, j) + 1
      OBVIOUS
    <2> DEFINE k == Min(Later(lines, j))
    <2>1. Later(lines, j) \in SUBSET Nat
      BY DEF Later
    <2>2. k \in Later(lines, j) /\ \A i \in Later(lines, j) : k <= i
      BY <2>1, MinFacts
    <2> HIDE DEF k
    <2>3. Earlier(k) = Earlier(j) \cup {j} /\ j \notin Earlier(j)
      <3>1. k \in lines /\ j < k /\ j \in lines /\ \A i \in lines : i > j => k <= i
        BY <2>2 DEF Later
      <3>2. \A i \in lines : i < k <=> i < j \/ i = j
        BY <1>0, <3>1
      <3>3. \A i : i \in Earlier(k) <=> i \in Earlier(j) \cup {j}
        BY <3>2
      <3>4. j \notin Earlier(j)
        BY <1>0
      <3>5. QED BY <3>3, <3>4
    <2>4. Cardinality(Earlier(j) \cup {j}) = Cardinality(Earlier(j)) + 1
      BY <1>2, <2>3, FS_AddElement
    <2>5. QED BY <1>2, <2>3, <2>4 DEF k
  <1>8. QED BY <1>1, <1>2, <1>4, <1>5, <1>6, <1>7

-----------------------------------------------------------------------------
(* A walk along a list comes to the entries of all its lines, in order.    *)

LEMMA ListFacts ==
  ASSUME NEW c, NEW n \in Nat, NEW block, ListInv(c, n, block),
         NEW lines, lines = EntriesIn(asRead[c], n)
  PROVE  /\ lines \in SUBSET Nat /\ IsFiniteSet(lines)
         /\ \A j \in lines : 
              block[j] \in Live /\ block[j] \in Blocks /\ block[j] # NULL
         /\ Cardinality(lines) <= MaxBlock /\ Cardinality(lines) = Cardinality(BlocksOf(c))
  <1>1. lines \in SUBSET Nat /\ IsFiniteSet(lines)
    BY LinesFacts
  <1>2. \A j \in lines : /\ block[j] \in BlocksOf(c)
                         /\ block[j] \in Live /\ block[j] \in Blocks /\ block[j] # NULL
    BY BlocksOfFacts, BlockFacts DEF ListInv, Live
  <1>3. Cardinality(lines) = Cardinality(BlocksOf(c))
    <2> DEFINE f == [j \in lines |-> block[j]]
    <2>1. IsFiniteSet(BlocksOf(c)) /\ Cardinality(BlocksOf(c)) \in Nat
      BY BlocksOfFacts
    <2>2. Cardinality(lines) \in Nat
      BY <1>1, FS_CardinalityType
    <2>3. f \in [lines -> BlocksOf(c)] /\ \A i, j \in lines : f[i] = f[j] => i = j
      BY <1>2 DEF ListInv
    <2>4. \A b \in BlocksOf(c) : \E j \in lines : f[j] = b
      BY DEF ListInv
    <2> DEFINE g == [b \in BlocksOf(c) |-> CHOOSE j \in lines : f[j] = b]
    <2>5. g \in [BlocksOf(c) -> lines] /\ \A b, d \in BlocksOf(c) : g[b] = g[d] => b = d
      <3> HIDE DEF f
      <3>1. \A b \in BlocksOf(c) : g[b] \in lines /\ f[g[b]] = b
        BY <2>4
      <3>2. QED BY <3>1
    <2> HIDE DEF f, g
    <2>6. ~(Cardinality(BlocksOf(c)) < Cardinality(lines))
      <3> SUFFICES ASSUME Cardinality(BlocksOf(c)) < Cardinality(lines) PROVE FALSE
        OBVIOUS
      <3>1. \E i, j \in lines : i # j /\ f[i] = f[j]
        BY <1>1, <2>1, <2>3, FS_PigeonHole
      <3>2. QED BY <2>3, <3>1
    <2>7. ~(Cardinality(lines) < Cardinality(BlocksOf(c)))
      <3> SUFFICES ASSUME Cardinality(lines) < Cardinality(BlocksOf(c)) PROVE FALSE
        OBVIOUS
      <3>1. \E b, d \in BlocksOf(c) : b # d /\ g[b] = g[d]
        BY <1>1, <2>1, <2>5, FS_PigeonHole
      <3>2. QED BY <2>5, <3>1
    <2>8. QED BY <2>1, <2>2, <2>6, <2>7
  <1>4. Cardinality(BlocksOf(c)) <= MaxBlock
    <2>1. BlocksOf(c) \in SUBSET Blocks
      BY BlocksOfFacts
    <2>2. Cardinality(BlocksOf(c)) <= Cardinality(Blocks)
      BY <2>1, BlockFacts, FS_Subset
    <2>3. Cardinality(Blocks) = MaxBlock
      BY BlockFacts, FS_Interval DEF Blocks
    <2>4. QED BY <2>2, <2>3
  <1>5. QED BY <1>1, <1>2, <1>3, <1>4

LEMMA WalkAlong ==
  ASSUME NEW c, NEW n \in Nat, NEW block, ListInv(c, n, block),
         NEW lines, lines = EntriesIn(asRead[c], n)
  PROVE  \A k \in 0..MaxBlock : 
           \/ \E j \in lines : Rank(lines, j) = k /\ pMapList(c)[k] = block[j]
           \/ pMapList(c)[k] = NULL /\ \A j \in lines : Rank(lines, j) < k
  <1> DEFINE at == pMapList(c)
             Right(k) == \/ \E j \in lines : Rank(lines, j) = k /\ at[k] = block[j]
                         \/ at[k] = NULL /\ \A j \in lines : Rank(lines, j) < k
             Wrong == {k \in 0..MaxBlock : ~Right(k)}
  <1>1. /\ lines \in SUBSET Nat /\ IsFiniteSet(lines)
        /\ \A j \in lines : 
              /\ block[j] \in Live /\ block[j] # NULL
              /\ heap[block[j]].pNextEntry = FirstOf(block, Later(lines, j))
    <2>1. lines \in SUBSET Nat /\ IsFiniteSet(lines)
      BY ListFacts
    <2>2. \A j \in lines : block[j] \in Live /\ block[j] # NULL
      BY ListFacts
    <2>3. \A j \in lines : heap[block[j]].pNextEntry = FirstOf(block, Later(lines, j))
      BY DEF ListInv, Entry
    <2>4. QED BY <2>1, <2>2, <2>3
  <1>2. /\ \A j \in lines : Rank(lines, j) \in Nat
        /\ \A j, k \in lines : j < k => Rank(lines, j) < Rank(lines, k)
        /\ lines # {} => Rank(lines, Min(lines)) = 0
        /\ \A j \in lines : 
             Later(lines, j) # {} => Rank(lines, Min(Later(lines, j))) = Rank(lines, j) + 1
    BY <1>1, RankFacts
  <1>3. NULL \notin Live
    BY BlockFacts DEF Live
  <1>4. \A k \in 0..MaxBlock : at[k] = IF k = 0 THEN ExitUserArea[c] ELSE NextAddress(at[k - 1])
    BY WalkFacts
  <1> HIDE DEF at
  <1>5. Right(0)
    <2>1. at[0] = FirstOf(block, lines)
      BY <1>4, BlockFacts DEF ListInv
    <2>2. CASE lines = {}
      BY <2>1, <2>2 DEF FirstOf
    <2>3. CASE lines # {}
      <3>1. Min(lines) \in lines
        BY <1>1, <2>3, MinFacts
      <3>2. QED BY <1>2, <2>1, <2>3, <3>1 DEF FirstOf
    <2>4. QED BY <2>2, <2>3
  <1>6. ASSUME NEW k \in 1..MaxBlock, Right(k - 1)
        PROVE  Right(k)
    <2>1. at[k] = NextAddress(at[k - 1])
      BY <1>4, BlockFacts
    <2>2. CASE at[k - 1] = NULL /\ \A j \in lines : Rank(lines, j) < k - 1
      <3>1. at[k] = NULL
        BY <1>3, <2>1, <2>2 DEF NextAddress
      <3>2. \A j \in lines : Rank(lines, j) < k
        BY <1>2, <2>2
      <3>3. QED BY <3>1, <3>2
    <2>3. CASE \E j \in lines : Rank(lines, j) = k - 1 /\ at[k - 1] = block[j]
      <3>1. PICK j \in lines : Rank(lines, j) = k - 1 /\ at[k - 1] = block[j]
        BY <2>3
      <3>2. at[k] = FirstOf(block, Later(lines, j))
        BY <1>1, <2>1, <3>1 DEF NextAddress
      <3>3. CASE Later(lines, j) = {}
        <4>1. at[k] = NULL
          BY <3>2, <3>3 DEF FirstOf
        <4>2. \A i \in lines : i <= j
          BY <1>1, <3>3 DEF Later
        <4>3. \A i \in lines : Rank(lines, i) <= Rank(lines, j)
          BY <1>1, <1>2, <4>2
        <4>4. \A i \in lines : Rank(lines, i) < k
          BY <1>2, <3>1, <4>3
        <4>5. QED BY <4>1, <4>4
      <3>4. CASE Later(lines, j) # {}
        <4>1. Min(Later(lines, j)) \in lines
          BY <1>1, <3>4, MinFacts DEF Later
        <4>2. Rank(lines, Min(Later(lines, j))) = k
          BY <1>2, <3>1, <3>4
        <4>3. QED BY <3>2, <3>4, <4>1, <4>2 DEF FirstOf
      <3>5. QED BY <3>3, <3>4
    <2>4. QED BY <1>6, <2>2, <2>3
  <1>7. ASSUME Wrong # {} PROVE FALSE
    <2>1. Wrong \in SUBSET Nat /\ Wrong \in SUBSET (0..MaxBlock)
      BY BlockFacts
    <2>2. \A k \in 0..MaxBlock : k \notin Wrong => Right(k)
      OBVIOUS
    <2>3. \A k \in Wrong : ~Right(k)
      OBVIOUS
    <2> HIDE DEF Wrong, Right
    <2>4. PICK k \in Wrong : \A m \in Wrong : k <= m
      BY <1>7, <2>1, SmallestNumber
    <2>5. k # 0
      BY <1>5, <2>3
    <2>6. k - 1 \in 0..MaxBlock /\ k - 1 \notin Wrong /\ k \in 1..MaxBlock
      BY <2>1, <2>4, <2>5, BlockFacts
    <2>7. QED BY <1>6, <2>2, <2>3, <2>4, <2>6
  <1>8. QED BY <1>7 DEF at

LEMMA WalkReaches ==
  ASSUME NEW c, NEW n \in Nat, NEW block, ListInv(c, n, block),
         NEW lines, lines = EntriesIn(asRead[c], n)
  PROVE  /\ \A j \in lines : 
              Rank(lines, j) \in 0..MaxBlock /\ pMapList(c)[Rank(lines, j)] = block[j]
         /\ \A k \in 0..MaxBlock : 
              pMapList(c)[k] = NULL \/ \E j \in lines : Rank(lines, j) = k /\ pMapList(c)[k] = block[j]
         /\ Walked(c) = BlocksOf(c)
  <1>1. /\ lines \in SUBSET Nat /\ IsFiniteSet(lines) /\ Cardinality(lines) <= MaxBlock
        /\ \A j \in lines : block[j] \in Live /\ block[j] # NULL
    BY ListFacts
  <1>2. /\ Cardinality(lines) \in Nat
        /\ \A j \in lines : Rank(lines, j) \in Nat /\ Rank(lines, j) < Cardinality(lines)
        /\ \A j, k \in lines : j < k => Rank(lines, j) < Rank(lines, k)
    BY <1>1, RankFacts
  <1>3. \A k \in 0..MaxBlock : 
           \/ \E j \in lines : Rank(lines, j) = k /\ pMapList(c)[k] = block[j]
           \/ pMapList(c)[k] = NULL /\ \A j \in lines : Rank(lines, j) < k
    BY WalkAlong
  <1>4. ASSUME NEW j \in lines
        PROVE  Rank(lines, j) \in 0..MaxBlock /\ pMapList(c)[Rank(lines, j)] = block[j]
    <2> DEFINE k == Rank(lines, j)
    <2>1. k \in 0..MaxBlock /\ ~(k < k)
      BY <1>1, <1>2, BlockFacts
    <2>2. PICK i \in lines : Rank(lines, i) = k /\ pMapList(c)[k] = block[i]
      BY <1>3, <2>1
    <2>3. i = j
      <3>1. i \in Nat /\ j \in Nat
        BY <1>1
      <3>2. CASE i < j
        BY <1>2, <2>2, <3>2
      <3>3. CASE j < i
        BY <1>2, <2>2, <3>3
      <3>4. QED BY <3>1, <3>2, <3>3
    <2>4. QED BY <2>1, <2>2, <2>3
  <1>5. BlocksOf(c) = {block[j] : j \in lines}
    BY DEF ListInv
  <1>6. Walked(c) = BlocksOf(c)
    <2>1. \A b \in Walked(c) : b \in BlocksOf(c)
      BY <1>3, <1>5 DEF Walked
    <2>2. \A b \in BlocksOf(c) : b \in Walked(c)
      <3> SUFFICES ASSUME NEW j \in lines PROVE block[j] \in Walked(c)
        BY <1>5
      <3> DEFINE k == Rank(lines, j)
      <3>1. k \in 0..MaxBlock /\ pMapList(c)[k] = block[j] /\ block[j] # NULL
        BY <1>1, <1>4
      <3> HIDE DEF k
      <3>2. QED BY <3>1 DEF Walked
    <2>3. QED BY <2>1, <2>2
  <1>7. QED BY <1>3, <1>4, <1>6

(* The label found is that of the first line that matches.                 *)
LEMMA FirstMatchFound ==
  ASSUME NEW c, NEW n \in Nat, NEW block, ListInv(c, n, block), NEW cd
  PROVE  LET lines == EntriesIn(asRead[c], n)
             matching == {j \in lines : Matches(Entry(c, asRead[c][j]), cd)}
         IN evalMapList(c, cd) = IF matching = {} THEN Blank ELSE asRead[c][Min(matching)].label
  <1> DEFINE lines == EntriesIn(asRead[c], n)
             matching == {j \in lines : Matches(Entry(c, asRead[c][j]), cd)}
             at == pMapList(c)
             found == {k \in 0..MaxBlock : at[k] \in Live /\ Matches(heap[at[k]], cd)}
  <1>1. evalMapList(c, cd) = IF found = {} THEN Blank ELSE heap[at[Min(found)]].certificateLabel
    BY DEF evalMapList
  <1>2. /\ lines \in SUBSET Nat /\ IsFiniteSet(lines)
        /\ \A j \in lines : block[j] \in Live
    BY ListFacts
  <1>3. /\ \A j \in lines : Rank(lines, j) \in 0..MaxBlock /\ at[Rank(lines, j)] = block[j]
        /\ \A k \in 0..MaxBlock : 
              at[k] = NULL \/ \E j \in lines : Rank(lines, j) = k /\ at[k] = block[j]
    BY WalkReaches
  <1>4. \A j \in lines : Rank(lines, j) \in Nat
                         /\ \A k \in lines : j < k => Rank(lines, j) < Rank(lines, k)
    BY <1>2, RankFacts
  <1>5. \A j \in lines : /\ heap[block[j]].entryType = Entry(c, asRead[c][j]).entryType
                         /\ heap[block[j]].objectName = Entry(c, asRead[c][j]).objectName
                         /\ heap[block[j]].certificateLabel = asRead[c][j].label
    BY DEF ListInv, Entry
  <1>6. \A j \in lines : Matches(heap[block[j]], cd) <=> j \in matching
    BY <1>5 DEF Matches
  <1>7. NULL \notin Live /\ found \in SUBSET Nat /\ matching \in SUBSET Nat /\ matching \in SUBSET lines
    BY <1>2, BlockFacts DEF Live
  <1> HIDE DEF lines, at
  <1>8. \A k \in found : \E j \in matching : Rank(lines, j) = k /\ at[k] = block[j]
    <2> SUFFICES ASSUME NEW k \in found
                 PROVE  \E j \in matching : Rank(lines, j) = k /\ at[k] = block[j]
      OBVIOUS
    <2>1. k \in 0..MaxBlock /\ at[k] \in Live /\ Matches(heap[at[k]], cd)
      OBVIOUS
    <2>2. PICK j \in lines : Rank(lines, j) = k /\ at[k] = block[j]
      BY <1>3, <1>7, <2>1
    <2>3. j \in matching
      BY <1>6, <2>1, <2>2
    <2>4. QED BY <2>2, <2>3
  <1>9. \A j \in matching : Rank(lines, j) \in found
    BY <1>2, <1>3, <1>6, <1>7
  <1> HIDE DEF matching, found
  <1>10. CASE matching = {}
    <2>1. found = {}
      BY <1>8, <1>10
    <2>2. QED BY <1>1, <1>10, <2>1 DEF lines, matching
  <1>11. CASE matching # {}
    <2> DEFINE m == Min(matching)
    <2>1. m \in matching /\ \A j \in matching : m <= j
      BY <1>7, <1>11, MinFacts
    <2> DEFINE k == Min(found)
    <2>2. found # {}
      BY <1>9, <2>1
    <2>3. k \in found /\ \A i \in found : k <= i
      BY <1>7, <2>2, MinFacts
    <2> HIDE DEF m, k
    <2>4. PICK j \in matching : Rank(lines, j) = k /\ at[k] = block[j]
      BY <1>8, <2>3
    <2>5. j = m
      <3>1. m <= j /\ m \in Nat /\ j \in Nat /\ m \in lines /\ j \in lines
        BY <1>7, <2>1
      <3>2. k <= Rank(lines, m) /\ k \in Nat /\ Rank(lines, m) \in Nat
        BY <1>4, <1>7, <1>9, <2>1, <2>3
      <3>3. CASE m < j
        <4>1. Rank(lines, m) < Rank(lines, j)
          BY <1>4, <3>1, <3>3
        <4>2. QED BY <2>4, <3>2, <4>1
      <3>4. QED BY <3>1, <3>3
    <2>6. heap[at[k]].certificateLabel = asRead[c][m].label
      BY <1>5, <1>7, <2>4, <2>5
    <2>7. QED BY <1>1, <1>11, <2>2, <2>6 DEF lines, matching, m, k
  <1>12. QED BY <1>10, <1>11

-----------------------------------------------------------------------------
(* Reading a file into a list.                                             *)

(* Blocks for lines up to n, and one more line and a block for it.         *)
Grown(block, n, new) == [i \in DOMAIN block \cup {n + 1} |-> IF i = n + 1 THEN new ELSE block[i]]

LEMMA FirstOfGrown ==
  ASSUME NEW n \in Nat, NEW lines \in SUBSET (1..n), NEW block, lines \in SUBSET DOMAIN block, NEW new
  PROVE  FirstOf(Grown(block, n, new), lines \cup {n + 1}) 
            = IF lines = {} THEN new ELSE FirstOf(block, lines)
  <1> DEFINE more == lines \cup {n + 1}
  <1>1. more \in SUBSET Nat /\ lines \in SUBSET Nat /\ more # {} /\ n + 1 \notin lines
    OBVIOUS
  <1> DEFINE first == Min(more)
  <1>2. first \in more /\ \A i \in more : first <= i
    BY <1>1, MinFacts
  <1>3. FirstOf(Grown(block, n, new), more) = Grown(block, n, new)[first]
    BY <1>1 DEF FirstOf
  <1>4. CASE lines = {}
    <2>1. first = n + 1
      BY <1>2, <1>4
    <2> HIDE DEF first, more
    <2>2. Grown(block, n, new)[first] = new
      BY <2>1 DEF Grown
    <2>3. QED BY <1>3, <1>4, <2>2 DEF more
  <1>5. CASE lines # {}
    <2> DEFINE old == Min(lines)
    <2>1. old \in lines /\ \A i \in lines : old <= i
      BY <1>1, <1>5, MinFacts
    <2>2. FirstOf(block, lines) = block[old]
      BY <1>5 DEF FirstOf
    <2> HIDE DEF first, old
    <2>3. first = old
      BY <1>1, <1>2, <2>1
    <2> HIDE DEF more
    <2>4. Grown(block, n, new)[old] = block[old]
      BY <2>1 DEF Grown
    <2>5. QED BY <1>3, <1>5, <2>2, <2>3, <2>4 DEF more
  <1>6. QED BY <1>4, <1>5

(* A list whose entries are those of the first n lines, and m of the lines *)
(* have been read: another only if there was no memory for the next.       *)
ListHas(c, list, n, block) ==
  LET lines == EntriesIn(configFile, n) IN
  /\ \A i \in lines : block[i] \in Blocks /\ heap[block[i]] = NoBlock
  /\ \A i, j \in lines : block[i] = block[j] => i = j
  /\ \A i \in lines : 
       list.heap[block[i]] = [Entry(c, configFile[i]) EXCEPT !.pNextEntry = FirstOf(block, Later(lines, i))]
  /\ \A b \in Blocks : list.heap[b] = heap[b] \/ \E i \in lines : b = block[i]
  /\ list.head = FirstOf(block, lines)
  /\ ~list.lost => \/ lines = {} /\ list.current = NULL
                   \/ \E i \in lines : list.current = block[i] /\ Later(lines, i) = {}

ListOfLines(c, list, m) ==
  /\ list = [heap |-> list.heap, head |-> list.head, current |-> list.current, lost |-> list.lost]
  /\ DOMAIN list.heap = Blocks /\ list.lost \in BOOLEAN
  /\ \E n \in 0..m : \E block : 
       /\ block = [i \in EntriesIn(configFile, n) |-> block[i]]
       /\ ListHas(c, list, n, block)
       /\ ~list.lost => n = m
       /\ list.lost => /\ n < m /\ IsEntry(configFile[n + 1])
                       /\ \A b \in Blocks : list.heap[b] # NoBlock

LEMMA LineAdded ==
  ASSUME NEW c, NEW list, NEW m \in Nat, ListOfLines(c, list, m)
  PROVE  ListOfLines(c, AddLine(c, list, configFile[m + 1]), m + 1)
  <1> DEFINE line == configFile[m + 1]
             new == malloc(list.heap)
             h == list.heap
             next == AddLine(c, list, line)
  <1>1. /\ list = [heap |-> h, head |-> list.head, current |-> list.current, lost |-> list.lost]
        /\ DOMAIN h = Blocks /\ list.lost \in BOOLEAN
    BY DEF ListOfLines
  <1>2a. PICK n \in 0..m : \E block : 
          /\ block = [i \in EntriesIn(configFile, n) |-> block[i]]
          /\ ListHas(c, list, n, block)
          /\ ~list.lost => n = m
          /\ list.lost => /\ n < m /\ IsEntry(configFile[n + 1])
                          /\ \A b \in Blocks : list.heap[b] # NoBlock
    BY DEF ListOfLines
  <1>2. PICK block : 
          /\ block = [i \in EntriesIn(configFile, n) |-> block[i]]
          /\ ListHas(c, list, n, block)
          /\ ~list.lost => n = m
          /\ list.lost => /\ n < m /\ IsEntry(configFile[n + 1])
                          /\ \A b \in Blocks : list.heap[b] # NoBlock
    BY <1>2a
  <1>3. CASE list.lost
    <2>1. next = list
      BY <1>3 DEF AddLine
    <2>2. n \in 0..(m + 1) /\ n < m + 1
      BY <1>2
    <2>3. QED BY <1>1, <1>2, <1>3, <2>1, <2>2 DEF ListOfLines
  <1>4. CASE ~list.lost /\ ~IsEntry(line)
    <2>1. next = list /\ n = m
      BY <1>2, <1>4 DEF AddLine
    <2>2. EntriesIn(configFile, m + 1) = EntriesIn(configFile, m)
      BY <1>4, LinesFacts
    <2>3. ListHas(c, list, m + 1, block)
      BY <1>2, <2>1, <2>2 DEF ListHas
    <2>4. m + 1 \in 0..(m + 1)
      OBVIOUS
    <2>5. QED BY <1>1, <1>2, <1>4, <2>1, <2>2, <2>3, <2>4 DEF ListOfLines
  <1>5. CASE ~list.lost /\ IsEntry(line)
    <2> DEFINE lines == EntriesIn(configFile, m)
               more == EntriesIn(configFile, m + 1)
               longer == Grown(block, m, new)
               grown == [h EXCEPT ![new] = Entry(c, line)]
    <2>1. n = m /\ block = [i \in lines |-> block[i]] /\ ListHas(c, list, m, block)
      BY <1>2, <1>5
    <2>2. more = lines \cup {m + 1} /\ lines \in SUBSET (1..m) /\ m + 1 \notin lines
      <3>1. more = lines \cup {m + 1}
        BY <1>5, LinesFacts
      <3>2. lines \in SUBSET (1..m)
        BY LinesFacts
      <3>3. QED BY <3>1, <3>2
    <2>3. /\ \A i \in lines : block[i] \in Blocks /\ heap[block[i]] = NoBlock
          /\ \A i, j \in lines : block[i] = block[j] => i = j
          /\ \A i \in lines : h[block[i]] = 
               [Entry(c, configFile[i]) EXCEPT !.pNextEntry = FirstOf(block, Later(lines, i))]
          /\ \A b \in Blocks : h[b] = heap[b] \/ \E i \in lines : b = block[i]
          /\ list.head = FirstOf(block, lines)
          /\ \/ lines = {} /\ list.current = NULL
             \/ \E i \in lines : list.current = block[i] /\ Later(lines, i) = {}
      BY <1>5, <2>1 DEF ListHas
    <2>4. list.head # NULL => list.current # NULL /\ lines # {}
      BY <2>3, BlockFacts DEF FirstOf
    <2>5. CASE new = NULL
      <3>1. next = [list EXCEPT !.lost = TRUE]
        BY <1>5, <2>5 DEF AddLine
      <3>2. /\ next.heap = h /\ next.head = list.head /\ next.current = list.current /\ next.lost
            /\ next = [heap |-> h, head |-> list.head, current |-> list.current, lost |-> TRUE]
        BY <1>1, <3>1
      <3>3. \A b \in Blocks : h[b] # NoBlock
        BY <2>5, MallocFacts, BlockFacts
      <3> HIDE DEF next
      <3>4. ListHas(c, next, m, block)
        BY <2>1, <3>2 DEF ListHas
      <3>5. m \in 0..(m + 1) /\ m < m + 1
        OBVIOUS
      <3>6. ListOfLines(c, next, m + 1)
        BY <1>1, <1>5, <2>1, <3>2, <3>3, <3>4, <3>5 DEF ListOfLines
      <3>7. QED BY <3>6 DEF next
    <2>6. CASE new # NULL
      <3>1. new \in Blocks /\ h[new] = NoBlock
        BY <2>6, MallocFacts
      <3>2. heap[new] = NoBlock /\ \A i \in lines : block[i] # new
        <4>1. \A i \in lines : h[block[i]].kind = "entry"
          <5> SUFFICES ASSUME NEW i \in lines PROVE h[block[i]].kind = "entry"
            OBVIOUS
          <5>1. h[block[i]] = [Entry(c, configFile[i]) EXCEPT !.pNextEntry = FirstOf(block, Later(lines, i))]
            BY <2>3
          <5> HIDE DEF h, lines
          <5>2. QED BY <5>1 DEF Entry
        <4>2. h[new].kind # "entry"
          BY <3>1 DEF NoBlock
        <4>3. QED BY <2>3, <3>1, <4>1, <4>2
      <3>3. /\ next.heap = (IF lines = {} THEN grown
                            ELSE [grown EXCEPT ![list.current].pNextEntry = new])
            /\ next.head = (IF lines = {} THEN new ELSE list.head)
            /\ next.current = new /\ next.lost = FALSE
            /\ next = [heap |-> next.heap, head |-> next.head, current |-> new, lost |-> FALSE]
        <4>1. CASE lines = {}
          <5>1. list.head = NULL
            BY <2>4, <4>1
          <5>2. next = [list EXCEPT !.heap = grown, !.head = new, !.current = new]
            BY <1>5, <2>6, <5>1 DEF AddLine
          <5> HIDE DEF next, grown, new, h
          <5>3. QED BY <1>1, <1>5, <4>1, <5>2 DEF h
        <4>2. CASE lines # {}
          <5>1. list.head # NULL
            <6>1. Min(lines) \in lines
              <7>1. lines \in SUBSET Nat
                BY <2>2
              <7>2. QED BY <4>2, <7>1, MinFacts
            <6>2. QED BY <2>3, <4>2, <6>1, BlockFacts DEF FirstOf
          <5>2. next = [list EXCEPT !.heap = [grown EXCEPT ![list.current].pNextEntry = new], 
                                    !.current = new]
            BY <1>5, <2>4, <2>6, <5>1 DEF AddLine
          <5> HIDE DEF next, grown, new, h
          <5>3. QED BY <1>1, <1>5, <4>2, <5>2 DEF h
        <4>3. QED BY <4>1, <4>2
      <3>4. DOMAIN longer = more /\ longer[m + 1] = new /\ \A i \in lines : longer[i] = block[i]
        <4>1. DOMAIN block = lines
          BY <2>1
        <4> HIDE DEF lines, more, new
        <4>2. QED BY <2>2, <4>1 DEF Grown
      <3>5. \A i \in lines : /\ Later(more, i) = Later(lines, i) \cup {m + 1}
                             /\ FirstOf(longer, Later(more, i)) = 
                                  IF Later(lines, i) = {} THEN new ELSE FirstOf(block, Later(lines, i))
        <4> SUFFICES ASSUME NEW i \in lines
                     PROVE  /\ Later(more, i) = Later(lines, i) \cup {m + 1}
                            /\ FirstOf(longer, Later(more, i)) = 
                                  IF Later(lines, i) = {} THEN new ELSE FirstOf(block, Later(lines, i))
          OBVIOUS
        <4>1. Later(more, i) = Later(lines, i) \cup {m + 1}
          BY <2>2 DEF Later
        <4>2. Later(lines, i) \in SUBSET (1..m) /\ Later(lines, i) \in SUBSET DOMAIN block
          <5>1. DOMAIN block = lines
            BY <2>1
          <5>2. QED BY <2>2, <5>1 DEF Later
        <4> HIDE DEF lines, more, new
        <4>3. QED BY <4>1, <4>2, FirstOfGrown
      <3>6. Later(more, m + 1) = {} /\ FirstOf(longer, Later(more, m + 1)) = NULL
        <4>1. Later(more, m + 1) = {}
          BY <2>2 DEF Later
        <4>2. QED BY <4>1 DEF FirstOf
      <3>7. FirstOf(longer, more) = IF lines = {} THEN new ELSE FirstOf(block, lines)
        <4>1. lines \in SUBSET DOMAIN block
          BY <2>1
        <4> HIDE DEF lines, more, new
        <4>2. QED BY <2>2, <4>1, FirstOfGrown
      <3> HIDE DEF next, longer
      <3>8. \A i \in more : next.heap[longer[i]] = 
               [Entry(c, configFile[i]) EXCEPT !.pNextEntry = FirstOf(longer, Later(more, i))]
        <4>1. next.heap[new] = [Entry(c, line) EXCEPT !.pNextEntry = NULL]
          <5>1. grown[new] = Entry(c, line) /\ [Entry(c, line) EXCEPT !.pNextEntry = NULL] = Entry(c, line)
            BY <1>1, <3>1 DEF Entry
          <5>2. lines # {} => list.current # new
            BY <2>3, <3>2
          <5>3. DOMAIN grown = Blocks
            BY <1>1
          <5> HIDE DEF grown, new
          <5>4. QED BY <3>1, <3>3, <5>1, <5>2, <5>3
        <4>2. ASSUME NEW i \in lines
              PROVE  next.heap[block[i]] = 
                 [Entry(c, configFile[i]) EXCEPT !.pNextEntry = FirstOf(longer, Later(more, i))]
          <5>1. block[i] \in Blocks /\ block[i] # new /\ grown[block[i]] = h[block[i]] 
                /\ DOMAIN grown = Blocks
            BY <1>1, <2>3, <3>2
          <5>2. h[block[i]] = [Entry(c, configFile[i]) EXCEPT !.pNextEntry = FirstOf(block, Later(lines, i))]
            BY <2>3
          <5>3. PICK k \in lines : list.current = block[k] /\ Later(lines, k) = {}
            BY <2>3
          <5>4. next.heap = [grown EXCEPT ![block[k]].pNextEntry = new]
            BY <3>3, <5>3
          <5>5. CASE i = k
            <6>1. FirstOf(longer, Later(more, i)) = new
              BY <3>5, <5>3, <5>5
            <6>2. next.heap[block[i]] = [h[block[i]] EXCEPT !.pNextEntry = new]
              <7> HIDE DEF grown, new, h
              <7>1. QED BY <5>1, <5>4, <5>5
            <6> HIDE DEF new, lines, more, h
            <6>3. QED BY <5>2, <6>1, <6>2 DEF Entry
          <5>6. CASE i # k
            <6>1. block[i] # block[k]
              BY <2>3, <5>6
            <6>2. Later(lines, i) # {}
              <7>1. i \in Nat /\ k \in Nat /\ ~(i > k)
                BY <2>2, <5>3 DEF Later
              <7>2. k \in Later(lines, i)
                BY <5>6, <7>1 DEF Later
              <7>3. QED BY <7>2
            <6>3. FirstOf(longer, Later(more, i)) = FirstOf(block, Later(lines, i))
              BY <3>5, <6>2
            <6>4. next.heap[block[i]] = h[block[i]]
              <7> HIDE DEF grown, new, h
              <7>1. QED BY <5>1, <5>4, <6>1
            <6>5. QED BY <5>2, <6>3, <6>4
          <5>7. QED BY <5>5, <5>6
        <4>3. QED BY <2>2, <3>4, <3>6, <4>1, <4>2
      <3>9. /\ DOMAIN next.heap = Blocks
            /\ \A b \in Blocks : next.heap[b] = heap[b] \/ \E i \in more : b = longer[i]
        <4>1. DOMAIN next.heap = Blocks
          BY <1>1, <3>3
        <4>2. ASSUME NEW b \in Blocks, \A i \in more : b # longer[i]
              PROVE  next.heap[b] = heap[b]
          <5>1. b # new /\ \A i \in lines : b # block[i]
            BY <2>2, <3>4, <4>2
          <5>2. h[b] = heap[b] /\ grown[b] = h[b] /\ DOMAIN grown = Blocks
            BY <1>1, <2>3, <5>1
          <5>3. lines # {} => list.current # b
            BY <2>3, <5>1
          <5> HIDE DEF grown, new, h
          <5>4. QED BY <3>3, <5>2, <5>3
        <4>3. QED BY <4>1, <4>2
      <3>10. \A i \in more : longer[i] \in Blocks /\ heap[longer[i]] = NoBlock
        BY <2>2, <2>3, <3>1, <3>2, <3>4
      <3>11. \A i, j \in more : longer[i] = longer[j] => i = j
        BY <2>2, <2>3, <3>2, <3>4
      <3>12. next.head = FirstOf(longer, more)
        BY <2>3, <3>3, <3>7
      <3>13. m + 1 \in more /\ next.current = longer[m + 1] /\ Later(more, m + 1) = {}
        BY <2>2, <3>3, <3>4, <3>6
      <3>14. ListHas(c, next, m + 1, longer)
        BY <3>8, <3>9, <3>10, <3>11, <3>12, <3>13 DEF ListHas
      <3>15. longer = [i \in more |-> longer[i]]
        BY <3>4 DEF longer, Grown
      <3>16. m + 1 \in 0..(m + 1)
        OBVIOUS
      <3>17. ListOfLines(c, next, m + 1)
        BY <3>3, <3>9, <3>14, <3>15, <3>16 DEF ListOfLines
      <3>18. QED BY <3>17 DEF next
    <2>7. QED BY <2>5, <2>6
  <1>6. QED BY <1>1, <1>3, <1>4, <1>5

NewList == [heap |-> heap, head |-> NULL, current |-> NULL, lost |-> FALSE]

(* There is a function such as readConfigFile defines.                     *)
LEMMA ReadingExists ==
  ASSUME NEW c, NEW N \in Nat
  PROVE  \E f : f = [n \in 0..N |-> IF n = 0 THEN NewList ELSE AddLine(c, f[n - 1], configFile[n])]
  <1> DEFINE Reads(f, n) == 
               f = [m \in 0..n |-> IF m = 0 THEN NewList ELSE AddLine(c, f[m - 1], configFile[m])]
             None == {n \in Nat : \A f : ~Reads(f, n)}
  <1>1. ASSUME None # {} PROVE FALSE
    <2>1. PICK n \in None : \A m \in None : n <= m
      BY <1>1, SmallestNumber
    <2>2. n # 0
      <3>1. Reads([m \in 0..0 |-> NewList], 0)
        OBVIOUS
      <3>2. QED BY <3>1
    <2>3. n - 1 \in Nat /\ n - 1 \notin None
      <3>1. None \in SUBSET Nat
        OBVIOUS
      <3> HIDE DEF None
      <3>2. QED BY <2>1, <2>2, <3>1
    <2>4. PICK g : Reads(g, n - 1)
      BY <2>3
    <2> DEFINE f == [m \in 0..n |-> IF m < n THEN g[m] ELSE AddLine(c, g[n - 1], configFile[n])]
    <2>5. \A m \in 0..n : f[m] = IF m = 0 THEN NewList ELSE AddLine(c, f[m - 1], configFile[m])
      <3> SUFFICES ASSUME NEW m \in 0..n
                   PROVE  f[m] = IF m = 0 THEN NewList ELSE AddLine(c, f[m - 1], configFile[m])
        OBVIOUS
      <3>1. CASE m = n
        <4>1. f[m] = AddLine(c, g[n - 1], configFile[n]) /\ f[m - 1] = g[n - 1]
          BY <2>2, <3>1
        <4>2. QED BY <2>2, <3>1, <4>1
      <3>2. CASE m < n
        <4>1. f[m] = g[m] /\ (m # 0 => f[m - 1] = g[m - 1]) /\ m \in 0..(n - 1)
          BY <3>2
        <4>2. g[m] = IF m = 0 THEN NewList ELSE AddLine(c, g[m - 1], configFile[m])
          BY <2>4, <4>1
        <4>3. QED BY <4>1, <4>2
      <3>3. QED BY <3>1, <3>2
    <2>6. Reads(f, n)
      BY <2>5
    <2>7. QED BY <2>1, <2>6
  <1>2. QED BY <1>1

(* A list that is read from the start has the entries of the whole file,   *)
(* unless the memory has not lasted.                                       *)
LEMMA FileRead ==
  ASSUME NEW c, Len(configFile) \in Nat, DOMAIN heap = Blocks
  PROVE  ListOfLines(c, readConfigFile(c, NULL), Len(configFile))
  <1> DEFINE N == Len(configFile)
             Reads(f) == f = [n \in 0..N |-> 
                                IF n = 0 THEN NewList ELSE AddLine(c, f[n - 1], configFile[n])]
             list == CHOOSE f : Reads(f)
             Wrong == {m \in 0..N : ~ListOfLines(c, list[m], m)}
  <1>1. \E f : Reads(f)
    <2>1. N \in Nat
      OBVIOUS
    <2> HIDE DEF N
    <2>2. QED BY <2>1, ReadingExists
  <1>2. readConfigFile(c, NULL) = list[N]
    BY DEF readConfigFile, NewList
  <1>3. Reads(list)
    BY <1>1
  <1> HIDE DEF list
  <1>4. ListOfLines(c, list[0], 0)
    <2> DEFINE first == list[0]
               block == [i \in EntriesIn(configFile, 0) |-> NULL]
    <2>1. first = NewList
      BY <1>3
    <2>2. first.heap = heap /\ first.head = NULL /\ first.current = NULL /\ first.lost = FALSE
      BY <2>1 DEF NewList
    <2>3. EntriesIn(configFile, 0) = {}
      BY LinesFacts
    <2> HIDE DEF first
    <2>4. ListHas(c, first, 0, block)
      BY <2>2, <2>3 DEF ListHas, FirstOf
    <2>5. block = [i \in EntriesIn(configFile, 0) |-> block[i]]
      OBVIOUS
    <2> HIDE DEF block
    <2>6. 0 \in 0..0
      OBVIOUS
    <2>7. ListOfLines(c, first, 0)
      BY <2>1, <2>2, <2>4, <2>5, <2>6 DEF ListOfLines, NewList
    <2>8. QED BY <2>7 DEF first
  <1>5. ASSUME NEW m \in 0..N, m # 0, ListOfLines(c, list[m - 1], m - 1)
        PROVE  ListOfLines(c, list[m], m)
    <2>1. list[m] = AddLine(c, list[m - 1], configFile[m])
      BY <1>3, <1>5
    <2>2. m - 1 \in Nat /\ (m - 1) + 1 = m
      BY <1>5
    <2>3. ListOfLines(c, AddLine(c, list[m - 1], configFile[(m - 1) + 1]), (m - 1) + 1)
      BY <1>5, <2>2, LineAdded
    <2>4. QED BY <2>1, <2>2, <2>3
  <1>6. ASSUME Wrong # {} PROVE FALSE
    <2>1. Wrong \in SUBSET Nat /\ \A m \in Wrong : m \in 0..N /\ ~ListOfLines(c, list[m], m)
      OBVIOUS
    <2>2. \A m \in 0..N : m \notin Wrong => ListOfLines(c, list[m], m)
      OBVIOUS
    <2> HIDE DEF Wrong
    <2>3. PICK m \in Wrong : \A k \in Wrong : m <= k
      BY <1>6, <2>1, SmallestNumber
    <2>4. m # 0 /\ m \in 0..N
      BY <1>4, <2>1
    <2>5. m - 1 \in 0..N /\ m - 1 \notin Wrong
      BY <2>1, <2>3, <2>4
    <2>6. QED BY <1>5, <2>1, <2>2, <2>4, <2>5
  <1>7. N \in 0..N
    OBVIOUS
  <1>8. QED BY <1>2, <1>6, <1>7

-----------------------------------------------------------------------------
(* The steps of amqsxlbl.                                                  *)

ListsInv == CallsTypeOK /\ LabelTypeOK /\ LabelsInv

LEMMA FileFacts ==
  ASSUME NEW file \in ConfigFiles \cup {NoFile}
  PROVE  Len(file) \in Nat /\ DOMAIN file = 1..Len(file)
  <1>1. CASE file = NoFile
    BY <1>1 DEF NoFile
  <1>2. CASE file \in ConfigFiles
    <2>1. file \in Seq(ToSet(file))
      BY <1>2, LabelMapAssumption
    <2>2. QED BY <2>1
  <1>3. QED BY <1>1, <1>2

(* The list of a channel that a step leaves alone.                         *)
LEMMA KeptList ==
  ASSUME NEW d, BlocksKept(d), ExitUserArea'[d] = ExitUserArea[d], asRead'[d] = asRead[d],
         NEW n, HasRead(d, n)
  PROVE  HasRead(d, n)'
  <1>1. BlocksOf(d)' = BlocksOf(d) /\ \A b \in BlocksOf(d) : heap'[b] = heap[b]
    BY KeptBlocks
  <1>2. PICK block \in [EntriesIn(asRead[d], n) -> BlocksOf(d)] : ListInv(d, n, block)
    BY DEF HasRead
  <1>3. EntriesIn(asRead[d], n)' = EntriesIn(asRead[d], n)
    BY DEF EntriesIn, IsEntry, LongestName
  <1>4. ListInv(d, n, block)'
    <2> DEFINE lines == EntriesIn(asRead[d], n)
    <2>1. \A i \in lines : heap'[block[i]] = heap[block[i]]
      BY <1>1, <1>2
    <2>2. /\ \A i, j \in lines : block[i] = block[j] => i = j
          /\ BlocksOf(d) = {block[i] : i \in lines}
          /\ ExitUserArea[d] = FirstOf(block, lines)
          /\ \A i \in lines : heap[block[i]] = 
               [Entry(d, asRead[d][i]) EXCEPT !.pNextEntry = FirstOf(block, Later(lines, i))]
      BY <1>2 DEF ListInv
    <2>3. lines' = lines
      BY <1>3
    <2> HIDE DEF lines
    <2>4. ListInv(d, n, block)' <=>
            /\ \A i, j \in lines' : block[i] = block[j] => i = j
            /\ BlocksOf(d)' = {block[i] : i \in lines'}
            /\ ExitUserArea'[d] = FirstOf(block, lines')
            /\ \A i \in lines' : heap'[block[i]] = 
                 [Entry(d, asRead'[d][i]) EXCEPT !.pNextEntry = FirstOf(block, Later(lines', i))]
      BY DEF ListInv, lines, FirstOf, Later, Entry, NULL
    <2>5. QED BY <1>1, <2>1, <2>2, <2>3, <2>4
  <1>5. QED BY <1>1, <1>2, <1>3, <1>4 DEF HasRead

LEMMA KeptLabels ==
  ASSUME NEW d, BlocksKept(d), ExitUserArea'[d] = ExitUserArea[d], asRead'[d] = asRead[d],
         phase'[d] = phase[d], crashed => crashed', LabelInv(d)
  PROVE  LabelInv(d)'
  <1>1. BlocksOf(d)' = BlocksOf(d)
    BY KeptBlocks
  <1>2. CASE phase[d] \in {"new", "ended"}
    BY <1>1, <1>2 DEF LabelInv, NULL
  <1>3. CASE phase[d] \notin {"new", "ended"}
    <2>1. PICK n \in 0..Len(asRead[d]) : HasRead(d, n) /\ (n < Len(asRead[d]) => crashed)
      BY <1>3 DEF LabelInv
    <2>2. HasRead(d, n)'
      BY <2>1, KeptList
    <2>3. QED BY <1>3, <2>1, <2>2 DEF LabelInv
  <1>4. QED BY <1>2, <1>3

(* What reading a file does to the heap.                                   *)
LEMMA ReadIntoHeap ==
  ASSUME CallsTypeOK, NEW c \in Channels, BlocksOf(c) = {}, configFile \in ConfigFiles,
         NEW list, list = readConfigFile(c, NULL), heap' = list.heap, 
         ExitUserArea'[c] = list.head, asRead'[c] = configFile
  PROVE  /\ DOMAIN heap' = Blocks /\ list.lost \in BOOLEAN /\ list.head \in Addresses
         /\ \A b \in Live' : heap'[b].kind \in {"entry", "csp"} /\ heap'[b].of \in Channels
         /\ \A d \in Channels \ {c} : BlocksKept(d)
         /\ \E n \in 0..Len(configFile) : 
              /\ HasRead(c, n)'
              /\ ~list.lost => n = Len(configFile)
              /\ list.lost => n < Len(configFile) /\ IsEntry(configFile[n + 1]) /\ Live' = Blocks
  <1>1. Len(configFile) \in Nat /\ DOMAIN heap = Blocks
    BY FileFacts DEF CallsTypeOK
  <1>2. ListOfLines(c, list, Len(configFile))
    BY <1>1, FileRead
  <1>3a. PICK n \in 0..Len(configFile) : \E block : 
          /\ block = [i \in EntriesIn(configFile, n) |-> block[i]]
          /\ ListHas(c, list, n, block)
          /\ ~list.lost => n = Len(configFile)
          /\ list.lost => /\ n < Len(configFile) /\ IsEntry(configFile[n + 1])
                          /\ \A b \in Blocks : list.heap[b] # NoBlock
    BY <1>2 DEF ListOfLines
  <1>3. PICK block : 
          /\ block = [i \in EntriesIn(configFile, n) |-> block[i]]
          /\ ListHas(c, list, n, block)
          /\ ~list.lost => n = Len(configFile)
          /\ list.lost => /\ n < Len(configFile) /\ IsEntry(configFile[n + 1])
                          /\ \A b \in Blocks : list.heap[b] # NoBlock
    BY <1>3a
  <1> DEFINE lines == EntriesIn(configFile, n)
  <1>4. DOMAIN heap' = Blocks /\ list.lost \in BOOLEAN
    BY <1>2 DEF ListOfLines
  <1>5. /\ \A i \in lines : block[i] \in Blocks /\ heap[block[i]] = NoBlock
        /\ \A i, j \in lines : block[i] = block[j] => i = j
        /\ \A i \in lines : heap'[block[i]] = 
             [Entry(c, configFile[i]) EXCEPT !.pNextEntry = FirstOf(block, Later(lines, i))]
        /\ \A b \in Blocks : heap'[b] = heap[b] \/ \E i \in lines : b = block[i]
        /\ list.head = FirstOf(block, lines)
    BY <1>3 DEF ListHas
  <1>6. lines \in SUBSET Nat
    BY <1>3, LinesFacts
  <1> HIDE DEF lines
  <1>7. \A i \in lines : /\ heap'[block[i]].of = c /\ heap'[block[i]].kind = "entry" 
                         /\ heap'[block[i]] # NoBlock
    <2>1. \A i \in lines : heap'[block[i]].of = c /\ heap'[block[i]].kind = "entry"
      BY <1>5 DEF Entry
    <2>2. NoBlock.kind # "entry"
      BY DEF NoBlock
    <2>3. QED BY <2>1, <2>2
  <1>8. list.head \in Addresses
    <2>1. lines # {} => Min(lines) \in lines
      BY <1>6, MinFacts
    <2>2. QED BY <1>5, <2>1 DEF FirstOf, Addresses
  <1>9. \A b \in Live' : heap'[b].kind \in {"entry", "csp"} /\ heap'[b].of \in Channels
    <2> SUFFICES ASSUME NEW b \in Blocks, heap'[b] # NoBlock
                 PROVE  heap'[b].kind \in {"entry", "csp"} /\ heap'[b].of \in Channels
      BY DEF Live, Blocks
    <2>1. CASE heap'[b] = heap[b]
      BY <2>1 DEF CallsTypeOK, Live
    <2>2. CASE \E i \in lines : b = block[i]
      BY <1>7, <2>2
    <2>3. QED BY <1>5, <2>1, <2>2
  <1>10. \A d \in Channels \ {c} : BlocksKept(d)
    BY <1>5, <1>7 DEF BlocksKept
  <1>11. BlocksOf(c)' = {block[i] : i \in lines}
    <2>1. BlocksOf(c)' = {b \in Blocks : heap'[b] # NoBlock /\ heap'[b].of = c}
      BY DEF BlocksOf, Live, Blocks
    <2>2. \A b \in Blocks : ~(heap[b] # NoBlock /\ heap[b].of = c)
      BY BlocksOfFacts
    <2>3. \A b \in Blocks : heap'[b] # NoBlock /\ heap'[b].of = c <=> \E i \in lines : b = block[i]
      BY <1>5, <1>7, <2>2
    <2>4. \A i \in lines : block[i] \in Blocks
      BY <1>5
    <2>5. QED BY <2>1, <2>3, <2>4
  <1>12. HasRead(c, n)'
    <2>1. ListInv(c, n, block)' <=>
            /\ \A i, j \in lines : block[i] = block[j] => i = j
            /\ BlocksOf(c)' = {block[i] : i \in lines}
            /\ ExitUserArea'[c] = FirstOf(block, lines)
            /\ \A i \in lines : heap'[block[i]] = 
                 [Entry(c, configFile[i]) EXCEPT !.pNextEntry = FirstOf(block, Later(lines, i))]
      BY DEF ListInv, lines, FirstOf, Later, Entry, NULL
    <2>2. ListInv(c, n, block)'
      BY <1>5, <1>11, <2>1
    <2>3. block \in [lines -> BlocksOf(c)']
      <3>1. \A i \in lines : block[i] \in BlocksOf(c)'
        BY <1>11
      <3>2. block = [i \in lines |-> block[i]]
        BY <1>3 DEF lines
      <3>3. QED BY <3>1, <3>2
    <2>4. EntriesIn(asRead[c], n)' = lines
      BY DEF lines, EntriesIn, IsEntry, LongestName
    <2>5. QED BY <2>2, <2>3, <2>4 DEF HasRead
  <1>13. list.lost => Live' = Blocks
    <2>1. Live' = {b \in Blocks : heap'[b] # NoBlock}
      BY DEF Live, Blocks
    <2>2. QED BY <1>3, <2>1
  <1>14. QED BY <1>3, <1>4, <1>8, <1>9, <1>10, <1>12, <1>13

(* What a step of channel c has to keep.                                   *)
LEMMA ListStep ==
  ASSUME ListsInv, NEW c \in Channels, ~crashed, CallsTypeOK', LabelTypeOK', LabelInv(c)', LostInv',
         \A d \in Channels \ {c} : 
           /\ BlocksKept(d) /\ phase'[d] = phase[d] 
           /\ ExitUserArea'[d] = ExitUserArea[d] /\ asRead'[d] = asRead[d]
  PROVE  ListsInv'
  <1>1. \A d \in Channels : LabelInv(d)
    BY DEF ListsInv, LabelsInv
  <1>2. \A d \in Channels \ {c} : LabelInv(d)'
    BY <1>1, KeptLabels
  <1>3. QED BY <1>2 DEF ListsInv, LabelsInv

(* Steps that leave no label.                                              *)
LEMMA BlankKept ==
  ASSUME LabelTypeOK, NEW c \in Channels, certlabl' = [certlabl EXCEPT ![c] = Blank]
  PROVE  /\ DOMAIN certlabl' = Channels
         /\ \A d \in Channels : 
              0 <= certlabl'[d].length /\ certlabl'[d].length <= MQ_CERT_LABEL_LENGTH'
  <1>1. \A d \in Channels : certlabl'[d].length = 0 \/ certlabl'[d] = certlabl[d]
    BY DEF Blank, LabelTypeOK
  <1>2. QED BY <1>1 DEF LabelTypeOK, MQ_CERT_LABEL_LENGTH

LEMMA LabelInitStep ==
  ASSUME ListsInv, NEW c \in Channels, LabelInitCall(c)
  PROVE  ListsInv'
  <1>1. /\ ~crashed /\ phase[c] \in {"new", "ended"} /\ program = "amqsxlbl"
        /\ asRead' = [asRead EXCEPT ![c] = configFile]
        /\ definition' = [definition EXCEPT ![c] = NoDefinition]
        /\ certlabl' = [certlabl EXCEPT ![c] = Blank]
        /\ UNCHANGED <<program, configFile>>
    BY DEF LabelInitCall, Called
  <1>2. CallsTypeOK /\ LabelTypeOK /\ LabelInv(c)
    BY DEF ListsInv, LabelsInv
  <1>3. ExitUserArea[c] = NULL /\ BlocksOf(c) = {}
    BY <1>1, <1>2 DEF LabelInv
  <1>4. LabelTypeOK' /\ asRead'[c] = configFile /\ \A d \in Channels \ {c} : asRead'[d] = asRead[d]
    <2>1. asRead'[c] = configFile /\ \A d \in Channels \ {c} : asRead'[d] = asRead[d]
      BY <1>1, <1>2 DEF LabelTypeOK
    <2>2. configFile' \in ConfigFiles \cup {NoFile} /\ asRead' \in [Channels -> ConfigFiles \cup {NoFile}]
          /\ definition' \in [Channels -> Definitions \cup {NoDefinition}]
      BY <1>1, <1>2 DEF LabelTypeOK
    <2>3. QED BY <1>1, <1>2, <2>1, <2>2, BlankKept DEF LabelTypeOK, NoFile, NoDefinition
  <1>5. CASE configFile = NoFile
    <2>1. /\ ExitUserArea' = [ExitUserArea EXCEPT ![c] = NULL]
          /\ ExitResponse' = [ExitResponse EXCEPT ![c] = "SUPPRESS_FUNCTION"]
          /\ phase' = [phase EXCEPT ![c] = "closing"]
          /\ UNCHANGED <<heap, crashed>>
      BY <1>3, <1>5 DEF LabelInitCall, Responds, Becomes
    <2>2. CallsTypeOK'
      BY <1>1, <1>2, <2>1 
      DEF CallsTypeOK, Live, Addresses, Blocks, NoBlock, NULL, Programs, Phases, Responses
    <2>3. \A d \in Channels : BlocksKept(d)
      BY <2>1 DEF BlocksKept
    <2>4. BlocksOf(c)' = {} /\ ExitUserArea'[c] = NULL /\ phase'[c] = "closing" /\ ~crashed'
      BY <1>1, <1>2, <1>3, <2>1, <2>3, KeptBlocks DEF CallsTypeOK
    <2>5. LabelInv(c)'
      <3>1. EntriesIn(NoFile, 1) = {} /\ Len(NoFile) = 1
        BY DEF EntriesIn, IsEntry, NoFile
      <3>2. EntriesIn(asRead[c], 1)' = {} /\ Len(asRead'[c]) = 1
        BY <1>4, <1>5, <3>1 DEF EntriesIn, IsEntry, LongestName
      <3> DEFINE block == [i \in {} |-> NULL]
      <3>3. ListInv(c, 1, block)' <=>
            LET lines == EntriesIn(asRead[c], 1)' IN
            /\ \A i, j \in lines : block[i] = block[j] => i = j
            /\ BlocksOf(c)' = {block[i] : i \in lines}
            /\ ExitUserArea'[c] = FirstOf(block, lines)
            /\ \A i \in lines : heap'[block[i]] = 
                 [Entry(c, asRead'[c][i]) EXCEPT !.pNextEntry = FirstOf(block, Later(lines, i))]
        BY DEF ListInv, FirstOf, Later, Entry, NULL
      <3>4. ListInv(c, 1, block)'
        BY <2>4, <3>2, <3>3 DEF FirstOf
      <3>5. block \in [EntriesIn(asRead[c], 1)' -> BlocksOf(c)']
        BY <3>2
      <3> HIDE DEF block
      <3>6. HasRead(c, 1)'
        BY <3>4, <3>5 DEF HasRead
      <3>7. 1 \in 0..Len(asRead'[c]) /\ ~(1 < Len(asRead'[c]))
        BY <3>2
      <3>8. QED BY <2>4, <3>6, <3>7 DEF LabelInv
    <2>6. LostInv'
      BY <2>4 DEF LostInv
    <2>7. \A d \in Channels \ {c} : phase'[d] = phase[d] /\ ExitUserArea'[d] = ExitUserArea[d]
      BY <1>2, <2>1 DEF CallsTypeOK
    <2>8. QED BY <1>1, <1>4, <2>2, <2>3, <2>5, <2>6, <2>7, ListStep
  <1>6. CASE configFile # NoFile
    <2> DEFINE list == readConfigFile(c, NULL)
    <2>1. /\ heap' = list.heap /\ crashed' = list.lost
          /\ ExitUserArea' = [ExitUserArea EXCEPT ![c] = list.head]
          /\ ExitResponse' = [ExitResponse EXCEPT ![c] = "OK"]
          /\ phase' = [phase EXCEPT ![c] = "open"]
      BY <1>3, <1>6 DEF LabelInitCall, Responds, Becomes
    <2> HIDE DEF list
    <2>2. ExitUserArea'[c] = list.head /\ phase'[c] = "open" /\ configFile \in ConfigFiles
          /\ \A d \in Channels \ {c} : phase'[d] = phase[d] /\ ExitUserArea'[d] = ExitUserArea[d]
      BY <1>2, <1>6, <2>1 DEF CallsTypeOK, LabelTypeOK
    <2>3. /\ DOMAIN heap' = Blocks /\ list.lost \in BOOLEAN /\ list.head \in Addresses
          /\ \A b \in Live' : heap'[b].kind \in {"entry", "csp"} /\ heap'[b].of \in Channels
          /\ \A d \in Channels \ {c} : BlocksKept(d)
      BY <1>2, <1>3, <1>4, <2>1, <2>2, ReadIntoHeap DEF list
    <2>4. PICK n \in 0..Len(configFile) : 
              /\ HasRead(c, n)'
              /\ ~list.lost => n = Len(configFile)
              /\ list.lost => n < Len(configFile) /\ IsEntry(configFile[n + 1]) /\ Live' = Blocks
      BY <1>2, <1>3, <1>4, <2>1, <2>2, ReadIntoHeap DEF list
    <2>5. CallsTypeOK'
      <3>1. /\ program' \in Programs /\ phase' \in [Channels -> Phases]
            /\ ExitUserArea' \in [Channels -> Addresses] /\ ExitResponse' \in [Channels -> Responses]
            /\ crashed' \in BOOLEAN
        BY <1>1, <1>2, <2>1, <2>3 DEF CallsTypeOK, Phases, Responses
      <3>2. QED BY <2>3, <3>1 DEF CallsTypeOK, Programs, Phases, Responses, Addresses, Blocks, NULL
    <2>6. LabelInv(c)'
      BY <1>4, <2>1, <2>2, <2>4 DEF LabelInv
    <2>7. LostInv'
      <3> SUFFICES ASSUME list.lost PROVE LostInv'
        BY <2>1 DEF LostInv
      <3>1. n \in 0..Len(asRead'[c]) - 1 /\ phase'[c] = "open" /\ HasRead(c, n)' 
            /\ IsEntry(asRead[c][n + 1])' /\ Live' = Blocks
        <4>1. Len(configFile) \in Nat
          BY <2>2, FileFacts
        <4>2. n \in 0..Len(configFile) - 1
          BY <2>4, <4>1
        <4>3. QED BY <1>4, <2>2, <2>4, <4>2 DEF IsEntry, LongestName
      <3>2. Live' = Blocks'
        BY <3>1 DEF Blocks
      <3>3. QED BY <3>1, <3>2 DEF LostInv
    <2>8. QED BY <1>1, <1>4, <2>2, <2>3, <2>5, <2>6, <2>7, ListStep
  <1>7. QED BY <1>5, <1>6

(* The label of the first line that matches may be as long as MQ allows.   *)
LEMMA FoundLength ==
  ASSUME NEW c, NEW n \in Nat, HasRead(c, n), NEW cd
  PROVE  0 <= evalMapList(c, cd).length /\ evalMapList(c, cd).length <= MQ_CERT_LABEL_LENGTH
  <1>1. PICK block \in [EntriesIn(asRead[c], n) -> BlocksOf(c)] : ListInv(c, n, block)
    BY DEF HasRead
  <1> DEFINE lines == EntriesIn(asRead[c], n)
             matching == {j \in lines : Matches(Entry(c, asRead[c][j]), cd)}
  <1>2. evalMapList(c, cd) = IF matching = {} THEN Blank ELSE asRead[c][Min(matching)].label
    BY <1>1, FirstMatchFound
  <1>3. lines \in SUBSET Nat /\ \A j \in lines : IsEntry(asRead[c][j])
    BY LinesFacts
  <1>4. matching \in SUBSET lines /\ matching \in SUBSET Nat
    BY <1>3
  <1>5. matching # {} => Min(matching) \in lines
    BY <1>4, MinFacts
  <1> HIDE DEF lines, matching
  <1>6. matching # {} => asRead[c][Min(matching)].label.length \in 1..MQ_CERT_LABEL_LENGTH
    BY <1>3, <1>5 DEF IsEntry
  <1>7. CASE matching = {}
    <2>1. evalMapList(c, cd) = Blank /\ Blank.length = 0
      BY <1>2, <1>7 DEF Blank
    <2>2. QED BY <2>1 DEF MQ_CERT_LABEL_LENGTH
  <1>8. CASE matching # {}
    <2> DEFINE label == asRead[c][Min(matching)].label
    <2>1. evalMapList(c, cd) = label /\ label.length \in 1..MQ_CERT_LABEL_LENGTH
      BY <1>2, <1>6, <1>8
    <2> HIDE DEF label
    <2>2. QED BY <2>1 DEF MQ_CERT_LABEL_LENGTH
  <1>9. QED BY <1>7, <1>8

LEMMA AutoClusSdrStep ==
  ASSUME ListsInv, NEW c \in Channels, AutoClusSdr(c)
  PROVE  ListsInv' /\ ~crashed'
  <1>1. /\ ~crashed /\ phase[c] = "open"
        /\ UNCHANGED <<program, phase, ExitUserArea, heap, configFile, asRead>>
    BY DEF AutoClusSdr, Called
  <1>2. PICK cd \in Definitions :
          /\ definition' = [definition EXCEPT ![c] = cd]
          /\ IF cd.Version < MQCD_VERSION_11
             THEN /\ certlabl' = [certlabl EXCEPT ![c] = Blank]
                  /\ Responds(c, "SUPPRESS_FUNCTION")
                  /\ UNCHANGED crashed
             ELSE /\ certlabl' = [certlabl EXCEPT ![c] = evalMapList(c, cd)]
                  /\ crashed' = ~(Walked(c) \subseteq Live)
                  /\ Responds(c, "OK")
    BY DEF AutoClusSdr
  <1>3. CallsTypeOK /\ LabelTypeOK /\ LabelInv(c)
    BY DEF ListsInv, LabelsInv
  <1>4. Len(asRead[c]) \in Nat /\ asRead[c] \in ConfigFiles \cup {NoFile}
    BY <1>3, FileFacts DEF LabelTypeOK
  <1>5. HasRead(c, Len(asRead[c]))
    <2>1. PICK n \in 0..Len(asRead[c]) : HasRead(c, n) /\ (n < Len(asRead[c]) => crashed)
      BY <1>1, <1>3 DEF LabelInv
    <2>2. n = Len(asRead[c])
      BY <1>1, <1>4, <2>1
    <2>3. QED BY <2>1, <2>2
  <1>6. Walked(c) \subseteq Live
    <2>1. PICK block \in [EntriesIn(asRead[c], Len(asRead[c])) -> BlocksOf(c)] : 
            ListInv(c, Len(asRead[c]), block)
      BY <1>5 DEF HasRead
    <2>2. Walked(c) = BlocksOf(c)
      BY <1>4, <2>1, WalkReaches
    <2>3. QED BY <2>2, BlocksOfFacts
  <1>7. ~crashed' /\ crashed' \in BOOLEAN
    BY <1>1, <1>2, <1>3, <1>6 DEF CallsTypeOK
  <1>8. CallsTypeOK'
    <2>1. ExitResponse' \in [Channels -> Responses]
      BY <1>2, <1>3 DEF CallsTypeOK, Responds, Responses
    <2>2. QED BY <1>1, <1>3, <1>7, <2>1 
           DEF CallsTypeOK, Live, Addresses, Blocks, NoBlock, NULL, Programs, Phases, Responses
  <1>9. LabelTypeOK'
    <2>1. \A d \in Channels : 0 <= certlabl'[d].length /\ certlabl'[d].length <= MQ_CERT_LABEL_LENGTH
      <3>1. certlabl'[c] = Blank \/ certlabl'[c] = evalMapList(c, cd)
        BY <1>2, <1>3 DEF LabelTypeOK
      <3>2. 0 <= certlabl'[c].length /\ certlabl'[c].length <= MQ_CERT_LABEL_LENGTH
        <4>1. 0 <= evalMapList(c, cd).length /\ evalMapList(c, cd).length <= MQ_CERT_LABEL_LENGTH
          <5> DEFINE n == Len(asRead[c])
          <5>1. n \in Nat /\ HasRead(c, n)
            BY <1>4, <1>5
          <5> HIDE DEF n
          <5>2. QED BY <5>1, FoundLength
        <4>2. 0 <= Blank.length /\ Blank.length <= MQ_CERT_LABEL_LENGTH
          BY DEF Blank, MQ_CERT_LABEL_LENGTH
        <4>3. QED BY <3>1, <4>1, <4>2
      <3>3. \A d \in Channels \ {c} : certlabl'[d] = certlabl[d]
        BY <1>2, <1>3 DEF LabelTypeOK
      <3>4. QED BY <1>3, <3>2, <3>3 DEF LabelTypeOK, MQ_CERT_LABEL_LENGTH
    <2>2. configFile' \in ConfigFiles \cup {NoFile} /\ asRead' \in [Channels -> ConfigFiles \cup {NoFile}]
          /\ definition' \in [Channels -> Definitions \cup {NoDefinition}]
          /\ DOMAIN certlabl' = Channels
      BY <1>1, <1>2, <1>3 DEF LabelTypeOK
    <2>3. QED BY <2>1, <2>2 DEF LabelTypeOK, NoFile, NoDefinition, MQ_CERT_LABEL_LENGTH
  <1>10. \A d \in Channels : BlocksKept(d)
    BY <1>1 DEF BlocksKept
  <1>11. LabelInv(c)' 
    BY <1>1, <1>3, <1>10, KeptLabels
  <1>12. LostInv'
    BY <1>7 DEF LostInv
  <1>13. QED BY <1>1, <1>7, <1>8, <1>9, <1>10, <1>11, <1>12, ListStep

LEMMA AutoOtherStep ==
  ASSUME ListsInv, NEW c \in Channels, AutoOther(c)
  PROVE  ListsInv'
  <1>1. /\ ~crashed
        /\ definition' = [definition EXCEPT ![c] = NoDefinition]
        /\ certlabl' = [certlabl EXCEPT ![c] = Blank]
        /\ UNCHANGED <<program, phase, ExitUserArea, heap, crashed, configFile, asRead>>
        /\ \E r \in Responses : ExitResponse' = [ExitResponse EXCEPT ![c] = r]
    BY DEF AutoOther, Called, Responds, Responses
  <1>2. CallsTypeOK /\ LabelTypeOK /\ LabelInv(c)
    BY DEF ListsInv, LabelsInv
  <1>3. CallsTypeOK'
    <2>1. ExitResponse' \in [Channels -> Responses]
      BY <1>1, <1>2 DEF CallsTypeOK
    <2>2. QED BY <1>1, <1>2, <2>1 
           DEF CallsTypeOK, Live, Addresses, Blocks, NoBlock, NULL, Programs, Phases, Responses
  <1>4. LabelTypeOK'
    BY <1>1, <1>2, BlankKept DEF LabelTypeOK, NoFile, NoDefinition
  <1>5. \A d \in Channels : BlocksKept(d)
    BY <1>1 DEF BlocksKept
  <1>6. LabelInv(c)' 
    BY <1>1, <1>2, <1>5, KeptLabels
  <1>7. LostInv'
    BY <1>1 DEF LostInv
  <1>8. QED BY <1>1, <1>3, <1>4, <1>5, <1>6, <1>7, ListStep

LEMMA LabelTermStep ==
  ASSUME ListsInv, NEW c \in Channels, LabelTerm(c)
  PROVE  ListsInv'
  <1>1. /\ ~crashed /\ phase[c] \in {"open", "closing"}
        /\ heap' = Freed(Walked(c)) /\ crashed' = (crashed \/ ~(Walked(c) \subseteq Live))
        /\ ExitUserArea' = [ExitUserArea EXCEPT ![c] = NULL]
        /\ ExitResponse' = [ExitResponse EXCEPT ![c] = "OK"]
        /\ phase' = [phase EXCEPT ![c] = "ended"]
        /\ definition' = [definition EXCEPT ![c] = NoDefinition]
        /\ certlabl' = [certlabl EXCEPT ![c] = Blank]
        /\ UNCHANGED <<program, configFile, asRead>>
    BY DEF LabelTerm, freeMapList, Frees, Called, Responds, Becomes
  <1>2. CallsTypeOK /\ LabelTypeOK /\ LabelInv(c)
    BY DEF ListsInv, LabelsInv
  <1>3. Walked(c) = BlocksOf(c)
    <2>1. PICK n \in 0..Len(asRead[c]) : HasRead(c, n)
      BY <1>1, <1>2 DEF LabelInv
    <2>2. PICK block \in [EntriesIn(asRead[c], n) -> BlocksOf(c)] : ListInv(c, n, block)
      BY <2>1 DEF HasRead
    <2>3. n \in Nat
      BY <2>1
    <2>4. QED BY <2>2, <2>3, WalkReaches
  <1>4. \A b \in Blocks : heap'[b] = IF heap[b] # NoBlock /\ heap[b].of = c THEN NoBlock ELSE heap[b]
    BY <1>1, <1>3, BlocksOfFacts DEF Freed
  <1>5. BlocksOf(c)' = {} /\ ~crashed'
    <2>1. BlocksOf(c)' = {b \in Blocks : heap'[b] # NoBlock /\ heap'[b].of = c}
      BY DEF BlocksOf, Live, Blocks
    <2>2. BlocksOf(c)' = {}
      BY <1>4, <2>1
    <2>3. QED BY <1>1, <1>3, <2>2, BlocksOfFacts
  <1>6. \A d \in Channels \ {c} : BlocksKept(d)
    BY <1>4 DEF BlocksKept
  <1>7. CallsTypeOK'
    <2>1. /\ program' \in Programs /\ phase' \in [Channels -> Phases]
          /\ ExitUserArea' \in [Channels -> Addresses] /\ ExitResponse' \in [Channels -> Responses]
          /\ crashed' \in BOOLEAN
      BY <1>1, <1>2, <1>5 DEF CallsTypeOK, Phases, Responses, Addresses
    <2>2. DOMAIN heap' = Blocks
      BY <1>1 DEF Freed
    <2>3. \A b \in Live' : heap'[b].kind \in {"entry", "csp"} /\ heap'[b].of \in Channels
      <3>1. Live' = {b \in Blocks : heap'[b] # NoBlock}
        BY DEF Live, Blocks
      <3>2. \A b \in Live' : b \in Live /\ heap'[b] = heap[b]
        BY <1>4, <3>1 DEF Live
      <3>3. QED BY <1>2, <3>2 DEF CallsTypeOK
    <2>4. QED BY <2>1, <2>2, <2>3 DEF CallsTypeOK, Programs, Phases, Responses, Addresses, Blocks, NULL
  <1>8. LabelTypeOK'
    BY <1>1, <1>2, BlankKept DEF LabelTypeOK, NoFile, NoDefinition
  <1>9. phase'[c] = "ended" /\ ExitUserArea'[c] = NULL
        /\ \A d \in Channels \ {c} : phase'[d] = phase[d] /\ ExitUserArea'[d] = ExitUserArea[d]
    BY <1>1, <1>2 DEF CallsTypeOK
  <1>10. LabelInv(c)'
    BY <1>5, <1>9 DEF LabelInv, NULL
  <1>11. LostInv'
    BY <1>5 DEF LostInv
  <1>12. QED BY <1>1, <1>6, <1>7, <1>8, <1>9, <1>10, <1>11, ListStep

LEMMA LabelCallStep ==
  ASSUME ListsInv, NEW c \in Channels, LabelCall(c)
  PROVE  ListsInv'
  BY LabelInitStep, AutoClusSdrStep, AutoOtherStep, LabelTermStep DEF LabelCall

LEMMA KeptLists ==
  ASSUME ListsInv, UNCHANGED <<callVars, asRead, definition, certlabl>>, 
         configFile' \in ConfigFiles \cup {NoFile}
  PROVE  ListsInv'
  <1>1. CallsTypeOK'
    BY DEF ListsInv, CallsTypeOK, callVars, Live, Addresses, Blocks, NoBlock, NULL, Programs, Phases, 
       Responses
  <1>2. LabelTypeOK'
    BY DEF ListsInv, LabelTypeOK, NoFile, NoDefinition, MQ_CERT_LABEL_LENGTH
  <1>3. \A d \in Channels : BlocksKept(d) /\ LabelInv(d)
    BY DEF BlocksKept, callVars, ListsInv, LabelsInv
  <1>4. \A d \in Channels : LabelInv(d)'
    BY <1>3, KeptLabels DEF callVars
  <1>5. LostInv'
    <2> SUFFICES ASSUME crashed PROVE LostInv'
      BY DEF LostInv, callVars
    <2>0. PICK c \in Channels : \E n \in 0..Len(asRead[c]) - 1 :
            phase[c] = "open" /\ HasRead(c, n) /\ IsEntry(asRead[c][n + 1])
      BY DEF ListsInv, LabelsInv, LostInv
    <2>1. PICK n \in 0..Len(asRead[c]) - 1 :
            phase[c] = "open" /\ HasRead(c, n) /\ IsEntry(asRead[c][n + 1])
      BY <2>0
    <2>2. HasRead(c, n)'
      BY <1>3, <2>1, KeptList DEF callVars
    <2>3. IsEntry(asRead[c][n + 1])' /\ Live' = Blocks'
      BY <2>1 DEF ListsInv, LabelsInv, LostInv, callVars, IsEntry, LongestName, Live, Blocks, NoBlock
    <2>4. QED BY <2>1, <2>2, <2>3 DEF LostInv, callVars
  <1>6. QED BY <1>1, <1>2, <1>4, <1>5 DEF ListsInv, LabelsInv

-----------------------------------------------------------------------------
(* What the lists are for, and when there is no room for them.             *)

(* A line becomes an entry that matches if and only if it promises a label.*)
LEMMA PromiseFacts ==
  ASSUME NEW file \in ConfigFiles \cup {NoFile}, NEW cd \in Definitions, NEW c
  PROVE  {j \in EntriesIn(file, Len(file)) : Matches(Entry(c, file[j]), cd)}
            = {i \in DOMAIN file : Promises(file[i], cd)}
  <1>1. DOMAIN file = 1..Len(file)
    BY FileFacts
  <1>2. ASSUME NEW j \in DOMAIN file
        PROVE  IsEntry(file[j]) /\ Matches(Entry(c, file[j]), cd) <=> Promises(file[j], cd)
    <2> DEFINE line == file[j]
    <2>1. CASE file = NoFile
      <3>1. line.prefix = "none"
        BY <1>2, <2>1 DEF NoFile
      <3> HIDE DEF line
      <3>2. ~IsEntry(line) /\ ~Promises(line, cd)
        BY <3>1 DEF IsEntry, Promises
      <3>3. QED BY <3>2 DEF line
    <2>2. CASE file \in ConfigFiles
      <3>1. line \in ToSet(file)
        BY <1>2 DEF ToSet
      <3>2. /\ cd.ChannelName.length \in 1..MQ_CHANNEL_NAME_LENGTH
            /\ \A name \in ToSet(cd.Clusters) : name.length \in 1..MQ_CLUSTER_NAME_LENGTH
            /\ line.name.length <= MQ_CHANNEL_NAME_LENGTH /\ line.name.first = cd.ChannelName.first
                 => line.name = cd.ChannelName
        BY <2>2, <3>1, LabelMapAssumption
      <3> HIDE DEF line
      <3>3. /\ Entry(c, line).entryType = line.prefix /\ Entry(c, line).objectName = line.name
        BY DEF Entry
      <3>4. \A name : name \in ToSet(cd.Clusters) <=> \E i \in DOMAIN cd.Clusters : name = cd.Clusters[i]
        BY DEF ToSet
      <3>5. CASE line.prefix = "channel"
        <4>1. line.name.length \in 1..MQ_CHANNEL_NAME_LENGTH /\ line.name.first = cd.ChannelName.first 
                <=> line.name = cd.ChannelName
          BY <3>2 DEF MQ_CHANNEL_NAME_LENGTH
        <4>2. IsEntry(line) <=> /\ line.equals /\ line.label.length \in 1..64 
                                /\ line.name.length \in 1..MQ_CHANNEL_NAME_LENGTH
          BY <3>5 DEF IsEntry, LongestName, MQ_CERT_LABEL_LENGTH
        <4>3. Matches(Entry(c, line), cd) <=> line.name.first = cd.ChannelName.first
          BY <3>3, <3>5 DEF Matches
        <4>4. Promises(line, cd) <=> 
                line.equals /\ line.label.length \in 1..64 /\ line.name = cd.ChannelName
          BY <3>5 DEF Promises
        <4>5. QED BY <4>1, <4>2, <4>3, <4>4 DEF line
      <3>6. CASE line.prefix = "cluster"
        <4>1. IsEntry(line) <=> /\ line.equals /\ line.label.length \in 1..64 
                                /\ line.name.length \in 1..MQ_CLUSTER_NAME_LENGTH
          BY <3>6 DEF IsEntry, LongestName, MQ_CERT_LABEL_LENGTH
        <4>2. Matches(Entry(c, line), cd) <=> line.name \in ToSet(cd.Clusters)
          BY <3>3, <3>6 DEF Matches
        <4>3. Promises(line, cd) <=> 
                line.equals /\ line.label.length \in 1..64 /\ line.name \in ToSet(cd.Clusters)
          BY <3>4, <3>6 DEF Promises
        <4>4. QED BY <3>2, <4>1, <4>2, <4>3 DEF line
      <3>7. CASE line.prefix \notin {"channel", "cluster"}
        <4>1. ~IsEntry(line) /\ ~Promises(line, cd)
          BY <3>7 DEF IsEntry, Promises
        <4>2. QED BY <4>1 DEF line
      <3>8. QED BY <3>5, <3>6, <3>7
    <2>3. QED BY <2>1, <2>2
  <1>3. QED BY <1>1, <1>2 DEF EntriesIn

LEMMA PromiseKept ==
  ASSUME NEW c, asRead[c] \in ConfigFiles \cup {NoFile}, HasRead(c, Len(asRead[c])), 
         NEW cd \in Definitions
  PROVE  evalMapList(c, cd) = Promised(asRead[c], cd)
  <1> DEFINE file == asRead[c]
             n == Len(file)
             matching == {j \in EntriesIn(file, n) : Matches(Entry(c, file[j]), cd)}
             lines == {i \in DOMAIN file : Promises(file[i], cd)}
  <1>1. n \in Nat
    BY FileFacts
  <1>2. PICK block \in [EntriesIn(file, n) -> BlocksOf(c)] : ListInv(c, n, block)
    BY DEF HasRead
  <1>3. evalMapList(c, cd) = IF matching = {} THEN Blank ELSE file[Min(matching)].label
    BY <1>1, <1>2, FirstMatchFound
  <1>4. matching = lines
    BY PromiseFacts
  <1>5. Promised(file, cd) = IF lines = {} THEN Blank ELSE file[Min(lines)].label
    BY DEF Promised
  <1> HIDE DEF matching, lines
  <1>6. QED BY <1>3, <1>4, <1>5

(* A block for each line of a file of each channel is enough.              *)
LEMMA MemoryLasts ==
  ASSUME ListsInv, IsFiniteSet(Channels), NEW L \in Nat, \A file \in ConfigFiles : Len(file) <= L,
         Cardinality(Channels) * L <= MaxBlock
  PROVE  ~crashed
  <1> SUFFICES ASSUME crashed PROVE FALSE
    OBVIOUS
  <1>1. PICK c \in Channels : \E n \in 0..Len(asRead[c]) - 1 :
          phase[c] = "open" /\ HasRead(c, n) /\ IsEntry(asRead[c][n + 1])
    BY DEF ListsInv, LabelsInv, LostInv
  <1>2. PICK n \in 0..Len(asRead[c]) - 1 : HasRead(c, n) /\ IsEntry(asRead[c][n + 1])
    BY <1>1
  <1>3. \A d \in Channels : asRead[d] \in ConfigFiles \cup {NoFile} /\ Len(asRead[d]) \in Nat
    BY FileFacts DEF ListsInv, LabelTypeOK
  <1> DEFINE Has(d, w) == \E m, block : /\ m \in Nat /\ w = <<m, block>> /\ ListInv(d, m, block)
                                        /\ m <= Len(asRead[d]) /\ (d = c => m = n)
             read == [d \in Channels |-> CHOOSE w : Has(d, w)]
             lines(d) == EntriesIn(asRead[d], read[d][1])
             block(d) == read[d][2]
  <1>4. ASSUME NEW d \in Channels, BlocksOf(d) # {}
        PROVE  /\ read[d][1] \in Nat /\ ListInv(d, read[d][1], block(d)) 
               /\ read[d][1] <= Len(asRead[d]) /\ (d = c => read[d][1] = n)
    <2>1. \E m \in 0..Len(asRead[d]) : HasRead(d, m) /\ (d = c => m = n)
      <3>1. CASE d = c
        <4>1. n \in 0..Len(asRead[c])
          BY <1>3
        <4>2. QED BY <1>2, <3>1, <4>1
      <3>2. CASE d # c
        BY <1>4, <3>2 DEF ListsInv, LabelsInv, LabelInv
      <3>3. QED BY <3>1, <3>2
    <2>2. PICK m \in 0..Len(asRead[d]) : HasRead(d, m) /\ (d = c => m = n)
      BY <2>1
    <2>3. PICK b : ListInv(d, m, b)
      BY <2>2 DEF HasRead
    <2>4. m \in Nat /\ m <= Len(asRead[d])
      BY <1>3, <2>2
    <2>5. Has(d, <<m, b>>)
      BY <2>2, <2>3, <2>4
    <2>6. Has(d, read[d])
      BY <2>5
    <2>7. PICK k, e : /\ k \in Nat /\ read[d] = <<k, e>> /\ ListInv(d, k, e)
                      /\ k <= Len(asRead[d]) /\ (d = c => k = n)
      BY <2>6
    <2> HIDE DEF read
    <2>8. QED BY <2>7
  <1> HIDE DEF read
  <1> DEFINE pairs == (Channels \X (1..L)) \ {<<c, n + 1>>}
             line(b) == CHOOSE i \in lines(heap[b].of) : block(heap[b].of)[i] = b
             f == [b \in Blocks |-> <<heap[b].of, line(b)>>]
  <1>5. ASSUME NEW b \in Blocks
        PROVE  /\ f[b] \in pairs /\ f[b] = <<heap[b].of, line(b)>> 
               /\ block(heap[b].of)[line(b)] = b
    <2> DEFINE d == heap[b].of
    <2>1. b \in Live /\ d \in Channels /\ b \in BlocksOf(d)
      <3>1. b \in Live
        BY DEF ListsInv, LabelsInv, LostInv
      <3>2. d \in Channels
        BY <3>1 DEF ListsInv, CallsTypeOK
      <3>3. QED BY <3>1, <3>2 DEF BlocksOf
    <2> HIDE DEF d
    <2>2. /\ read[d][1] \in Nat /\ ListInv(d, read[d][1], block(d)) 
          /\ read[d][1] <= Len(asRead[d]) /\ (d = c => read[d][1] = n)
      BY <1>4, <2>1
    <2>3. \E i \in lines(d) : block(d)[i] = b
      BY <2>1, <2>2 DEF ListInv
    <2>4. line(b) \in lines(d) /\ block(d)[line(b)] = b
      BY <2>3 DEF d
    <2> HIDE DEF line
    <2>5. line(b) \in 1..read[d][1] /\ IsEntry(asRead[d][line(b)])
      BY <2>2, <2>4, LinesFacts
    <2>6. asRead[d] # NoFile
      <3> SUFFICES ASSUME asRead[d] = NoFile PROVE FALSE
        OBVIOUS
      <3>1. line(b) = 1
        BY <2>2, <2>5 DEF NoFile
      <3>2. QED BY <2>5, <3>1 DEF NoFile, IsEntry
    <2>7. Len(asRead[d]) <= L /\ Len(asRead[d]) \in Nat
      BY <1>3, <2>1, <2>6
    <2>8. line(b) \in 1..L
      BY <2>2, <2>5, <2>7
    <2>9. <<d, line(b)>> # <<c, n + 1>>
      BY <1>2, <2>2, <2>5
    <2>10. f[b] = <<d, line(b)>>
      BY DEF d
    <2>11. QED BY <2>1, <2>4, <2>8, <2>9, <2>10 DEF d
  <1>6. \A b, e \in Blocks : f[b] = f[e] => b = e
    <2> HIDE DEF f, line
    <2>1. QED BY <1>5
  <1>7. f \in [Blocks -> pairs]
    <2> HIDE DEF pairs, line
    <2>1. QED BY <1>5
  <1>8. <<c, n + 1>> \in Channels \X (1..L)
    <2>1. asRead[c] # NoFile
      <3> SUFFICES ASSUME asRead[c] = NoFile PROVE FALSE
        OBVIOUS
      <3>1. n + 1 = 1
        BY DEF NoFile
      <3>2. QED BY <1>2, <3>1 DEF NoFile, IsEntry
    <2>2. Len(asRead[c]) <= L /\ Len(asRead[c]) \in Nat
      BY <1>3, <2>1
    <2>3. n + 1 \in 1..L
      BY <2>2
    <2>4. QED BY <2>3
  <1>9. IsFiniteSet(pairs) /\ Cardinality(pairs) < Cardinality(Blocks)
    <2> DEFINE all == Channels \X (1..L)
    <2>1. IsFiniteSet(1..L) /\ Cardinality(1..L) = L
      BY FS_Interval
    <2>2. IsFiniteSet(all) /\ Cardinality(all) = Cardinality(Channels) * L
      BY <2>1, FS_Product
    <2>3. Cardinality(Blocks) = MaxBlock /\ MaxBlock \in Nat
      BY BlockFacts, FS_Interval DEF Blocks
    <2>4. Cardinality(all) \in Nat /\ Cardinality(all) <= MaxBlock
      BY <2>2, FS_CardinalityType
    <2> HIDE DEF all
    <2>5. IsFiniteSet(all \ {<<c, n + 1>>}) /\ Cardinality(all \ {<<c, n + 1>>}) = Cardinality(all) - 1
      BY <1>8, <2>2, FS_RemoveElement DEF all
    <2>6. pairs = all \ {<<c, n + 1>>}
      BY DEF all
    <2> HIDE DEF pairs
    <2>7. QED BY <2>3, <2>4, <2>5, <2>6
  <1> HIDE DEF f, pairs
  <1>10. \E b, e \in Blocks : b # e /\ f[b] = f[e]
    BY <1>7, <1>9, BlockFacts, FS_PigeonHole
  <1>11. QED BY <1>6, <1>10
=============================================================================
