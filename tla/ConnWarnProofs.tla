--------------------------- MODULE ConnWarnProofs ---------------------------
(***************************************************************************)
(* Proofs about ConnWarn, for any number of channels and of descriptors:   *)
(* what a connection is reported as, which descriptors it leaves open, and *)
(* that it leaves neither a child nor a lock.                              *)
(*                                                                         *)
(* The argument: as long as intact holds, every thread has the files it    *)
(* has opened, under the numbers it knows.  So it asks its own child, the  *)
(* answer it reads is the answer to its own question, and the end of the   *)
(* file tells it that the child has answered or will never do so.          *)
(***************************************************************************)
EXTENDS ConnWarn, NumberLemmas, FiniteSetTheorems

-----------------------------------------------------------------------------
(* Files and descriptors.                                                  *)

(* Whose a file is, and what it is, can be read off it.                    *)
LEMMA FileFacts ==
  /\ \A k \in {"in", "out"}, c \in Channels :
       /\ ReadEnd(k, c) \in Files /\ WriteEnd(k, c) \in Files
       /\ ReadEnd(k, c)[1] = k /\ ReadEnd(k, c)[2] = c /\ ReadEnd(k, c)[3] = "r"
       /\ WriteEnd(k, c)[1] = k /\ WriteEnd(k, c)[2] = c /\ WriteEnd(k, c)[3] = "w"
  /\ \A c \in Channels, p \in Places :
       /\ LogFile(c, p) \in Files /\ LogFile(c, p)[1] = "log"
       /\ LogFile(c, p)[2] = c /\ LogFile(c, p)[3] = p
  /\ \A f \in Files : /\ f[1] \in {"in", "out", "log"} /\ f[2] \in Channels
                      /\ f[1] = "log" => f[3] \in Places
  /\ NoFile[1] = "none" /\ NoFile[2] = NoChannel /\ NoFile \notin Files
  /\ NoChannel \notin Channels
  BY ConnWarnAssumption DEF ReadEnd, WriteEnd, LogFile, NoFile, Files, Places

(* Numbers of descriptors, and what is behind them.                        *)
LEMMA NumberFacts ==
  /\ Nums \in SUBSET Nat /\ Bad \notin Nums /\ IsFiniteSet(Nums) 
  /\ Free \in SUBSET Nums /\ IsFiniteSet(Free)
  /\ \A n \in Free : fds[n] = NoFile
  <1>1. Nums \in SUBSET Nat /\ Bad \notin Nums /\ IsFiniteSet(Nums)
    BY FS_Interval, ConnWarnAssumption DEF Nums, Bad
  <1>2. Free \in SUBSET Nums /\ \A n \in Free : fds[n] = NoFile
    BY DEF Free
  <1>3. QED BY <1>1, <1>2, FS_Subset

(* The number of a new file is free.                                       *)
LEMMA NewNumber ==
  ASSUME Free # {}
  PROVE  Min(Free) \in Free
  <1>1. Free \in SUBSET Nat
    BY NumberFacts
  <1>2. QED BY <1>1, MinFacts

(* The numbers of a new pipe are two, and free.                            *)
LEMMA NewNumbers ==
  ASSUME Cardinality(Free) >= 2
  PROVE  /\ Min(Free) \in Free
         /\ Min(Free \ {Min(Free)}) \in Free \ {Min(Free)}
  <1>1. Free \in SUBSET Nat /\ IsFiniteSet(Free)
    BY NumberFacts
  <1>2. Free # {}
    BY FS_EmptySet
  <1>3. Min(Free) \in Free
    BY <1>2, NewNumber
  <1>4. Free # {Min(Free)}
    <2> DEFINE m == Min(Free)
    <2> HIDE DEF m
    <2>1. Cardinality({m}) = 1
      BY FS_Singleton
    <2>2. QED BY <2>1 DEF m
  <1>5. Free \ {Min(Free)} # {} /\ Free \ {Min(Free)} \in SUBSET Nat
    BY <1>1, <1>3, <1>4
  <1>6. QED BY <1>3, <1>5, MinFacts

-----------------------------------------------------------------------------
(* What a step of one thread or child leaves alone of another channel's.   *)

ThreadKept(d) ==
  /\ pc'[d] = pc[d] /\ ends'[d] = ends[d] /\ response'[d] = response[d]
  /\ valid'[d] = valid[d] /\ place'[d] = place[d] /\ logfd'[d] = logfd[d]
  /\ exit'[d] = exit[d]

(* A thread whose fork has failed may take the end of another's child.     *)
ChildKept(d) ==
  \/ child'[d] = child[d]
  \/ child[d].state = "ended" /\ child'[d] = [child[d] EXCEPT !.state = "reaped"]

FilesKept(d) ==
  /\ \A n \in Nums : fds'[n] = fds[n] \/ (fds[n][2] # d /\ fds'[n][2] # d)
  /\ \A k \in {"in", "out"} : pipe'[<<k, d>>] = pipe[<<k, d>>]
  /\ \A p \in Places : lock'[p][2] = d => lock'[p] = lock[p]

(* What is printed is so for good.                                         *)
PrintsKept == 
  \A d \in Channels : Printing(d) => Printing(d)' /\ Entry(d)' = Entry(d)

(* Nothing is written to the log, nobody returns but without a log.        *)
LogKept ==
  /\ log' = log
  /\ Flushed => Flushed'
  /\ \A d \in Channels : 
       /\ pc'[d] = "done" /\ exit'[d] = "OK" => pc[d] = "done" /\ exit[d] = "OK"
       /\ pc'[d] # "done" => pc[d] # "done"

(* The type invariant is the only thing that parts of the invariant need   *)
(* of FileAt.                                                              *)
LEMMA FileAtFacts ==
  ASSUME TypeOK
  PROVE  \A n \in Nums \cup {Bad} : 
           /\ FileAt(n) \in Files \cup {NoFile}
           /\ FileAt(n)[2] \in Channels => n \in Nums /\ FileAt(n) = fds[n]
  BY FileFacts, NumberFacts DEF FileAt, TypeOK

LEMMA KeptChild ==
  ASSUME TypeOK, NEW d \in Channels, ThreadKept(d), ChildKept(d), 
         UNCHANGED environment, ChildInv(d), ExitInv(d)
  PROVE  ChildInv(d)' /\ ExitInv(d)'
  BY DEF TypeOK, ThreadKept, ChildKept, ChildInv, ExitInv, Children, Ran, Logging, Opening,
         environment

LEMMA KeptFiles ==
  ASSUME TypeOK, TypeOK', NEW d \in Channels, ThreadKept(d), FilesKept(d), FilesInv(d)
  PROVE  FilesInv(d)'
  <1> DEFINE in == ends[d]["in"]  
             out == ends[d]["out"]
  <1>1. /\ in.r \in Nums \cup {Bad} /\ in.w \in Nums \cup {Bad} 
        /\ out.r \in Nums \cup {Bad} /\ out.w \in Nums \cup {Bad}
        /\ logfd[d] \in Nums \cup {Bad} /\ place[d] \in Places
    BY DEF TypeOK
  <1>2. \A n \in Nums \cup {Bad} : FileAt(n)[2] = d => FileAt(n)' = FileAt(n)
    BY FileFacts DEF FilesKept, FileAt
  <1>3. \A n \in Nums : fds'[n][2] = d => fds'[n] = fds[n]
    BY DEF FilesKept
  <1>4. \A k \in {"in", "out"} : ReadEnd(k, d)[2] = d /\ WriteEnd(k, d)[2] = d
    BY FileFacts
  <1>5. LogFile(d, place[d])[2] = d
    BY <1>1, FileFacts
  <1>6. pc'[d] = pc[d] /\ ends'[d] = ends[d] /\ place'[d] = place[d] /\ logfd'[d] = logfd[d]
    BY DEF ThreadKept
  <1> HIDE DEF in, out
  <1>7. /\ pc[d] \in HasInR => FileAt(in.r)' = ReadEnd("in", d)
        /\ pc[d] \in HasInW => FileAt(in.w)' = WriteEnd("in", d)
        /\ pc[d] \in HasOutR => FileAt(out.r)' = ReadEnd("out", d)
        /\ pc[d] \in HasOutW => FileAt(out.w)' = WriteEnd("out", d) /\ out.r # out.w
        /\ pc[d] \in Logging => FileAt(logfd[d])' = LogFile(d, place[d])
    BY <1>1, <1>2, <1>4, <1>5, <1>6 DEF FilesInv, in, out, FileAt, ThreadKept
  <1>8. \A n \in Nums : fds'[n][2] = d =>
          \/ n = in.r /\ pc[d] \in HasInR
          \/ n = in.w /\ pc[d] \in HasInW
          \/ n = out.r /\ pc[d] \in HasOutR
          \/ fds'[n] = WriteEnd("out", d)
          \/ n = logfd[d] /\ pc[d] \in Logging
    BY <1>3 DEF FilesInv, in, out
  <1>9. QED
    BY <1>6, <1>7, <1>8 DEF FilesInv, in, out, FileAt

LEMMA KeptLock ==
  ASSUME NEW d \in Channels, ThreadKept(d), FilesKept(d), LockInv(d)
  PROVE  LockInv(d)'
  BY DEF ThreadKept, FilesKept, LockInv, LogFile

LEMMA KeptInherited ==
  ASSUME TypeOK, NEW d \in Channels, pc'[d] = pc[d], ChildKept(d), PrintsKept, InheritedInv(d)
  PROVE  InheritedInv(d)'
  <1>1. /\ Alive(d)' => Alive(d) /\ child'[d] = child[d]
        /\ child'[d].buffers = child[d].buffers
    BY DEF ChildKept, Alive, TypeOK, Children
  <1>2. ASSUME Alive(d)'
        PROVE  /\ pc'[d] \in Talking
               /\ WriteEnd("in", d) \in child'[d].files
               /\ child'[d].stdin = ReadEnd("out", d) /\ child'[d].stdout = WriteEnd("in", d)
    BY <1>1, <1>2 DEF InheritedInv
  <1>3. ASSUME NEW b \in child'[d].buffers
        PROVE  \E e \in Channels : 
                 b[1] \in {LogFile(e, p) : p \in Places} /\ b[2] = Entry(e)' /\ Printing(e)'
    BY <1>1 DEF InheritedInv, PrintsKept
  <1>4. QED BY <1>2, <1>3 DEF InheritedInv, WriteEnd, ReadEnd, LogFile

LEMMA KeptTalk ==
  ASSUME TypeOK, NEW d \in Channels, ThreadKept(d), ChildKept(d), FilesKept(d), 
         UNCHANGED environment, ChildInv(d), TalkInv(d)
  PROVE  TalkInv(d)'
  <1>1. pipe'[<<"in", d>>] = pipe[<<"in", d>>] /\ pipe'[<<"out", d>>] = pipe[<<"out", d>>]
    BY DEF FilesKept
  <1>2. Ran(d)' = Ran(d) /\ (child'[d].state # "running" <=> child[d].state # "running")
    BY DEF ChildKept, Ran, TypeOK, Children
  <1>3. /\ pc'[d] = pc[d] /\ valid'[d] = valid[d] /\ response'[d] = response[d] 
        /\ csp' = csp
    BY DEF ThreadKept, environment
  <1>4. Password(d)' = Password(d) /\ Reply(d, csp[d] = "good")' = Reply(d, csp[d] = "good")
    BY <1>3 DEF Password, Reply
  <1>5. QED BY <1>1, <1>2, <1>3, <1>4 DEF TalkInv

LEMMA KeptLog ==
  ASSUME NEW d \in Channels, LogKept, PrintsKept, LogInv(d)
  PROVE  LogInv(d)'
  <1>1. EntriesOf(d)' = EntriesOf(d)
    BY DEF LogKept, EntriesOf
  <1>2. \A i \in EntriesOf(d)' : log'[i] = Entry(d)' /\ Printing(d)'
    BY <1>1 DEF LogInv, LogKept, PrintsKept
  <1>3. pc'[d] = "done" /\ exit'[d] = "OK" => EntriesOf(d)' # {}
    BY <1>1 DEF LogInv, LogKept
  <1>4. ~Flushed' => /\ pc'[d] # "done" => EntriesOf(d)' = {}
                     /\ \A i, j \in EntriesOf(d)' : i = j
    BY <1>1 DEF LogInv, LogKept
  <1>5. QED BY <1>2, <1>3, <1>4 DEF LogInv

-----------------------------------------------------------------------------
(* A step of the thread or the child of c, from what it does to c, and to  *)
(* the rest.                                                               *)

OthersKept(c) == \A d \in Channels \ {c} : ThreadKept(d) /\ ChildKept(d)
OthersFilesKept(c) == \A d \in Channels \ {c} : FilesKept(d)

LEMMA StepOf ==
  ASSUME IInv, NEW c \in Channels, TypeOK', UNCHANGED environment, OthersKept(c),
         ChildInv(c)', ExitInv(c)', intact' => intact,
         intact /\ intact' => 
           /\ OthersFilesKept(c) /\ PrintsKept
           /\ FilesInv(c)' /\ LockInv(c)' /\ InheritedInv(c)' /\ TalkInv(c)'
           /\ \A d \in Channels : LogInv(d)'
  PROVE  IInv'
  <1> USE DEF IInv
  <1>1. ASSUME NEW d \in Channels
        PROVE  ChildInv(d)' /\ ExitInv(d)'
    BY KeptChild DEF OthersKept
  <1>2. ASSUME NEW d \in Channels, intact'
        PROVE  IntactInv(d)'
    <2>1. CASE d = c
      BY <1>2, <2>1 DEF IntactInv
    <2>2. CASE d # c
      <3>1. /\ ThreadKept(d) /\ ChildKept(d) /\ FilesKept(d) /\ PrintsKept /\ LogInv(d)'
            /\ pc'[d] = pc[d]
        BY <1>2, <2>2 DEF OthersKept, OthersFilesKept, ThreadKept
      <3>2. /\ FilesInv(d) /\ LockInv(d) /\ InheritedInv(d) /\ TalkInv(d) /\ ChildInv(d)
        BY <1>2 DEF IntactInv
      <3>3. FilesInv(d)'
        BY <3>1, <3>2, KeptFiles
      <3>4. LockInv(d)'
        BY <3>1, <3>2, KeptLock
      <3>5. InheritedInv(d)'
        BY <3>1, <3>2, KeptInherited
      <3>6. TalkInv(d)'
        BY <3>1, <3>2, KeptTalk
      <3>7. QED BY <3>1, <3>3, <3>4, <3>5, <3>6 DEF IntactInv
    <2>3. QED BY <2>1, <2>2
  <1>3. QED BY <1>1, <1>2

-----------------------------------------------------------------------------
LEMMA InitInv ==
  ASSUME Init
  PROVE  IInv
  <1>1. TypeOK
    BY FileFacts, ConnWarnAssumption 
    DEF Init, TypeOK, Points, Places, Children, NoChild, Nums, Bad, Pipes
  <1>0. NoChild.state = "none" /\ NoChild.ran = FALSE /\ NoChild.buffers = {}
    BY DEF NoChild
  <1>2. ASSUME NEW c \in Channels
        PROVE  /\ pc[c] = "new" /\ child[c] = NoChild /\ exit[c] = "OK" /\ valid[c] = 0
               /\ response[c] = "none"
               /\ pipe[<<"in", c>>] = <<>> /\ pipe[<<"out", c>>] = <<>>
               /\ \A n \in Nums : fds[n][2] # c
               /\ \A p \in Places : lock[p][2] # c
               /\ EntriesOf(c) = {}
    BY FileFacts DEF Init, Pipes, EntriesOf
  <1>3. ASSUME NEW c \in Channels
        PROVE  ChildInv(c) /\ ExitInv(c) /\ FilesInv(c) /\ LockInv(c) /\ LogInv(c)
    <2>1. child[c].state = "none" /\ ~Ran(c)
      BY <1>0, <1>2 DEF Ran
    <2>2. ChildInv(c)
      BY <1>2, <2>1 DEF ChildInv
    <2>3. ExitInv(c) /\ LockInv(c)
      BY <1>2 DEF ExitInv, LockInv
    <2>4. FilesInv(c)
      BY <1>2 DEF FilesInv, HasInR, HasInW, HasOutR, HasOutW, Logging, Talking, Ending
    <2>5. LogInv(c)
      BY <1>2 DEF LogInv
    <2>6. QED BY <2>2, <2>3, <2>4, <2>5
  <1>4. ASSUME NEW c \in Channels
        PROVE  InheritedInv(c) /\ TalkInv(c)
    BY <1>0, <1>2 DEF InheritedInv, TalkInv, Alive, Ran
  <1>5. QED BY <1>1, <1>3, <1>4 DEF IInv, IntactInv

(* Steps of a thread that change nothing but where it is and its results.  *)
LEMMA ChlExitStep ==
  ASSUME IInv, NEW c \in Channels, ChlExit(c)
  PROVE  IInv'
  <1> USE DEF IInv
  <1>1. /\ UNCHANGED <<environment, ends, response, place, logfd, fds, pipe, child, lock, log, 
                       intact, valid>>
        /\ pc[c] = "new"
    BY DEF ChlExit, NothingToValidate, CannotValidate, Goes
  <1>2. PICK to \in {"fopen", "done", "pipeIn"}, x \in {"OK", "CLOSE_CHANNEL"} :
          /\ pc' = [pc EXCEPT ![c] = to] /\ exit' = [exit EXCEPT ![c] = x] 
          /\ x = "CLOSE_CHANNEL" <=> missing /\ csp[c] # "nothing"
          /\ x = "CLOSE_CHANNEL" <=> to = "done"
    <2>1. exit[c] = "OK" /\ exit = [exit EXCEPT ![c] = "OK"]
      BY <1>1 DEF ExitInv, TypeOK
    <2>2. QED
      BY <2>1 DEF ChlExit, NothingToValidate, CannotValidate, Goes
  <1>3. TypeOK'
    <2>1. pc' \in [Channels -> Points] /\ exit' \in [Channels -> {"OK", "CLOSE_CHANNEL", "FAILED"}]
      BY <1>1, <1>2 DEF TypeOK, Points, Opening
    <2>2. QED BY <1>1, <2>1 DEF TypeOK, environment, Pipes, Places
  <1>4. OthersKept(c)
    BY <1>1, <1>2 DEF OthersKept, ThreadKept, ChildKept, TypeOK
  <1>5. ChildInv(c)' /\ ExitInv(c)'
    BY <1>1, <1>2 DEF ChildInv, ExitInv, TypeOK, Logging, Opening, Ran, environment
  <1>6. ASSUME intact
        PROVE  /\ OthersFilesKept(c) /\ PrintsKept /\ LogKept
               /\ FilesInv(c)' /\ LockInv(c)' /\ InheritedInv(c)' /\ TalkInv(c)'
    <2>1. IntactInv(c)
      BY <1>6
    <2>2. OthersFilesKept(c)
      BY <1>1, <1>2 DEF OthersFilesKept, FilesKept
    <2>3. PrintsKept
      BY <1>1, <1>2 DEF PrintsKept, Printing, Entry, TypeOK
    <2>4. LogKept
      BY <1>1, <1>2 DEF LogKept, Flushed, Ran, TypeOK
    <2>5. FilesInv(c)'
      BY <1>1, <1>2, <2>1 DEF FilesInv, IntactInv, HasInR, HasInW, HasOutR, HasOutW, Logging, Talking, 
         Ending, Opening, FileAt
    <2>6. LockInv(c)'
      BY <1>1, <1>2, <2>1 DEF LockInv, IntactInv
    <2>7. InheritedInv(c)'
      <3>1. ~Alive(c) /\ ~Alive(c)'
        BY <1>1, <1>2 DEF ChildInv, Alive
      <3>2. \A b \in child'[c].buffers : \E d \in Channels : 
              b[1] \in {LogFile(d, p) : p \in Places} /\ b[2] = Entry(d)' /\ Printing(d)'
        BY <1>1, <1>2, <2>1, <2>3 DEF IntactInv, InheritedInv, PrintsKept
      <3>3. QED BY <3>1, <3>2 DEF InheritedInv, LogFile
    <2>8. TalkInv(c)'
      <3>1. ~Ran(c) /\ ~Ran(c)'
        BY <1>1, <1>2 DEF ChildInv, Ran
      <3>2. pipe[<<"out", c>>] = <<>> /\ valid[c] = 0 
        BY <1>1, <1>2, <2>1 DEF IntactInv, TalkInv
      <3>3. pipe[<<"in", c>>] = <<>> /\ response[c] = "none"
        BY <1>1, <1>2, <2>1, <3>1 DEF IntactInv, TalkInv
      <3>4. QED BY <1>1, <1>2, <3>1, <3>2, <3>3 DEF TalkInv
    <2>9. QED BY <2>2, <2>3, <2>4, <2>5, <2>6, <2>7, <2>8
  <1>7. intact => \A d \in Channels : LogInv(d)'
    BY <1>6, KeptLog DEF IntactInv
  <1>8. QED BY <1>1, <1>3, <1>4, <1>5, <1>6, <1>7, StepOf

(* A thread that goes on without returning or changing what it prints.     *)
LEMMA GoesOn ==
  ASSUME TypeOK, NEW c \in Channels, NEW from, NEW to, Goes(c, from, to), 
         from # "done", to # "done", UNCHANGED <<log, exit>>, Flushed => Flushed',
         from \in {"unlock", "fclose"} => to \in {"unlock", "fclose"},
         \A d \in Channels \ {c} : valid'[d] = valid[d],
         from # "receive" => valid' = valid
  PROVE  LogKept /\ PrintsKept
  <1>1. /\ pc[c] = from /\ pc'[c] = to
        /\ \A d \in Channels \ {c} : pc'[d] = pc[d]
    BY DEF Goes, TypeOK
  <1>2. LogKept
    BY <1>1 DEF LogKept
  <1>3. PrintsKept
    BY <1>1 DEF PrintsKept, Printing, Entry
  <1>4. QED BY <1>2, <1>3

(* What a thread gets when it opens a pipe.                                *)
LEMMA PipeFacts ==
  ASSUME IInv, NEW c \in Channels, NEW k \in {"in", "out"}, Pipe(c, k)
  PROVE  /\ UNCHANGED <<environment, results, pipe, child, lock, log>>
         /\ fds' \in [Nums -> Files \cup {NoFile}] /\ intact' \in BOOLEAN /\ (intact' => intact)
         /\ ends' \in [Channels -> [{"in", "out"} -> [r : Nums \cup {Bad}, w : Nums \cup {Bad}]]]
         /\ \A d \in Channels, l \in {"in", "out"} : d # c \/ l # k => ends'[d][l] = ends[d][l]
         /\ intact' => \E r, w \in Nums :
              /\ fds[r] = NoFile /\ fds[w] = NoFile /\ r # w
              /\ fds' = [fds EXCEPT ![r] = ReadEnd(k, c), ![w] = WriteEnd(k, c)]
              /\ ends'[c][k] = [r |-> r, w |-> w]
  <1> USE DEF IInv
  <1>1. UNCHANGED <<environment, results, pipe, child, lock, log>>
    BY DEF Pipe
  <1>2. PICK r \in Nums \cup {Bad}, w \in Nums \cup {Bad} : 
          /\ ends' = [ends EXCEPT ![c][k] = [r |-> r, w |-> w]]
          /\ \/ /\ r \in Nums /\ w \in Nums /\ fds[r] = NoFile /\ fds[w] = NoFile /\ r # w
                /\ fds' = [fds EXCEPT ![r] = ReadEnd(k, c), ![w] = WriteEnd(k, c)]
                /\ UNCHANGED intact
             \/ intact' = FALSE /\ UNCHANGED fds
    <2>1. CASE Cardinality(Free) >= 2
      <3> DEFINE r == Min(Free)
                 w == Min(Free \ {r})
      <3>1. r \in Free /\ w \in Free \ {r}
        BY <2>1, NewNumbers
      <3>2. ~(Cardinality(Free) < 2)
        <4>1. Cardinality(Free) \in Nat
          BY NumberFacts, FS_CardinalityType
        <4>2. QED BY <2>1, <4>1
      <3>3. /\ fds' = [fds EXCEPT ![r] = ReadEnd(k, c), ![w] = WriteEnd(k, c)]
            /\ ends' = [ends EXCEPT ![c][k] = [r |-> r, w |-> w]]
            /\ UNCHANGED intact
        BY <3>2 DEF Pipe
      <3> HIDE DEF r, w
      <3>4. r \in Nums /\ w \in Nums /\ fds[r] = NoFile /\ fds[w] = NoFile /\ r # w
        BY <3>1 DEF Free
      <3>5. QED BY <3>3, <3>4
    <2>2. CASE ~(Cardinality(Free) >= 2)
      BY <2>2 DEF Pipe
    <2>3. QED BY <2>1, <2>2
  <1>3. fds' \in [Nums -> Files \cup {NoFile}] /\ intact' \in BOOLEAN /\ (intact' => intact)
    <2>1. fds \in [Nums -> Files \cup {NoFile}] /\ intact \in BOOLEAN
      BY DEF TypeOK
    <2>2. ReadEnd(k, c) \in Files /\ WriteEnd(k, c) \in Files
      BY FileFacts
    <2>3. fds' \in [Nums -> Files \cup {NoFile}]
      BY <1>2, <2>1, <2>2
    <2>4. intact' = FALSE \/ intact' = intact
      BY <1>2
    <2>5. intact' \in BOOLEAN /\ (intact' => intact)
      <3>1. CASE intact' = FALSE
        BY <3>1
      <3>2. CASE intact' = intact
        BY <2>1, <3>2
      <3>3. QED BY <2>4, <3>1, <3>2
    <2>6. QED BY <2>3, <2>5
  <1>4. /\ ends' \in [Channels -> [{"in", "out"} -> [r : Nums \cup {Bad}, w : Nums \cup {Bad}]]]
        /\ \A d \in Channels, l \in {"in", "out"} : d # c \/ l # k => ends'[d][l] = ends[d][l]
        /\ ends'[c][k] = [r |-> r, w |-> w]
    BY <1>2 DEF TypeOK
  <1>5. QED BY <1>1, <1>2, <1>3, <1>4

LEMMA PipeStep ==
  ASSUME IInv, NEW c \in Channels, NEW k \in {"in", "out"}, NEW from, NEW to, 
         Goes(c, from, to), Pipe(c, k),
         \/ k = "in" /\ from = "pipeIn" /\ to = "pipeOut"
         \/ k = "out" /\ from = "pipeOut" /\ to = "fork"
  PROVE  IInv'
  <1>0. /\ TypeOK /\ ChildInv(c) /\ ExitInv(c) 
        /\ intact => IntactInv(c)
        /\ intact => \A d \in Channels : LogInv(d)
    BY DEF IInv, IntactInv
  <1>1. /\ pc' = [pc EXCEPT ![c] = to] /\ pc[c] = from
        /\ UNCHANGED <<missing, csp, response, valid, place, logfd, exit, pipe, child, lock, log>>
        /\ \A d \in Channels, l \in {"in", "out"} : d # c \/ l # k => ends'[d][l] = ends[d][l]
        /\ intact' => intact
    BY PipeFacts DEF Goes, results, environment
  <1>2. TypeOK'
    <2>1. pc' \in [Channels -> Points]
      BY <1>0, <1>1 DEF TypeOK, Points, Opening, Talking
    <2>2. /\ fds' \in [Nums -> Files \cup {NoFile}] /\ intact' \in BOOLEAN
          /\ ends' \in [Channels -> [{"in", "out"} -> [r : Nums \cup {Bad}, w : Nums \cup {Bad}]]]
      BY PipeFacts
    <2>3. QED BY <1>0, <1>1, <2>1, <2>2 DEF TypeOK
  <1>3. OthersKept(c)
    <2>1. ASSUME NEW d \in Channels \ {c}
          PROVE  ends'[d] = ends[d]
      <3>1. /\ ends[d] \in [{"in", "out"} -> [r : Nums \cup {Bad}, w : Nums \cup {Bad}]]
            /\ ends'[d] \in [{"in", "out"} -> [r : Nums \cup {Bad}, w : Nums \cup {Bad}]]
        BY <1>0, <1>2 DEF TypeOK
      <3>2. ends'[d]["in"] = ends[d]["in"] /\ ends'[d]["out"] = ends[d]["out"]
        BY <1>1
      <3>3. QED BY <3>1, <3>2
    <2>2. QED BY <1>0, <1>1, <2>1 DEF OthersKept, ThreadKept, ChildKept, TypeOK
  <1>4. ChildInv(c)' /\ ExitInv(c)'
    BY <1>0, <1>1 DEF ChildInv, ExitInv, TypeOK, Logging, Opening, Ran
  <1>5. ASSUME intact, intact'
        PROVE  /\ OthersFilesKept(c) /\ PrintsKept /\ LogKept
               /\ FilesInv(c)' /\ LockInv(c)' /\ InheritedInv(c)' /\ TalkInv(c)'
    <2>1. FilesInv(c) /\ LockInv(c) /\ InheritedInv(c) /\ TalkInv(c)
      BY <1>0, <1>5 DEF IntactInv
    <2>2. PICK r \in Nums, w \in Nums :
            /\ fds[r] = NoFile /\ fds[w] = NoFile /\ r # w
            /\ fds' = [fds EXCEPT ![r] = ReadEnd(k, c), ![w] = WriteEnd(k, c)]
            /\ ends'[c][k] = [r |-> r, w |-> w]
      BY <1>5, PipeFacts
    <2>3. /\ fds'[r] = ReadEnd(k, c) /\ fds'[w] = WriteEnd(k, c)
          /\ \A n \in Nums \ {r, w} : fds'[n] = fds[n]
          /\ ends'[c][k].r = r /\ ends'[c][k].w = w
      BY <1>0, <2>2 DEF TypeOK
    <2>4. OthersFilesKept(c)
      <3>1. /\ fds[r][2] = NoChannel /\ fds'[r][2] = c /\ NoChannel \notin Channels
            /\ fds[w][2] = NoChannel /\ fds'[w][2] = c
        BY <2>2, <2>3, FileFacts
      <3>2. \A d \in Channels \ {c}, n \in Nums : 
              fds'[n] = fds[n] \/ (fds[n][2] # d /\ fds'[n][2] # d)
        BY <2>3, <3>1
      <3>3. QED BY <1>1, <3>2 DEF OthersFilesKept, FilesKept
    <2>5. PrintsKept /\ LogKept
      BY <1>0, <1>1, GoesOn DEF Flushed, Ran
    <2>6. FilesInv(c)'
      <3>1. r # Bad /\ w # Bad
        BY NumberFacts
      <3>2. \A n \in Nums : fds[n][2] = c => n # r /\ n # w
        BY <2>2, FileFacts
      <3>3. CASE k = "in"
        <4>1. pc[c] = "pipeIn" /\ pc'[c] = "pipeOut"
          BY <1>0, <1>1, <3>3 DEF TypeOK
        <4>2. \A n \in Nums : fds[n][2] = c => fds[n] = WriteEnd("out", c)
          BY <2>1, <4>1 DEF FilesInv, HasInR, HasInW, HasOutR, Logging, Talking
        <4>3. QED
          BY <2>3, <3>1, <3>3, <4>1, <4>2 DEF FilesInv, HasInR, HasInW, HasOutR, HasOutW, 
             Logging, Talking, Ending, FileAt
      <3>4. CASE k = "out"
        <4>1. pc[c] = "pipeOut" /\ pc'[c] = "fork"
          BY <1>0, <1>1, <3>4 DEF TypeOK
        <4> DEFINE in == ends[c]["in"]
        <4>2. ends'[c]["in"] = in
          BY <1>0, <1>1, <3>4
        <4>3. in.r \in Nums \cup {Bad} /\ in.w \in Nums \cup {Bad}
          BY <1>0 DEF TypeOK
        <4>4. FileAt(in.r) = ReadEnd("in", c) /\ FileAt(in.w) = WriteEnd("in", c)
          BY <2>1, <4>1 DEF FilesInv, HasInR, HasInW
        <4>5. FileAt(in.r)' = ReadEnd("in", c) /\ FileAt(in.w)' = WriteEnd("in", c)
          BY <2>3, <3>2, <4>2, <4>3, <4>4, FileFacts DEF FileAt
        <4>6. \A n \in Nums : fds[n][2] = c => n = in.r \/ n = in.w \/ fds[n] = WriteEnd("out", c)
          BY <2>1, <4>1 DEF FilesInv, HasInR, HasInW, HasOutR, Logging, Talking
        <4>7. \A n \in Nums : fds'[n][2] = c => 
                n = in.r \/ n = in.w \/ n = r \/ fds'[n] = WriteEnd("out", c)
          BY <2>3, <3>4, <4>6
        <4>8. FileAt(r)' = ReadEnd("out", c) /\ FileAt(w)' = WriteEnd("out", c)
          BY <2>3, <3>1, <3>4 DEF FileAt
        <4>9. ends'[c]["out"].r = r /\ ends'[c]["out"].w = w
          BY <2>3, <3>4
        <4>10. /\ pc'[c] \in HasInR /\ pc'[c] \in HasInW /\ pc'[c] \in HasOutR
               /\ pc'[c] \notin Logging
          BY <4>1 DEF HasInR, HasInW, HasOutR, Logging, Talking
        <4>11. /\ FileAt(ends[c]["in"].r)' = ReadEnd("in", c)
               /\ FileAt(ends[c]["in"].w)' = WriteEnd("in", c)
               /\ FileAt(ends[c]["out"].r)' = ReadEnd("out", c)
               /\ FileAt(ends[c]["out"].w)' = WriteEnd("out", c)
          BY <4>2, <4>5, <4>8, <4>9 DEF FileAt
        <4>12. QED
          BY <2>2, <4>2, <4>7, <4>9, <4>10, <4>11 DEF FilesInv
      <3>5. QED BY <3>3, <3>4
    <2>7. LockInv(c)'
      BY <1>0, <1>1, <2>1 DEF LockInv, TypeOK
    <2>8. ~Alive(c) /\ ~Alive(c)' /\ ~Ran(c) /\ ~Ran(c)'
      BY <1>0, <1>1 DEF ChildInv, Alive, Opening, Ran
    <2>9. InheritedInv(c)'
      BY <1>0, <1>1, <2>1, <2>5, <2>8 DEF InheritedInv, PrintsKept, LogFile
    <2>10. TalkInv(c)'
      BY <1>0, <1>1, <2>1, <2>8 DEF TalkInv, Opening, Talking, TypeOK, Password, Reply
    <2>11. QED BY <2>4, <2>5, <2>6, <2>7, <2>9, <2>10
  <1>6. intact /\ intact' => \A d \in Channels : LogInv(d)'
    BY <1>0, <1>5, KeptLog
  <1>7. QED BY <1>0, <1>1, <1>2, <1>3, <1>4, <1>5, <1>6, StepOf DEF environment

(* A close: nobody else's file goes, or intact does.                       *)
LEMMA CloseFacts ==
  ASSUME TypeOK, NEW c \in Channels, NEW n \in Nums \cup {Bad}, Close(c, n)
  PROVE  /\ fds' \in [Nums -> Files \cup {NoFile}] /\ intact' \in BOOLEAN /\ (intact' => intact)
         /\ \A m \in Nums : m # n => fds'[m] = fds[m]
         /\ n \in Nums => fds'[n] = NoFile
         /\ intact' => \A d \in Channels \ {c}, m \in Nums : 
                         fds'[m] = fds[m] \/ (fds[m][2] # d /\ fds'[m][2] # d)
  <1>1. fds' = (IF n = Bad THEN fds ELSE [fds EXCEPT ![n] = NoFile])
    BY DEF Close
  <1>2. fds' \in [Nums -> Files \cup {NoFile}]
    BY <1>1 DEF TypeOK
  <1>3. /\ \A m \in Nums : m # n => fds'[m] = fds[m]
        /\ n \in Nums => fds'[n] = NoFile
    BY <1>1, NumberFacts DEF TypeOK
  <1>4. intact' \in BOOLEAN /\ (intact' => intact)
    BY DEF Close
  <1>5. ASSUME intact', NEW d \in Channels \ {c}, NEW m \in Nums
        PROVE  fds'[m] = fds[m] \/ (fds[m][2] # d /\ fds'[m][2] # d)
    <2>1. FileAt(n)[2] \in {c, NoChannel}
      BY <1>5 DEF Close
    <2>2. m = n => fds[m][2] # d /\ fds'[m][2] # d
      BY <1>3, <2>1, FileFacts, NumberFacts DEF FileAt
    <2>3. QED BY <1>3, <2>2
  <1>6. QED BY <1>2, <1>3, <1>4, <1>5

(* What the thread has open when it closes the end n of a pipe.            *)
ClosingPoint(c, n, from, to) ==
  \/ from = "closeOut" /\ to = "closeIn" /\ n = ends[c]["out"].r
  \/ from = "closeIn" /\ to = "send" /\ n = ends[c]["in"].w
  \/ from = "closeIn0" /\ to = "closeOutAgain" /\ n = ends[c]["in"].r
  \/ from = "closeOutAgain" /\ to = "waitpid" /\ n = ends[c]["out"].r

LEMMA ClosedFiles ==
  ASSUME TypeOK, NEW c \in Channels, NEW n \in Nums \cup {Bad}, NEW from, NEW to,
         Goes(c, from, to), Close(c, n), UNCHANGED <<ends, place, logfd>>, 
         ClosingPoint(c, n, from, to), FilesInv(c)
  PROVE  FilesInv(c)'
  <1> DEFINE in == ends[c]["in"]  
             out == ends[c]["out"]
  <1>1. pc[c] = from /\ pc'[c] = to 
    BY DEF Goes, TypeOK
  <1>2. /\ in.r \in Nums \cup {Bad} /\ in.w \in Nums \cup {Bad} 
        /\ out.r \in Nums \cup {Bad} /\ out.w \in Nums \cup {Bad}
    BY DEF TypeOK
  <1>3. \A m \in Nums \cup {Bad} : m # n => FileAt(m)' = FileAt(m)
    BY CloseFacts DEF FileAt
  <1>4. \A m \in Nums : fds'[m][2] = c => fds'[m] = fds[m] /\ m # n
    BY CloseFacts, FileFacts
  <1>5. to \notin Logging
    BY DEF ClosingPoint, Logging
  <1>6. to \in HasInR => from \in HasInR /\ in.r # n
    BY <1>1, FileFacts DEF ClosingPoint, FilesInv, HasInR, HasInW, HasOutR, Talking
  <1>7. to \in HasInW => from \in HasInW /\ in.w # n
    BY <1>1, FileFacts DEF ClosingPoint, FilesInv, HasInW, HasOutR
  <1>8. to \notin HasOutR /\ to \in HasOutW
    BY DEF ClosingPoint, HasOutR, HasOutW, Talking, Ending
  <1>9. from \in HasOutW /\ out.w # n
    BY <1>1, FileFacts DEF ClosingPoint, FilesInv, HasInR, HasInW, HasOutR, HasOutW, Talking, Ending
  <1>10. /\ to \in HasInR => FileAt(in.r)' = ReadEnd("in", c)
         /\ to \in HasInW => FileAt(in.w)' = WriteEnd("in", c)
         /\ FileAt(out.w)' = WriteEnd("out", c) /\ out.r # out.w
    <2>1. /\ to \in HasInR => FileAt(in.r) = ReadEnd("in", c)
          /\ to \in HasInW => FileAt(in.w) = WriteEnd("in", c)
          /\ FileAt(out.w) = WriteEnd("out", c) /\ out.r # out.w
      BY <1>1, <1>6, <1>7, <1>9 DEF FilesInv
    <2>2. QED BY <1>2, <1>3, <1>6, <1>7, <1>9, <2>1 DEF FileAt
  <1>11. \A m \in Nums : fds'[m][2] = c =>
           \/ m = in.r /\ to \in HasInR
           \/ m = in.w /\ to \in HasInW
           \/ fds'[m] = WriteEnd("out", c)
    <2>1. \A m \in Nums : fds'[m][2] = c =>
            \/ m = in.r /\ from \in HasInR
            \/ m = in.w /\ from \in HasInW
            \/ m = out.r /\ from \in HasOutR
            \/ fds'[m] = WriteEnd("out", c)
      BY <1>1, <1>4 DEF FilesInv, ClosingPoint, Logging
    <2>2. QED BY <1>4, <2>1 DEF ClosingPoint, HasInR, HasInW, HasOutR, Talking
  <1>12. QED
    BY <1>1, <1>5, <1>8, <1>10, <1>11 DEF FilesInv, FileAt

LEMMA ClosesStep ==
  ASSUME IInv, NEW c \in Channels, NEW n \in Nums \cup {Bad}, NEW from, NEW to,
         Goes(c, from, to), Closes(c, n), ClosingPoint(c, n, from, to)
  PROVE  IInv'
  <1>1. /\ TypeOK /\ ChildInv(c) /\ ExitInv(c)
        /\ intact => IntactInv(c)
        /\ intact => \A d \in Channels : LogInv(d)
    BY DEF IInv, IntactInv
  <1>2. /\ UNCHANGED <<missing, csp, response, valid, place, logfd, exit, ends, pipe, child, 
                       lock, log>>
        /\ pc' = [pc EXCEPT ![c] = to] /\ pc[c] = from /\ Close(c, n)
    BY DEF Closes, environment, results, Goes
  <1>3. /\ fds' \in [Nums -> Files \cup {NoFile}] /\ intact' \in BOOLEAN /\ (intact' => intact)
        /\ intact' => \A d \in Channels \ {c}, m \in Nums : 
                        fds'[m] = fds[m] \/ (fds[m][2] # d /\ fds'[m][2] # d)
    BY <1>1, <1>2, CloseFacts
  <1>4. \/ from \in {"closeOut", "closeIn"} /\ to \in {"closeIn", "send"}
        \/ from \in {"closeIn0", "closeOutAgain"} /\ to \in {"closeOutAgain", "waitpid"}
    BY DEF ClosingPoint
  <1>5. TypeOK'
    <2>1. to \in Points
      BY <1>4 DEF Points, Talking, Ending
    <2>2. pc' \in [Channels -> Points]
      BY <1>1, <1>2, <2>1 DEF TypeOK
    <2>3. QED BY <1>1, <1>2, <1>3, <2>2 DEF TypeOK
  <1>6. pc'[c] = to /\ \A d \in Channels \ {c} : pc'[d] = pc[d]
    BY <1>1, <1>2 DEF TypeOK
  <1>7. OthersKept(c)
    BY <1>2, <1>6 DEF OthersKept, ThreadKept, ChildKept
  <1>8. ChildInv(c)' /\ ExitInv(c)'
    BY <1>1, <1>2, <1>4, <1>6 DEF ChildInv, ExitInv, Logging, Opening, Ran
  <1>9. ASSUME intact, intact'
        PROVE  /\ OthersFilesKept(c) /\ PrintsKept /\ LogKept
               /\ FilesInv(c)' /\ LockInv(c)' /\ InheritedInv(c)' /\ TalkInv(c)'
    <2>1. FilesInv(c) /\ LockInv(c) /\ InheritedInv(c) /\ TalkInv(c)
      BY <1>1, <1>9 DEF IntactInv
    <2>2. OthersFilesKept(c)
      BY <1>2, <1>3, <1>9 DEF OthersFilesKept, FilesKept
    <2>3. PrintsKept /\ LogKept
      BY <1>1, <1>2, <1>4, GoesOn DEF Flushed, Ran
    <2>4. FilesInv(c)'
      BY <1>1, <1>2, <2>1, ClosedFiles
    <2>5. LockInv(c)'
      BY <1>2, <1>4, <1>6, <2>1 DEF LockInv, LogFile
    <2>6. InheritedInv(c)'
      <3>1. Alive(c)' <=> Alive(c)
        BY <1>2 DEF Alive
      <3>2. pc[c] \in Talking => pc'[c] \in Talking
        BY <1>2, <1>4, <1>6 DEF Talking
      <3>3. QED
        BY <1>2, <2>1, <2>3, <3>1, <3>2 DEF InheritedInv, PrintsKept, LogFile, ReadEnd, WriteEnd
    <2>7. TalkInv(c)'
      BY <1>2, <1>4, <1>6, <2>1 DEF TalkInv, Talking, Opening, Password, Reply, Ran
    <2>8. QED BY <2>2, <2>3, <2>4, <2>5, <2>6, <2>7
  <1>10. intact /\ intact' => \A d \in Channels : LogInv(d)'
    BY <1>1, <1>9, KeptLog
  <1>11. QED 
    BY <1>2, <1>3, <1>5, <1>7, <1>8, <1>9, <1>10, StepOf DEF environment

(* fork                                                                    *)
LEMMA ForkStep ==
  ASSUME IInv, NEW c \in Channels, Fork(c)
  PROVE  IInv'
  <1>1. /\ TypeOK /\ ChildInv(c) /\ ExitInv(c)
        /\ intact => IntactInv(c)
        /\ \A d \in Channels : ExitInv(d) /\ (intact => LogInv(d) /\ FilesInv(d))
    BY DEF IInv, IntactInv
  <1>2. /\ UNCHANGED <<missing, csp, response, valid, place, logfd, exit, ends, fds, pipe, lock, 
                       log, intact>>
        /\ pc' = [pc EXCEPT ![c] = "closeOut"] /\ pc[c] = "fork" /\ Goes(c, "fork", "closeOut")
    BY DEF Fork, environment, results, Goes
  <1> DEFINE forked == 
        [state |-> "forked", ran |-> FALSE, files |-> OpenFiles,
         stdin |-> FileAt(ends[c]["out"].r), stdout |-> FileAt(ends[c]["in"].w),
         buffers |-> {<<FileAt(logfd[d]), Entry(d)>> : d \in {d \in Channels : Printed(d)}}]
  <1>3. child' = child \/ child' = [child EXCEPT ![c] = forked]
    BY DEF Fork
  <1>4. forked \in Children
    <2>1. OpenFiles \in SUBSET Files
      BY <1>1 DEF OpenFiles, TypeOK
    <2>2. /\ FileAt(ends[c]["out"].r) \in Files \cup {NoFile}
          /\ FileAt(ends[c]["in"].w) \in Files \cup {NoFile}
      <3>1. ends[c]["out"].r \in Nums \cup {Bad} /\ ends[c]["in"].w \in Nums \cup {Bad}
        BY <1>1 DEF TypeOK
      <3>2. QED BY <1>1, <3>1, FileAtFacts
    <2>3. ASSUME NEW d \in Channels
          PROVE  <<FileAt(logfd[d]), Entry(d)>> \in (Files \cup {NoFile}) \X Items
      <3>1. logfd[d] \in Nums \cup {Bad}
        BY <1>1 DEF TypeOK
      <3>2. FileAt(logfd[d]) \in Files \cup {NoFile}
        BY <1>1, <3>1, FileAtFacts
      <3>3. Entry(d) \in Items
        BY DEF Entry, Items
      <3>4. QED BY <3>2, <3>3
    <2>4. forked.buffers \in SUBSET ((Files \cup {NoFile}) \X Items)
      BY <2>3
    <2>5. QED BY <2>1, <2>2, <2>4 DEF Children
  <1>5. forked.state = "forked" /\ ~forked.ran
    OBVIOUS

  <1> HIDE DEF forked
  <1>6. TypeOK'
    <2>1. child' \in [Channels -> Children]
      BY <1>1, <1>3, <1>4 DEF TypeOK
    <2>2. pc' \in [Channels -> Points]
      BY <1>1, <1>2 DEF TypeOK, Points, Talking
    <2>3. QED BY <1>1, <1>2, <2>1, <2>2 DEF TypeOK
  <1>7. /\ pc'[c] = "closeOut" /\ \A d \in Channels \ {c} : pc'[d] = pc[d]
        /\ \A d \in Channels \ {c} : child'[d] = child[d]
        /\ child'[c] = child[c] \/ child'[c] = forked
    BY <1>1, <1>2, <1>3 DEF TypeOK
  <1>8. child[c].state = "none" /\ ~Ran(c) /\ ~Ran(c)' /\ child'[c].state \in {"none", "forked"}
    BY <1>1, <1>2, <1>5, <1>7 DEF ChildInv, Ran
  <1>9. OthersKept(c)
    BY <1>2, <1>7 DEF OthersKept, ThreadKept, ChildKept
  <1>10. ChildInv(c)' /\ ExitInv(c)'
    BY <1>1, <1>2, <1>7, <1>8 DEF ChildInv, ExitInv, Logging, Opening
  <1>11. ASSUME intact
         PROVE  /\ OthersFilesKept(c) /\ PrintsKept /\ LogKept
                /\ FilesInv(c)' /\ LockInv(c)' /\ InheritedInv(c)' /\ TalkInv(c)'
    <2>1. FilesInv(c) /\ LockInv(c) /\ InheritedInv(c) /\ TalkInv(c)
      BY <1>1, <1>11 DEF IntactInv
    <2>2. OthersFilesKept(c)
      BY <1>2 DEF OthersFilesKept, FilesKept
    <2>3. Flushed => Flushed'
      BY <1>7, <1>8 DEF Flushed, Ran
    <2>4. PrintsKept /\ LogKept
      BY <1>1, <1>2, <2>3, GoesOn
    <2>5. FilesInv(c)'
      BY <1>2, <1>7, <2>1 DEF FilesInv, HasInR, HasInW, HasOutR, HasOutW, Logging, Talking, Ending,
         FileAt
    <2>6. LockInv(c)'
      BY <1>2, <2>1 DEF LockInv
    <2>7. InheritedInv(c)'
      <3>1. CASE child'[c] = child[c]
        <4>1. ~Alive(c)'
          BY <1>8, <3>1 DEF Alive
        <4>2. QED
          BY <2>1, <2>4, <3>1, <4>1 DEF InheritedInv, PrintsKept, LogFile
      <3>2. CASE child'[c] = forked
        <4>1. /\ FileAt(ends[c]["out"].r) = ReadEnd("out", c)
              /\ FileAt(ends[c]["in"].w) = WriteEnd("in", c)
          BY <1>2, <2>1 DEF FilesInv, HasOutR, HasInW
        <4>2. WriteEnd("in", c) \in OpenFiles
          <5>1. ends[c]["in"].w \in Nums \cup {Bad}
            BY <1>1 DEF TypeOK
          <5>2. WriteEnd("in", c) # NoFile
            BY FileFacts
          <5>3. QED BY <4>1, <5>1, <5>2 DEF OpenFiles, FileAt
        <4>3. /\ WriteEnd("in", c) \in forked.files
              /\ forked.stdin = ReadEnd("out", c) /\ forked.stdout = WriteEnd("in", c)
          BY <4>1, <4>2 DEF forked
        <4>4. ASSUME NEW b \in forked.buffers
              PROVE  \E d \in Channels : 
                       b[1] \in {LogFile(d, p) : p \in Places} /\ b[2] = Entry(d) /\ Printing(d)
          <5>1. PICK d \in Channels : Printed(d) /\ b = <<FileAt(logfd[d]), Entry(d)>>
            BY DEF forked
          <5>2. FileAt(logfd[d]) = LogFile(d, place[d]) /\ place[d] \in Places
            BY <1>1, <1>11, <5>1 DEF FilesInv, Printed, Logging, TypeOK
          <5>3. Printing(d)
            BY <1>1, <5>1 DEF Printed, Printing, ExitInv
          <5>4. QED BY <5>1, <5>2, <5>3
        <4>5. ASSUME NEW b \in forked.buffers
              PROVE  \E d \in Channels : 
                       b[1] \in {LogFile(d, p) : p \in Places} /\ b[2] = Entry(d)' /\ Printing(d)'
          BY <2>4, <4>4 DEF PrintsKept
        <4>6. QED
          BY <1>7, <3>2, <4>3, <4>5 DEF InheritedInv, Talking, ReadEnd, WriteEnd, LogFile
      <3>3. QED BY <1>7, <3>1, <3>2
    <2>8. TalkInv(c)'
      BY <1>2, <1>7, <1>8, <2>1 DEF TalkInv, Talking, Opening, Password, Reply
    <2>9. QED BY <2>2, <2>4, <2>5, <2>6, <2>7, <2>8
  <1>12. intact => \A d \in Channels : LogInv(d)'
    BY <1>1, <1>11, KeptLog
  <1>13. QED 
    BY <1>2, <1>6, <1>9, <1>10, <1>11, <1>12, StepOf DEF environment

-----------------------------------------------------------------------------
(* What is written goes to the pipe or to the log that it is written to.   *)
LEMMA WriteFacts ==
  ASSUME TypeOK, NEW f \in Files \cup {NoFile}, NEW item \in Items, Write(f, item)
  PROVE  /\ log' \in Seq(Items) /\ pipe' \in [Pipes -> Seq(Items)]
         /\ f[1] = "log" => pipe' = pipe /\ log' = Append(log, item)
         /\ f[1] # "log" => 
              /\ log' = log
              /\ \/ pipe' = pipe
                 \/ /\ f[1] \in {"in", "out"} /\ f[2] \in Channels
                    /\ pipe' = [pipe EXCEPT ![<<f[1], f[2]>>] = Append(@, item)]
  <1>1. CASE f[1] = "log"
    BY <1>1 DEF Write, TypeOK
  <1>2. CASE f[1] # "log" /\ ~Takes(f)
    BY <1>2 DEF Write, TypeOK
  <1>3. CASE f[1] # "log" /\ Takes(f)
    <2>1. f[1] \in {"in", "out"} /\ f[2] \in Channels
      BY <1>3, FileFacts DEF Takes
    <2>2. <<f[1], f[2]>> \in Pipes
      BY <2>1 DEF Pipes
    <2>3. log' = log /\ pipe' = [pipe EXCEPT ![<<f[1], f[2]>>] = Append(@, item)]
      BY <1>3 DEF Write
    <2>4. pipe[<<f[1], f[2]>>] \in Seq(Items)
      BY <2>2 DEF TypeOK
    <2>5. Append(pipe[<<f[1], f[2]>>], item) \in Seq(Items)
      BY <2>4
    <2>6. pipe' \in [Pipes -> Seq(Items)]
      BY <2>2, <2>3, <2>5 DEF TypeOK
    <2>7. QED BY <1>3, <2>1, <2>3, <2>6 DEF TypeOK
  <1>4. QED BY <1>1, <1>2, <1>3

(* The pipes of a channel are not those of others.                         *)
LEMMA PipesDiffer ==
  ASSUME NEW c \in Channels, NEW d \in Channels
  PROVE  /\ \A k \in {"in", "out"} : <<k, c>> \in Pipes
         /\ <<"in", c>> # <<"out", c>>
         /\ c # d => \A k, l \in {"in", "out"} : <<k, c>> # <<l, d>>
  BY DEF Pipes

LEMMA OneItem ==
  ASSUME NEW item
  PROVE  /\ Append(<<>>, item) = <<item>> /\ <<item>> # <<>>
         /\ Head(<<item>>) = item /\ Tail(<<item>>) = <<>>
  OBVIOUS

LEMMA SendStep ==
  ASSUME IInv, NEW c \in Channels, Send(c)
  PROVE  IInv'
  <1>1. /\ TypeOK /\ ChildInv(c) /\ ExitInv(c)
        /\ intact => IntactInv(c)
        /\ intact => \A d \in Channels : LogInv(d)
    BY DEF IInv, IntactInv
  <1>2. /\ UNCHANGED <<missing, csp, response, valid, place, logfd, exit, ends, fds, child, 
                       lock, intact>>
        /\ pc' = [pc EXCEPT ![c] = "receive"] /\ pc[c] = "send" /\ Goes(c, "send", "receive")
    BY DEF Send, environment, results, Goes
  <1> DEFINE f == FileAt(ends[c]["out"].w)
  <1>3. f \in Files \cup {NoFile} /\ Password(c) \in Items /\ Write(f, Password(c))
    <2>1. ends[c]["out"].w \in Nums \cup {Bad}
      BY <1>1 DEF TypeOK
    <2>2. QED BY <1>1, <2>1, FileAtFacts DEF Send, Password, Items
  <1>4. log' \in Seq(Items) /\ pipe' \in [Pipes -> Seq(Items)]
    BY <1>1, <1>3, WriteFacts
  <1>5. TypeOK'
    <2>1. pc' \in [Channels -> Points]
      BY <1>1, <1>2 DEF TypeOK, Points, Talking
    <2>2. QED BY <1>1, <1>2, <1>4, <2>1 DEF TypeOK
  <1>6. pc'[c] = "receive" /\ \A d \in Channels \ {c} : pc'[d] = pc[d]
    BY <1>1, <1>2 DEF TypeOK
  <1>7. OthersKept(c)
    BY <1>2, <1>6 DEF OthersKept, ThreadKept, ChildKept
  <1>8. ChildInv(c)' /\ ExitInv(c)'
    BY <1>1, <1>2, <1>6 DEF ChildInv, ExitInv, Logging, Opening, Ran
  <1>9. ASSUME intact
        PROVE  /\ OthersFilesKept(c) /\ PrintsKept /\ LogKept
               /\ FilesInv(c)' /\ LockInv(c)' /\ InheritedInv(c)' /\ TalkInv(c)'
    <2>1. FilesInv(c) /\ LockInv(c) /\ InheritedInv(c) /\ TalkInv(c)
      BY <1>1, <1>9 DEF IntactInv
    <2>2. f = WriteEnd("out", c) /\ f[1] = "out" /\ f[2] = c
      BY <1>2, <2>1, FileFacts DEF FilesInv, HasOutW, Talking
    <2>3. /\ log' = log
          /\ pipe' = pipe \/ pipe' = [pipe EXCEPT ![<<"out", c>>] = Append(@, Password(c))]
      BY <1>1, <1>3, <2>2, WriteFacts
    <2>4. /\ \A d \in Channels \ {c}, k \in {"in", "out"} : pipe'[<<k, d>>] = pipe[<<k, d>>]
          /\ pipe'[<<"in", c>>] = pipe[<<"in", c>>]
          /\ \/ pipe'[<<"out", c>>] = pipe[<<"out", c>>]
             \/ pipe'[<<"out", c>>] = Append(pipe[<<"out", c>>], Password(c))
      BY <1>1, <2>3, PipesDiffer DEF TypeOK
    <2>5. OthersFilesKept(c)
      BY <1>2, <2>4 DEF OthersFilesKept, FilesKept
    <2>6. PrintsKept /\ LogKept
      BY <1>1, <1>2, <2>3, GoesOn DEF Flushed, Ran
    <2>7. FilesInv(c)'
      BY <1>2, <1>6, <2>1 DEF FilesInv, HasInR, HasInW, HasOutR, HasOutW, Logging, Talking, Ending,
         FileAt
    <2>8. LockInv(c)'
      BY <1>2, <2>1 DEF LockInv
    <2>9. InheritedInv(c)'
      BY <1>2, <1>6, <2>1, <2>6 DEF InheritedInv, Alive, PrintsKept, Talking, LogFile, ReadEnd, 
         WriteEnd
    <2>10. TalkInv(c)'
      <3>1. pipe[<<"out", c>>] = <<>>
        BY <1>2, <2>1 DEF TalkInv
      <3>2. pipe'[<<"out", c>>] \in {<<>>, <<Password(c)>>}
        BY <2>4, <3>1, OneItem
      <3>3. QED
        BY <1>2, <1>6, <2>1, <2>4, <3>2 DEF TalkInv, Talking, Opening, Password, Reply, Ran
    <2>11. QED BY <2>5, <2>6, <2>7, <2>8, <2>9, <2>10
  <1>10. intact => \A d \in Channels : LogInv(d)'
    BY <1>1, <1>9, KeptLog
  <1>11. QED 
    BY <1>2, <1>5, <1>7, <1>8, <1>9, <1>10, StepOf DEF environment

(* What can be read from is a pipe of a channel.                           *)
Readable(f) == f[1] \in {"in", "out"} /\ f[3] = "r"

LEMMA ReadFacts ==
  ASSUME TypeOK, NEW f \in Files \cup {NoFile}, Readable(f), pipe[<<f[1], f[2]>>] # <<>>
  PROVE  /\ f[2] \in Channels /\ <<f[1], f[2]>> \in Pipes
         /\ Head(pipe[<<f[1], f[2]>>]) \in Items /\ Tail(pipe[<<f[1], f[2]>>]) \in Seq(Items)
  <1>1. f[1] \in {"in", "out"} /\ f[2] \in Channels
    BY FileFacts DEF Readable
  <1>2. <<f[1], f[2]>> \in Pipes
    BY <1>1 DEF Pipes
  <1>3. pipe[<<f[1], f[2]>>] \in Seq(Items)
    BY <1>2 DEF TypeOK
  <1>4. Head(pipe[<<f[1], f[2]>>]) \in Items /\ Tail(pipe[<<f[1], f[2]>>]) \in Seq(Items)
    BY <1>3
  <1>5. QED BY <1>1, <1>2, <1>4

(* A byte of the answer: there is one, from amqoampx and about c.          *)
LEMMA ReceiveByteStep ==
  ASSUME IInv, NEW c \in Channels, Receive(c), Goes(c, "receive", "receive")
  PROVE  IInv'
  <1>1. /\ TypeOK /\ ChildInv(c) /\ ExitInv(c)
        /\ intact => IntactInv(c)
        /\ intact => \A d \in Channels : LogInv(d)
    BY DEF IInv, IntactInv
  <1> DEFINE f == FileAt(ends[c]["in"].r)
             content == pipe[<<f[1], f[2]>>]
             byte == IF response[c] = "none" THEN FirstByte(Head(content)) ELSE response[c]
  <1>2. /\ UNCHANGED <<missing, csp, place, logfd, exit, ends, fds, child, log, lock, intact>>
        /\ pc[c] = "receive" /\ pc' = pc
    BY <1>1 DEF Receive, Goes, environment, TypeOK
  <1>3. /\ Readable(f) /\ content # <<>> /\ UNCHANGED valid
        /\ pipe' = [pipe EXCEPT ![<<f[1], f[2]>>] = Tail(@)]
        /\ response' = [response EXCEPT ![c] = byte]
    <2>1. ~Goes(c, "receive", "closeIn0")
      BY <1>1, <1>2 DEF Goes, TypeOK
    <2>2. QED BY <1>1, <2>1 DEF Receive, Readable, TypeOK
  <1>4. f \in Files \cup {NoFile}
    <2>1. ends[c]["in"].r \in Nums \cup {Bad}
      BY <1>1 DEF TypeOK
    <2>2. QED BY <1>1, <2>1, FileAtFacts
  <1> HIDE DEF f
  <1>5. /\ f[2] \in Channels /\ <<f[1], f[2]>> \in Pipes 
        /\ Head(content) \in Items /\ Tail(content) \in Seq(Items)
    BY <1>1, <1>3, <1>4, ReadFacts
  <1>6. TypeOK'
    <2>1. pipe' \in [Pipes -> Seq(Items)]
      BY <1>1, <1>3, <1>5 DEF TypeOK
    <2>2. byte \in {"+", "-", "none"}
      BY <1>1 DEF TypeOK, FirstByte
    <2>3. response' \in [Channels -> {"+", "-", "none"}]
      BY <1>1, <1>3, <2>2 DEF TypeOK
    <2>4. QED BY <1>1, <1>2, <1>3, <2>1, <2>3 DEF TypeOK
  <1>7. OthersKept(c)
    BY <1>1, <1>2, <1>3 DEF OthersKept, ThreadKept, ChildKept, TypeOK
  <1>8. ChildInv(c)' /\ ExitInv(c)'
    BY <1>1, <1>2 DEF ChildInv, ExitInv, Ran
  <1>9. ASSUME intact
        PROVE  /\ OthersFilesKept(c) /\ PrintsKept /\ LogKept
               /\ FilesInv(c)' /\ LockInv(c)' /\ InheritedInv(c)' /\ TalkInv(c)'
    <2>1. FilesInv(c) /\ LockInv(c) /\ InheritedInv(c) /\ TalkInv(c)
      BY <1>1, <1>9 DEF IntactInv
    <2>2. f = ReadEnd("in", c) /\ f[1] = "in" /\ f[2] = c
      BY <1>2, <2>1, FileFacts DEF FilesInv, HasInR, Talking, f
    <2>3. /\ \A d \in Channels \ {c}, k \in {"in", "out"} : pipe'[<<k, d>>] = pipe[<<k, d>>]
          /\ pipe'[<<"out", c>>] = pipe[<<"out", c>>]
          /\ pipe'[<<"in", c>>] = Tail(pipe[<<"in", c>>])
          /\ pipe[<<"in", c>>] # <<>>
      BY <1>1, <1>3, <2>2, PipesDiffer DEF TypeOK
    <2>4. OthersFilesKept(c)
      BY <1>2, <2>3 DEF OthersFilesKept, FilesKept
    <2>5. PrintsKept /\ LogKept
      BY <1>1, <1>2, <1>3, GoesOn DEF Flushed, Ran
    <2>6. FilesInv(c)' /\ LockInv(c)'
      BY <1>2, <2>1 DEF FilesInv, FileAt, LockInv
    <2>7. InheritedInv(c)'
      BY <1>2, <2>1, <2>5 DEF InheritedInv, Alive, PrintsKept, LogFile
    <2>8. TalkInv(c)'
      <3> DEFINE answer == Reply(c, csp[c] = "good")
      <3>1. /\ Ran(c) /\ child[c].state # "running" /\ pipe[<<"in", c>>] = <<answer>>
            /\ response[c] = "none"
        BY <1>2, <2>1, <2>3 DEF TalkInv, Talking
      <3>2. byte = IF csp[c] = "good" THEN "+" ELSE "-"
        <4>1. answer.kind = "answer" /\ answer.ok = (csp[c] = "good")
          BY DEF Reply
        <4>2. Head(content) = answer
          BY <2>2, <3>1, OneItem
        <4>3. FirstByte(answer) = IF csp[c] = "good" THEN "+" ELSE "-"
          BY <4>1 DEF FirstByte
        <4>4. QED BY <3>1, <4>2, <4>3
      <3> HIDE DEF byte, answer
      <3>3. response'[c] = (IF csp[c] = "good" THEN "+" ELSE "-") /\ pipe'[<<"in", c>>] = <<>>
        <4>1. response'[c] = byte
          BY <1>1, <1>3 DEF TypeOK
        <4>2. pipe'[<<"in", c>>] = <<>>
          BY <2>3, <3>1, OneItem
        <4>3. QED BY <3>2, <4>1, <4>2
      <3>4. Ran(c)' /\ child'[c].state # "running"
        BY <1>2, <3>1 DEF Ran
      <3>5. pc[c] \in Talking
        BY <1>2 DEF Talking
      <3>6. QED
        BY <1>2, <1>3, <2>1, <2>3, <3>3, <3>4, <3>5 DEF TalkInv, Password
    <2>9. QED BY <2>4, <2>5, <2>6, <2>7, <2>8
  <1>10. intact => \A d \in Channels : LogInv(d)'
    BY <1>1, <1>9, KeptLog
  <1>11. QED 
    BY <1>2, <1>6, <1>7, <1>8, <1>9, <1>10, StepOf DEF environment

(* The end of the file, or an error: as long as no file is gone that is    *)
(* the end, and amqoampx has answered, or will not do so.                  *)
LEMMA ReceiveEndStep ==
  ASSUME IInv, NEW c \in Channels, Receive(c), Goes(c, "receive", "closeIn0")
  PROVE  IInv'
  <1>1. /\ TypeOK /\ ChildInv(c) /\ ExitInv(c)
        /\ intact => IntactInv(c)
        /\ intact => \A d \in Channels : LogInv(d)
    BY DEF IInv, IntactInv
  <1> DEFINE f == FileAt(ends[c]["in"].r)
  <1>2. /\ UNCHANGED <<missing, csp, place, logfd, exit, ends, fds, child, log, lock, intact>>
        /\ pc[c] = "receive" /\ pc' = [pc EXCEPT ![c] = "closeIn0"]
    BY DEF Receive, Goes, environment
  <1>3. /\ Readable(f) => pipe[<<f[1], f[2]>>] = <<>> /\ ~Held(WriteEnd(f[1], f[2]))
        /\ valid' = [valid EXCEPT ![c] = Verdict(response[c])]
        /\ UNCHANGED <<pipe, response>>
    <2>1. ~Goes(c, "receive", "receive")
      BY <1>1, <1>2 DEF Goes, TypeOK
    <2>2. QED BY <2>1 DEF Receive, Readable
  <1>4. TypeOK'
    <2>1. pc' \in [Channels -> Points]
      BY <1>1, <1>2 DEF TypeOK, Points, Ending
    <2>2. valid' \in [Channels -> {0, 1}]
      BY <1>1, <1>3 DEF TypeOK, Verdict
    <2>3. QED BY <1>1, <1>2, <1>3, <2>1, <2>2 DEF TypeOK
  <1>5. /\ pc'[c] = "closeIn0" /\ valid'[c] = Verdict(response[c])
        /\ \A d \in Channels \ {c} : pc'[d] = pc[d] /\ valid'[d] = valid[d]
    BY <1>1, <1>2, <1>3 DEF TypeOK
  <1>6. OthersKept(c)
    BY <1>2, <1>3, <1>5 DEF OthersKept, ThreadKept, ChildKept
  <1>7. ChildInv(c)' /\ ExitInv(c)'
    BY <1>1, <1>2, <1>5 DEF ChildInv, ExitInv, Ran, Logging, Opening
  <1>8. ASSUME intact
        PROVE  /\ OthersFilesKept(c) /\ PrintsKept /\ LogKept
               /\ FilesInv(c)' /\ LockInv(c)' /\ InheritedInv(c)' /\ TalkInv(c)'
    <2>1. FilesInv(c) /\ LockInv(c) /\ InheritedInv(c) /\ TalkInv(c)
      BY <1>1, <1>8 DEF IntactInv
    <2>2. OthersFilesKept(c)
      BY <1>2, <1>3 DEF OthersFilesKept, FilesKept
    <2>3. PrintsKept /\ LogKept
      BY <1>1, <1>2, <1>3, <1>5, GoesOn DEF Flushed, Ran, Goes
    <2>4. FilesInv(c)'
      BY <1>2, <1>5, <2>1 DEF FilesInv, HasInR, HasInW, HasOutR, HasOutW, Logging, Talking, Ending,
         FileAt
    <2>5. LockInv(c)'
      BY <1>2, <2>1 DEF LockInv
    <2>6. ~Alive(c) /\ pipe[<<"in", c>>] = <<>>
      <3>1. f = ReadEnd("in", c)
        BY <1>2, <2>1 DEF FilesInv, HasInR, Talking
      <3>2. f[1] = "in" /\ f[2] = c /\ Readable(f)
        BY <3>1, FileFacts DEF Readable
      <3>3. pipe[<<"in", c>>] = <<>> /\ ~Held(WriteEnd("in", c))
        BY <1>3, <3>2
      <3>4. QED BY <2>1, <3>3 DEF InheritedInv, Held
    <2>7. InheritedInv(c)'
      BY <1>2, <2>1, <2>3, <2>6 DEF InheritedInv, PrintsKept, LogFile, Alive
    <2>8. TalkInv(c)'
      <3>1. Ran(c) => child[c].state # "running" /\ child[c].state \in {"ended", "reaped"}
        BY <1>1, <2>6 DEF ChildInv, Alive, TypeOK, Children
      <3>2. response[c] = IF Ran(c) THEN IF csp[c] = "good" THEN "+" ELSE "-" ELSE "none"
        BY <1>2, <2>1, <2>6, <3>1, OneItem DEF TalkInv, Talking
      <3>3. valid'[c] = 1 <=> csp[c] = "good" /\ Ran(c)
        BY <1>5, <3>2 DEF Verdict
      <3>4. Ran(c)' <=> Ran(c)
        BY <1>2 DEF Ran
      <3>5. pc'[c] \notin {"new", "fork", "closeOut", "closeIn", "send"} \cup Opening \cup Talking
        BY <1>5 DEF Opening, Talking
      <3>6. QED
        BY <1>2, <1>3, <2>1, <3>3, <3>4, <3>5 DEF TalkInv, Password
    <2>9. QED BY <2>2, <2>3, <2>4, <2>5, <2>7, <2>8
  <1>9. intact => \A d \in Channels : LogInv(d)'
    BY <1>1, <1>8, KeptLog
  <1>10. QED 
    BY <1>2, <1>4, <1>6, <1>7, <1>8, <1>9, StepOf DEF environment

(* A child of which only the state changes.                                *)
LEMMA StateOnly ==
  ASSUME NEW r \in Children, NEW s,
         s \in {"none", "forked", "exiting", "running", "answered", "ended", "reaped"}
  PROVE  LET q == [r EXCEPT !.state = s] IN
         /\ q \in Children /\ q.state = s /\ q.ran = r.ran /\ q.buffers = r.buffers
         /\ q.files = r.files /\ q.stdin = r.stdin /\ q.stdout = r.stdout
  BY DEF Children

(* waitpid: c's own child if it has one, which has ended or is reaped.     *)
LEMMA WaitPidStep ==
  ASSUME IInv, NEW c \in Channels, WaitPid(c)
  PROVE  IInv'
  <1>1. /\ TypeOK /\ ChildInv(c) /\ ExitInv(c)
        /\ intact => IntactInv(c)
        /\ intact => \A d \in Channels : LogInv(d)
    BY DEF IInv, IntactInv
  <1>2. /\ UNCHANGED <<missing, csp, response, valid, place, logfd, exit, ends, fds, pipe, 
                       log, lock, intact>>
        /\ pc[c] = "waitpid" /\ pc' = [pc EXCEPT ![c] = "fopen"] /\ Goes(c, "waitpid", "fopen")
    BY DEF WaitPid, Goes, environment, results
  <1>3. /\ \A d \in Channels : ChildKept(d)
        /\ child'[c].state \in {"none", "reaped"} /\ child' \in [Channels -> Children]
    <2>1. CASE \E d \in Channels : /\ child[d].state = "ended"
                                   /\ child[c].state = "none" \/ c = d
                                   /\ child' = [child EXCEPT ![d].state = "reaped"]
      <3>1. PICK d \in Channels : /\ child[d].state = "ended"
                                  /\ child[c].state = "none" \/ c = d
                                  /\ child' = [child EXCEPT ![d].state = "reaped"]
        BY <2>1
      <3> DEFINE r == [child[d] EXCEPT !.state = "reaped"]
      <3>2. child[d] \in Children
        BY <1>1 DEF TypeOK
      <3>3. r \in Children /\ r.state = "reaped"
        BY <3>2, StateOnly
      <3>4. child' = [child EXCEPT ![d] = r]
        BY <3>1
      <3>5. child'[d] = r /\ \A e \in Channels \ {d} : child'[e] = child[e]
        BY <1>1, <3>4 DEF TypeOK
      <3>6. child' \in [Channels -> Children]
        <4> HIDE DEF r
        <4>1. QED BY <1>1, <3>3, <3>4 DEF TypeOK
      <3>7. \A e \in Channels : ChildKept(e)
        BY <3>1, <3>5 DEF ChildKept
      <3>8. child'[c].state \in {"none", "reaped"}
        <4> HIDE DEF r
        <4>1. QED BY <3>1, <3>3, <3>5
      <3>9. QED BY <3>6, <3>7, <3>8
    <2>2. CASE child' = child /\ child[c].state \in {"none", "reaped"}
      BY <1>1, <2>2 DEF TypeOK, ChildKept
    <2>3. QED BY <2>1, <2>2 DEF WaitPid
  <1>4. \A d \in Channels : 
          /\ child'[d].ran = child[d].ran /\ child'[d].buffers = child[d].buffers
          /\ \/ child'[d].state = child[d].state 
             \/ child[d].state = "ended" /\ child'[d].state = "reaped"
    <2>1. ASSUME NEW d \in Channels
          PROVE  /\ child'[d].ran = child[d].ran /\ child'[d].buffers = child[d].buffers
                 /\ \/ child'[d].state = child[d].state 
                    \/ child[d].state = "ended" /\ child'[d].state = "reaped"
      <3>1. child[d] \in Children
        BY <1>1 DEF TypeOK
      <3> DEFINE q == [child[d] EXCEPT !.state = "reaped"]
      <3>2. q.state = "reaped" /\ q.ran = child[d].ran /\ q.buffers = child[d].buffers
        BY <3>1, StateOnly
      <3>3. child'[d] = child[d] \/ (child[d].state = "ended" /\ child'[d] = q)
        BY <1>3 DEF ChildKept
      <3> HIDE DEF q
      <3>4. QED BY <3>2, <3>3
    <2>2. QED BY <2>1
  <1>5. TypeOK'
    <2>1. pc' \in [Channels -> Points]
      BY <1>1, <1>2 DEF TypeOK, Points
    <2>2. QED BY <1>1, <1>2, <1>3, <2>1 DEF TypeOK
  <1>6. pc'[c] = "fopen" /\ \A d \in Channels \ {c} : pc'[d] = pc[d]
    BY <1>1, <1>2 DEF TypeOK
  <1>7. OthersKept(c)
    BY <1>2, <1>3, <1>6 DEF OthersKept, ThreadKept
  <1>8. /\ child'[c].ran = child[c].ran /\ child'[c].buffers = child[c].buffers
        /\ child'[c].state = "none" => ~Ran(c)
    BY <1>1, <1>3, <1>4 DEF ChildInv
  <1>9. ChildInv(c)' /\ ExitInv(c)'
    BY <1>1, <1>2, <1>3, <1>6, <1>8 DEF ChildInv, ExitInv, Ran, Logging, Opening
  <1>10. ASSUME intact
         PROVE  /\ OthersFilesKept(c) /\ PrintsKept /\ LogKept
                /\ FilesInv(c)' /\ LockInv(c)' /\ InheritedInv(c)' /\ TalkInv(c)'
    <2>1. FilesInv(c) /\ LockInv(c) /\ InheritedInv(c) /\ TalkInv(c)
      BY <1>1, <1>10 DEF IntactInv
    <2>2. OthersFilesKept(c)
      BY <1>2 DEF OthersFilesKept, FilesKept
    <2>3. Flushed => Flushed'
      BY <1>4 DEF Flushed, Ran
    <2>4. PrintsKept /\ LogKept
      BY <1>1, <1>2, <2>3, GoesOn
    <2>5. FilesInv(c)'
      BY <1>2, <1>6, <2>1 DEF FilesInv, HasInR, HasInW, HasOutR, HasOutW, Logging, Talking, Ending,
         FileAt
    <2>6. LockInv(c)'
      BY <1>2, <2>1 DEF LockInv
    <2>7. InheritedInv(c)'
      BY <1>3, <1>8, <2>1, <2>4 DEF InheritedInv, PrintsKept, LogFile, Alive
    <2>8. TalkInv(c)'
      BY <1>2, <1>6, <1>8, <2>1 DEF TalkInv, Password, Opening, Talking, Ran
    <2>9. QED BY <2>2, <2>4, <2>5, <2>6, <2>7, <2>8
  <1>11. intact => \A d \in Channels : LogInv(d)'
    BY <1>1, <1>10, KeptLog
  <1>12. QED 
    BY <1>2, <1>5, <1>7, <1>9, <1>10, <1>11, StepOf DEF environment

-----------------------------------------------------------------------------
(* The log.                                                                *)

LEMMA FopenStep ==
  ASSUME IInv, NEW c \in Channels, Fopen(c)
  PROVE  IInv'
  <1>1. /\ TypeOK /\ ChildInv(c) /\ ExitInv(c)
        /\ intact => IntactInv(c)
        /\ intact => \A d \in Channels : LogInv(d)
    BY DEF IInv, IntactInv
  <1> DEFINE n == Min(Free)
  <1>2. /\ UNCHANGED <<missing, csp, response, valid, place, exit, ends, pipe, child, lock, log, 
                       intact>>
        /\ pc[c] = "fopen" /\ pc' = [pc EXCEPT ![c] = "flock"] /\ Goes(c, "fopen", "flock")
        /\ fds' = [fds EXCEPT ![n] = LogFile(c, place[c])] 
        /\ logfd' = [logfd EXCEPT ![c] = n]
    BY DEF Fopen, Goes, environment
  <1>3. n \in Nums /\ fds[n] = NoFile /\ n # Bad
    <2>1. n \in Free
      BY NewNumber DEF Fopen
    <2> HIDE DEF n
    <2>2. QED BY <2>1, NumberFacts
  <1> HIDE DEF n
  <1>4. /\ LogFile(c, place[c]) \in Files /\ LogFile(c, place[c])[2] = c
    BY <1>1, FileFacts DEF TypeOK
  <1>5. /\ pc'[c] = "flock" /\ \A d \in Channels \ {c} : pc'[d] = pc[d] /\ logfd'[d] = logfd[d]
        /\ logfd'[c] = n /\ fds'[n] = LogFile(c, place[c])
        /\ \A m \in Nums \ {n} : fds'[m] = fds[m]
    BY <1>1, <1>2, <1>3 DEF TypeOK
  <1>6. TypeOK'
    <2>1. pc' \in [Channels -> Points]
      BY <1>1, <1>2 DEF TypeOK, Points, Logging
    <2>2. fds' \in [Nums -> Files \cup {NoFile}] /\ logfd' \in [Channels -> Nums \cup {Bad}]
      BY <1>1, <1>2, <1>3, <1>4 DEF TypeOK
    <2>3. QED BY <1>1, <1>2, <2>1, <2>2 DEF TypeOK
  <1>7. OthersKept(c)
    BY <1>2, <1>5 DEF OthersKept, ThreadKept, ChildKept
  <1>8. ChildInv(c)' /\ ExitInv(c)'
    BY <1>1, <1>2, <1>5 DEF ChildInv, ExitInv, Ran, Logging, Opening
  <1>9. ASSUME intact
        PROVE  /\ OthersFilesKept(c) /\ PrintsKept /\ LogKept
               /\ FilesInv(c)' /\ LockInv(c)' /\ InheritedInv(c)' /\ TalkInv(c)'
    <2>1. FilesInv(c) /\ LockInv(c) /\ InheritedInv(c) /\ TalkInv(c)
      BY <1>1, <1>9 DEF IntactInv
    <2>2. OthersFilesKept(c)
      <3>1. fds[n][2] = NoChannel /\ fds'[n][2] = c /\ NoChannel \notin Channels
        BY <1>3, <1>4, <1>5, FileFacts
      <3>2. \A d \in Channels \ {c}, m \in Nums : 
              fds'[m] = fds[m] \/ (fds[m][2] # d /\ fds'[m][2] # d)
        BY <1>5, <3>1
      <3>3. QED BY <1>2, <3>2 DEF OthersFilesKept, FilesKept
    <2>3. PrintsKept /\ LogKept
      BY <1>1, <1>2, GoesOn DEF Flushed, Ran
    <2>4. FilesInv(c)'
      <3>1. \A m \in Nums : fds[m][2] = c => fds[m] = WriteEnd("out", c)
        BY <1>2, <2>1 DEF FilesInv, HasInR, HasInW, HasOutR, Logging, Talking
      <3>2. pc'[c] \in Logging /\ pc'[c] \notin HasInR \cup HasInW \cup HasOutR \cup HasOutW
        BY <1>5 DEF HasInR, HasInW, HasOutR, HasOutW, Logging, Talking, Ending
      <3>3. FileAt(logfd[c])' = LogFile(c, place[c])
        BY <1>3, <1>5 DEF FileAt
      <3>4. \A m \in Nums : 
              fds'[m][2] = c => fds'[m] = WriteEnd("out", c) \/ m = logfd'[c]
        BY <1>5, <3>1
      <3>5. QED BY <1>2, <3>2, <3>3, <3>4 DEF FilesInv
    <2>5. LockInv(c)'
      BY <1>2, <2>1 DEF LockInv
    <2>6. InheritedInv(c)'
      BY <1>1, <1>2, <2>1, <2>3 DEF InheritedInv, PrintsKept, LogFile, Alive, ChildInv
    <2>7. TalkInv(c)'
      BY <1>2, <1>5, <2>1 DEF TalkInv, Password, Opening, Talking, Ran
    <2>8. QED BY <2>2, <2>3, <2>4, <2>5, <2>6, <2>7
  <1>10. intact => \A d \in Channels : LogInv(d)'
    BY <1>1, <1>9, KeptLog
  <1>11. QED 
    BY <1>2, <1>6, <1>7, <1>8, <1>9, <1>10, StepOf DEF environment

LEMMA FopenFailsStep ==
  ASSUME IInv, NEW c \in Channels, FopenFails(c)
  PROVE  IInv'
  <1>1. /\ TypeOK /\ ChildInv(c) /\ ExitInv(c)
        /\ intact => IntactInv(c)
        /\ intact => \A d \in Channels : LogInv(d)
    BY DEF IInv, IntactInv
  <1>2. /\ UNCHANGED <<missing, csp, response, valid, logfd, ends, fds, pipe, child, lock, log, 
                       intact>>
        /\ pc[c] = "fopen"
    BY DEF FopenFails, Goes, environment
  <1>3. PICK to \in {"fopen", "done"}, p \in Places, x \in {"OK", "CLOSE_CHANNEL", "FAILED"} : 
          /\ pc' = [pc EXCEPT ![c] = to] /\ place' = [place EXCEPT ![c] = p]
          /\ exit' = [exit EXCEPT ![c] = x] 
          /\ to = "fopen" => x = exit[c]
          /\ to = "done" => x = "FAILED"
    <2>1. /\ exit = [exit EXCEPT ![c] = exit[c]] /\ place = [place EXCEPT ![c] = place[c]]
          /\ exit[c] \in {"OK", "CLOSE_CHANNEL", "FAILED"} /\ place[c] \in Places
          /\ "default" \in Places
      BY <1>1 DEF TypeOK, Places
    <2>2. CASE Goes(c, "fopen", "fopen") /\ place' = [place EXCEPT ![c] = "default"] 
               /\ UNCHANGED exit
      BY <2>1, <2>2 DEF Goes
    <2>3. CASE Goes(c, "fopen", "done") /\ exit' = [exit EXCEPT ![c] = "FAILED"] 
               /\ UNCHANGED place
      BY <2>1, <2>3 DEF Goes
    <2>4. QED BY <2>2, <2>3 DEF FopenFails
  <1>4. /\ pc'[c] = to /\ exit'[c] = x
        /\ \A d \in Channels \ {c} : pc'[d] = pc[d] /\ exit'[d] = exit[d] /\ place'[d] = place[d]
    BY <1>1, <1>3 DEF TypeOK
  <1>5. TypeOK'
    <2>1. pc' \in [Channels -> Points]
      BY <1>1, <1>3 DEF TypeOK, Points
    <2>2. /\ place' \in [Channels -> Places] 
          /\ exit' \in [Channels -> {"OK", "CLOSE_CHANNEL", "FAILED"}]
      BY <1>1, <1>3 DEF TypeOK
    <2>3. QED BY <1>1, <1>2, <2>1, <2>2 DEF TypeOK
  <1>6. OthersKept(c)
    BY <1>2, <1>4 DEF OthersKept, ThreadKept, ChildKept
  <1>7. exit[c] = "OK" /\ (missing => csp[c] = "nothing")
    BY <1>1, <1>2 DEF ExitInv, TypeOK
  <1>8. ChildInv(c)' /\ ExitInv(c)'
    BY <1>1, <1>2, <1>3, <1>4, <1>7 DEF ChildInv, ExitInv, Ran, Logging, Opening
  <1>9. ASSUME intact
        PROVE  /\ OthersFilesKept(c) /\ PrintsKept /\ LogKept
               /\ FilesInv(c)' /\ LockInv(c)' /\ InheritedInv(c)' /\ TalkInv(c)'
    <2>1. FilesInv(c) /\ LockInv(c) /\ InheritedInv(c) /\ TalkInv(c)
      BY <1>1, <1>9 DEF IntactInv
    <2>2. OthersFilesKept(c)
      BY <1>2 DEF OthersFilesKept, FilesKept
    <2>3. PrintsKept
      BY <1>2, <1>4 DEF PrintsKept, Printing, Entry
    <2>4. LogKept
      BY <1>2, <1>3, <1>4 DEF LogKept, Flushed, Ran
    <2>5. FilesInv(c)'
      BY <1>2, <1>3, <1>4, <2>1 DEF FilesInv, HasInR, HasInW, HasOutR, HasOutW, Logging, Talking, 
         Ending, FileAt
    <2>6. LockInv(c)'
      BY <1>2, <2>1 DEF LockInv
    <2>7. InheritedInv(c)'
      BY <1>1, <1>2, <2>1, <2>3 DEF InheritedInv, PrintsKept, LogFile, Alive, ChildInv
    <2>8. TalkInv(c)'
      BY <1>2, <1>3, <1>4, <2>1 DEF TalkInv, Password, Opening, Talking, Ran
    <2>9. QED BY <2>2, <2>3, <2>4, <2>5, <2>6, <2>7, <2>8
  <1>10. intact => \A d \in Channels : LogInv(d)'
    BY <1>1, <1>9, KeptLog
  <1>11. QED 
    BY <1>2, <1>5, <1>6, <1>8, <1>9, <1>10, StepOf DEF environment

(* flock: of the log's own place, by the one that has it open.             *)
LEMMA FlockStep ==
  ASSUME IInv, NEW c \in Channels, Flock(c)
  PROVE  IInv'
  <1>1. /\ TypeOK /\ ChildInv(c) /\ ExitInv(c)
        /\ intact => IntactInv(c)
        /\ intact => \A d \in Channels : LogInv(d)
    BY DEF IInv, IntactInv
  <1> DEFINE f == FileAt(logfd[c])
  <1>2. /\ UNCHANGED <<missing, csp, response, valid, place, logfd, exit, ends, fds, pipe, child, 
                       log, intact>>
        /\ pc[c] = "flock" /\ pc' = [pc EXCEPT ![c] = "unlock"] /\ Goes(c, "flock", "unlock")
        /\ lock' = (IF f[1] = "log" THEN [lock EXCEPT ![f[3]] = f] ELSE lock)
    BY DEF Flock, Goes, environment, results
  <1>3. f \in Files \cup {NoFile}
    <2>1. logfd[c] \in Nums \cup {Bad}
      BY <1>1 DEF TypeOK
    <2>2. QED BY <1>1, <2>1, FileAtFacts
  <1>4. /\ pc'[c] = "unlock" /\ \A d \in Channels \ {c} : pc'[d] = pc[d]
    BY <1>1, <1>2 DEF TypeOK
  <1> HIDE DEF f
  <1>5. TypeOK'
    <2>1. pc' \in [Channels -> Points]
      BY <1>1, <1>2 DEF TypeOK, Points, Logging
    <2>2. lock' \in [Places -> Files \cup {NoFile}]
      BY <1>1, <1>2, <1>3 DEF TypeOK
    <2>3. QED BY <1>1, <1>2, <2>1, <2>2 DEF TypeOK
  <1>6. OthersKept(c)
    BY <1>2, <1>4 DEF OthersKept, ThreadKept, ChildKept
  <1>7. ChildInv(c)' /\ ExitInv(c)'
    BY <1>1, <1>2, <1>4 DEF ChildInv, ExitInv, Ran, Logging, Opening
  <1>8. ASSUME intact
        PROVE  /\ OthersFilesKept(c) /\ PrintsKept /\ LogKept
               /\ FilesInv(c)' /\ LockInv(c)' /\ InheritedInv(c)' /\ TalkInv(c)'
    <2>1. FilesInv(c) /\ LockInv(c) /\ InheritedInv(c) /\ TalkInv(c)
      BY <1>1, <1>8 DEF IntactInv
    <2>2. /\ f = LogFile(c, place[c]) /\ f[1] = "log" /\ f[2] = c /\ f[3] = place[c]
          /\ place[c] \in Places
      BY <1>1, <1>2, <2>1, FileFacts DEF FilesInv, Logging, TypeOK, f
    <2>3. lock'[place[c]] = f /\ \A p \in Places \ {place[c]} : lock'[p] = lock[p]
      BY <1>1, <1>2, <2>2 DEF TypeOK
    <2>4. OthersFilesKept(c)
      BY <1>2, <2>2, <2>3 DEF OthersFilesKept, FilesKept
    <2>5. PrintsKept /\ LogKept
      BY <1>1, <1>2, GoesOn DEF Flushed, Ran
    <2>6. FilesInv(c)'
      BY <1>2, <1>4, <2>1 DEF FilesInv, HasInR, HasInW, HasOutR, HasOutW, Logging, Talking, 
         Ending, FileAt
    <2>7. LockInv(c)'
      BY <1>2, <1>4, <2>1, <2>2, <2>3 DEF LockInv, LogFile
    <2>8. InheritedInv(c)'
      BY <1>1, <1>2, <2>1, <2>5 DEF InheritedInv, PrintsKept, LogFile, Alive, ChildInv, Logging
    <2>9. TalkInv(c)'
      BY <1>2, <1>4, <2>1 DEF TalkInv, Password, Opening, Talking, Ran
    <2>10. QED BY <2>4, <2>5, <2>6, <2>7, <2>8, <2>9
  <1>9. intact => \A d \in Channels : LogInv(d)'
    BY <1>1, <1>8, KeptLog
  <1>10. QED 
    BY <1>2, <1>5, <1>6, <1>7, <1>8, <1>9, StepOf DEF environment

LEMMA UnlockStep ==
  ASSUME IInv, NEW c \in Channels, Unlock(c)
  PROVE  IInv'
  <1>1. /\ TypeOK /\ ChildInv(c) /\ ExitInv(c)
        /\ intact => IntactInv(c)
        /\ intact => \A d \in Channels : LogInv(d)
    BY DEF IInv, IntactInv
  <1> DEFINE f == FileAt(logfd[c])
  <1>2. /\ UNCHANGED <<missing, csp, response, valid, place, logfd, exit, ends, fds, pipe, child, 
                       log, intact>>
        /\ pc[c] = "unlock" /\ pc' = [pc EXCEPT ![c] = "fclose"] /\ Goes(c, "unlock", "fclose")
        /\ lock' = [p \in Places |-> IF lock[p] = f THEN NoFile ELSE lock[p]]
    BY DEF Unlock, Goes, environment, results
  <1> HIDE DEF f
  <1>3. /\ pc'[c] = "fclose" /\ \A d \in Channels \ {c} : pc'[d] = pc[d]
    BY <1>1, <1>2 DEF TypeOK
  <1>4. TypeOK'
    <2>1. pc' \in [Channels -> Points]
      BY <1>1, <1>2 DEF TypeOK, Points, Logging
    <2>2. lock' \in [Places -> Files \cup {NoFile}]
      BY <1>1, <1>2 DEF TypeOK
    <2>3. QED BY <1>1, <1>2, <2>1, <2>2 DEF TypeOK
  <1>5. OthersKept(c)
    BY <1>2, <1>3 DEF OthersKept, ThreadKept, ChildKept
  <1>6. ChildInv(c)' /\ ExitInv(c)'
    BY <1>1, <1>2, <1>3 DEF ChildInv, ExitInv, Ran, Logging, Opening
  <1>7. ASSUME intact
        PROVE  /\ OthersFilesKept(c) /\ PrintsKept /\ LogKept
               /\ FilesInv(c)' /\ LockInv(c)' /\ InheritedInv(c)' /\ TalkInv(c)'
    <2>1. FilesInv(c) /\ LockInv(c) /\ InheritedInv(c) /\ TalkInv(c)
      BY <1>1, <1>7 DEF IntactInv
    <2>2. f = LogFile(c, place[c])
      BY <1>2, <2>1 DEF FilesInv, Logging, f
    <2>3. \A p \in Places : lock'[p] = lock[p] \/ lock'[p] = NoFile
      BY <1>2
    <2>4. OthersFilesKept(c)
      BY <1>2, <2>3, FileFacts DEF OthersFilesKept, FilesKept
    <2>5. PrintsKept /\ LogKept
      BY <1>1, <1>2, GoesOn DEF Flushed, Ran
    <2>6. FilesInv(c)'
      BY <1>2, <1>3, <2>1 DEF FilesInv, HasInR, HasInW, HasOutR, HasOutW, Logging, Talking, 
         Ending, FileAt
    <2>7. \A p \in Places : lock'[p][2] # c
      BY <1>2, <2>1, <2>2, FileFacts DEF LockInv
    <2>8. LockInv(c)'
      BY <2>7 DEF LockInv
    <2>9. InheritedInv(c)'
      BY <1>1, <1>2, <2>1, <2>5 DEF InheritedInv, PrintsKept, LogFile, Alive, ChildInv, Logging
    <2>10. TalkInv(c)'
      BY <1>2, <1>3, <2>1 DEF TalkInv, Password, Opening, Talking, Ran
    <2>11. QED BY <2>4, <2>5, <2>6, <2>8, <2>9, <2>10
  <1>8. intact => \A d \in Channels : LogInv(d)'
    BY <1>1, <1>7, KeptLog
  <1>9. QED 
    BY <1>2, <1>4, <1>5, <1>6, <1>7, <1>8, StepOf DEF environment

(* An entry of a thread that is appended to the log.                       *)
LEMMA EntriesAfter ==
  ASSUME log \in Seq(Items), NEW e \in Channels, log' = Append(log, Entry(e)), NEW d \in Channels
  PROVE  /\ EntriesOf(d)' = IF d = e THEN EntriesOf(d) \cup {Len(log) + 1} ELSE EntriesOf(d)
         /\ \A i \in EntriesOf(d) : log'[i] = log[i]
         /\ log'[Len(log) + 1] = Entry(e) /\ Len(log) + 1 \notin EntriesOf(d)
  <1>1. Entry(e).kind = "entry" /\ Entry(e).of = e /\ Entry(e) \in Items
    BY DEF Entry, Items
  <1>2. /\ Len(log) \in Nat /\ DOMAIN log = 1..Len(log) /\ DOMAIN log' = 1..Len(log) + 1
        /\ \A i \in 1..Len(log) : log'[i] = log[i]
        /\ log'[Len(log) + 1] = Entry(e)
    BY <1>1
  <1>3. QED BY <1>1, <1>2 DEF EntriesOf

LEMMA FcloseStep ==
  ASSUME IInv, NEW c \in Channels, Fclose(c)
  PROVE  IInv'
  <1>1. /\ TypeOK /\ ChildInv(c) /\ ExitInv(c)
        /\ intact => IntactInv(c)
        /\ intact => \A d \in Channels : LogInv(d)
    BY DEF IInv, IntactInv
  <1> DEFINE n == logfd[c]
             f == FileAt(n)
  <1>2. /\ UNCHANGED <<missing, csp, response, valid, place, logfd, exit, ends, child, lock>>
        /\ pc[c] = "fclose" /\ pc' = [pc EXCEPT ![c] = "done"]
        /\ Write(f, Entry(c)) /\ Close(c, n)
    BY DEF Fclose, Goes, environment, results
  <1>3. n \in Nums \cup {Bad} /\ f \in Files \cup {NoFile} /\ Entry(c) \in Items
    <2>1. n \in Nums \cup {Bad}
      BY <1>1 DEF TypeOK
    <2>2. QED BY <1>1, <2>1, FileAtFacts DEF Entry, Items
  <1> HIDE DEF f
  <1>4. /\ log' \in Seq(Items) /\ pipe' \in [Pipes -> Seq(Items)]
        /\ f[1] = "log" => pipe' = pipe /\ log' = Append(log, Entry(c))
    BY <1>1, <1>2, <1>3, WriteFacts
  <1>5. /\ fds' \in [Nums -> Files \cup {NoFile}] /\ intact' \in BOOLEAN /\ (intact' => intact)
        /\ \A m \in Nums : m # n => fds'[m] = fds[m]
        /\ n \in Nums => fds'[n] = NoFile
        /\ intact' => \A d \in Channels \ {c}, m \in Nums : 
                        fds'[m] = fds[m] \/ (fds[m][2] # d /\ fds'[m][2] # d)
    BY <1>1, <1>2, <1>3, CloseFacts
  <1>6. pc'[c] = "done" /\ \A d \in Channels \ {c} : pc'[d] = pc[d]
    BY <1>1, <1>2 DEF TypeOK
  <1>7. TypeOK'
    <2>1. pc' \in [Channels -> Points]
      BY <1>1, <1>2 DEF TypeOK, Points
    <2>2. QED BY <1>1, <1>2, <1>4, <1>5, <2>1 DEF TypeOK
  <1>8. OthersKept(c)
    BY <1>2, <1>6 DEF OthersKept, ThreadKept, ChildKept
  <1>9. ChildInv(c)' /\ ExitInv(c)'
    BY <1>1, <1>2, <1>6 DEF ChildInv, ExitInv, Ran, Logging, Opening
  <1>10. ASSUME intact, intact'
         PROVE  /\ OthersFilesKept(c) /\ PrintsKept
                /\ FilesInv(c)' /\ LockInv(c)' /\ InheritedInv(c)' /\ TalkInv(c)'
                /\ \A d \in Channels : LogInv(d)'
    <2>1. FilesInv(c) /\ LockInv(c) /\ InheritedInv(c) /\ TalkInv(c)
      BY <1>1, <1>10 DEF IntactInv
    <2>2. f = LogFile(c, place[c]) /\ f[1] = "log"
      BY <1>1, <1>2, <2>1, FileFacts DEF FilesInv, Logging, f, TypeOK
    <2>3. pipe' = pipe /\ log' = Append(log, Entry(c))
      BY <1>4, <2>2
    <2>4. OthersFilesKept(c)
      BY <1>2, <1>5, <1>10, <2>3 DEF OthersFilesKept, FilesKept
    <2>5. PrintsKept
      BY <1>2, <1>6 DEF PrintsKept, Printing, Entry
    <2>6. FilesInv(c)'
      <3>1. \A m \in Nums : fds[m][2] = c => fds[m] = WriteEnd("out", c) \/ m = n
        BY <1>2, <2>1 DEF FilesInv, HasInR, HasInW, HasOutR, Talking
      <3>2. pc'[c] \notin HasInR \cup HasInW \cup HasOutR \cup HasOutW \cup Logging
        BY <1>6 DEF HasInR, HasInW, HasOutR, HasOutW, Logging, Talking, Ending
      <3>3. \A m \in Nums : fds'[m][2] = c => fds'[m] = WriteEnd("out", c)
        BY <1>5, <3>1, FileFacts
      <3>4. QED BY <3>2, <3>3 DEF FilesInv
    <2>7. LockInv(c)'
      BY <1>2, <2>1 DEF LockInv
    <2>8. InheritedInv(c)'
      BY <1>1, <1>2, <2>1, <2>5 DEF InheritedInv, PrintsKept, LogFile, Alive, ChildInv, Logging
    <2>9. TalkInv(c)'
      BY <1>2, <1>6, <2>1, <2>3 DEF TalkInv, Password, Opening, Talking, Ran
    <2>10. Printing(c)' /\ Entry(c)' = Entry(c)
      <3>1. Printing(c)
        BY <1>1, <1>2 DEF Printing, ExitInv
      <3>2. QED BY <2>5, <3>1 DEF PrintsKept
    <2>11. ASSUME NEW d \in Channels
           PROVE  LogInv(d)'
      <3>1. /\ EntriesOf(d)' = IF d = c THEN EntriesOf(d) \cup {Len(log) + 1} ELSE EntriesOf(d)
            /\ \A i \in EntriesOf(d) : log'[i] = log[i]
            /\ log'[Len(log) + 1] = Entry(c)
        BY <1>1, <2>3, EntriesAfter DEF TypeOK
      <3>2. LogInv(d) /\ (Flushed' <=> Flushed)
        BY <1>1, <1>2, <1>10 DEF Flushed, Ran
      <3>3. \A i \in EntriesOf(d)' : log'[i] = Entry(d)' /\ Printing(d)'
        BY <2>5, <2>10, <3>1, <3>2 DEF LogInv, PrintsKept
      <3>4. pc'[d] = "done" /\ exit'[d] = "OK" => EntriesOf(d)' # {}
        BY <1>2, <1>6, <3>1, <3>2 DEF LogInv
      <3>5. ~Flushed' => /\ pc'[d] # "done" => EntriesOf(d)' = {}
                         /\ \A i, j \in EntriesOf(d)' : i = j
        BY <1>2, <1>6, <3>1, <3>2 DEF LogInv
      <3>6. QED BY <3>3, <3>4, <3>5 DEF LogInv
    <2>12. QED BY <2>4, <2>5, <2>6, <2>7, <2>8, <2>9, <2>11
  <1>11. QED 
    BY <1>2, <1>5, <1>7, <1>8, <1>9, <1>10, StepOf DEF environment

-----------------------------------------------------------------------------
(* Children.                                                               *)

LEMMA EndedFacts ==
  ASSUME NEW ran \in BOOLEAN
  PROVE  /\ Ended(ran) \in Children /\ Ended(ran).state = "ended" /\ Ended(ran).ran = ran
         /\ Ended(ran).buffers = {}
  BY DEF Ended, NoChild, Children

(* A step of a child leaves alone what threads have but pipes and the log. *)
ChildGoes(c, new) ==
  /\ UNCHANGED <<environment, results, pc, ends, fds, lock, intact>>
  /\ child' = [child EXCEPT ![c] = new]

LEMMA ChildStep ==
  ASSUME IInv, NEW c \in Channels, NEW new \in Children, ChildGoes(c, new), Alive(c),
         new.state \in {"exiting", "running", "answered", "ended"},
         new.state = "exiting" => ~new.ran,
         new.state \in {"running", "answered"} => new.ran,
         log' \in Seq(Items), pipe' \in [Pipes -> Seq(Items)],
         intact =>
           /\ \A d \in Channels \ {c}, k \in {"in", "out"} : pipe'[<<k, d>>] = pipe[<<k, d>>]
           /\ new.state # "ended" => 
                /\ new.files = child[c].files
                /\ new.stdin = child[c].stdin /\ new.stdout = child[c].stdout
           /\ new.buffers \in SUBSET child[c].buffers
           /\ TalkInv(c)'
           /\ PrintsKept => \A d \in Channels : LogInv(d)'
  PROVE  IInv'
  <1>1. /\ TypeOK /\ ChildInv(c) /\ ExitInv(c)
        /\ intact => IntactInv(c)
    BY DEF IInv
  <1>2. /\ UNCHANGED <<missing, csp, response, valid, place, logfd, exit, pc, ends, fds, lock, 
                       intact>>
        /\ child'[c] = new /\ \A d \in Channels \ {c} : child'[d] = child[d]
    BY <1>1 DEF ChildGoes, environment, results, TypeOK
  <1>3. TypeOK'
    <2>1. child' \in [Channels -> Children]
      BY <1>1 DEF ChildGoes, TypeOK
    <2>2. QED BY <1>1, <1>2, <2>1 DEF TypeOK
  <1>4. OthersKept(c)
    BY <1>2 DEF OthersKept, ThreadKept, ChildKept
  <1>5. ChildInv(c)' /\ ExitInv(c)'
    BY <1>1, <1>2 DEF ChildInv, ExitInv, Ran, Alive
  <1>6. ASSUME intact
        PROVE  /\ OthersFilesKept(c) /\ PrintsKept
               /\ FilesInv(c)' /\ LockInv(c)' /\ InheritedInv(c)'
    <2>1. FilesInv(c) /\ LockInv(c) /\ InheritedInv(c)
      BY <1>1, <1>6 DEF IntactInv
    <2>2. OthersFilesKept(c)
      BY <1>2, <1>6 DEF OthersFilesKept, FilesKept
    <2>3. PrintsKept
      BY <1>2 DEF PrintsKept, Printing, Entry
    <2>4. FilesInv(c)' /\ LockInv(c)'
      BY <1>2, <2>1 DEF FilesInv, FileAt, LockInv
    <2>5. InheritedInv(c)'
      <3>1. Alive(c)' => 
              /\ pc'[c] \in Talking
              /\ WriteEnd("in", c) \in child'[c].files
              /\ child'[c].stdin = ReadEnd("out", c) /\ child'[c].stdout = WriteEnd("in", c)
        BY <1>2, <1>6, <2>1 DEF InheritedInv, Alive
      <3>2. ASSUME NEW b \in child'[c].buffers
            PROVE  \E d \in Channels : 
                     b[1] \in {LogFile(d, p) : p \in Places} /\ b[2] = Entry(d)' /\ Printing(d)'
        BY <1>2, <1>6, <2>1, <2>3 DEF InheritedInv, PrintsKept
      <3>3. QED BY <3>1, <3>2 DEF InheritedInv, LogFile, ReadEnd, WriteEnd
    <2>6. QED BY <2>2, <2>3, <2>4, <2>5
  <1>7. QED 
    BY <1>2, <1>3, <1>4, <1>5, <1>6, StepOf DEF ChildGoes

(* Of the log and of others nothing changes.                               *)
LEMMA LogUntouched ==
  ASSUME UNCHANGED <<pc, exit, log>>, Flushed => Flushed', PrintsKept, NEW d \in Channels, LogInv(d)
  PROVE  LogInv(d)'
  BY KeptLog DEF LogKept

LEMMA ExecStep ==
  ASSUME IInv, NEW c \in Channels, Exec(c)
  PROVE  IInv'
  <1>1. /\ TypeOK /\ ChildInv(c)
        /\ intact => IntactInv(c)
        /\ intact => \A d \in Channels : LogInv(d)
    BY DEF IInv, IntactInv
  <1>2. child[c] \in Children /\ child[c].state = "forked" /\ Alive(c) /\ ~Ran(c)
    BY <1>1 DEF Exec, TypeOK, Alive, ChildInv
  <1>3. PICK new \in Children :
          /\ child' = [child EXCEPT ![c] = new]
          /\ \/ new.state = "running" /\ new.ran /\ new.buffers = {}
             \/ new.state = "exiting" /\ ~new.ran /\ new.buffers = child[c].buffers
          /\ new.files = child[c].files
          /\ new.stdin = child[c].stdin /\ new.stdout = child[c].stdout
    <2> DEFINE r == [child[c] EXCEPT !.state = "running", !.ran = TRUE, !.buffers = {}]
               e == [child[c] EXCEPT !.state = "exiting"]
    <2>1. /\ r \in Children /\ r.state = "running" /\ r.ran /\ r.buffers = {}
          /\ r.files = child[c].files /\ r.stdin = child[c].stdin /\ r.stdout = child[c].stdout
      BY <1>2 DEF Children
    <2>2. /\ e \in Children /\ e.state = "exiting" /\ ~e.ran /\ e.buffers = child[c].buffers
          /\ e.files = child[c].files /\ e.stdin = child[c].stdin /\ e.stdout = child[c].stdout
      BY <1>2, StateOnly DEF Ran
    <2>3. child' = [child EXCEPT ![c] = r] \/ child' = [child EXCEPT ![c] = e]
      BY <1>1 DEF Exec, TypeOK
    <2> HIDE DEF r, e
    <2>4. QED BY <2>1, <2>2, <2>3
  <1>4. /\ UNCHANGED <<missing, csp, response, valid, pc, exit, pipe, log>>
        /\ child'[c] = new /\ \A d \in Channels \ {c} : child'[d] = child[d]
    BY <1>1, <1>3 DEF Exec, environment, results, TypeOK
  <1>5. Flushed => Flushed'
    BY <1>2, <1>4 DEF Flushed, Ran
  <1>6. ASSUME intact
        PROVE  TalkInv(c)'
    <2>1. TalkInv(c) /\ pc[c] \in Talking
      BY <1>1, <1>2, <1>6 DEF IntactInv, InheritedInv
    <2>2. /\ pipe[<<"in", c>>] = <<>> /\ response[c] = "none"
      BY <1>2, <2>1 DEF TalkInv
    <2>3. Ran(c)' => child'[c].state = "running"
      BY <1>3, <1>4 DEF Ran
    <2>4. QED 
      BY <1>4, <2>1, <2>2, <2>3 DEF TalkInv, Password
  <1>7. ChildGoes(c, new)
    BY <1>3 DEF ChildGoes, Exec
  <1>8. log' \in Seq(Items) /\ pipe' \in [Pipes -> Seq(Items)]
    BY <1>1, <1>4 DEF TypeOK
  <1>9. intact /\ PrintsKept => \A d \in Channels : LogInv(d)'
    BY <1>1, <1>4, <1>5, LogUntouched
  <1>10. QED
    BY <1>2, <1>3, <1>4, <1>6, <1>7, <1>8, <1>9, ChildStep

LEMMA ExitStep ==
  ASSUME IInv, NEW c \in Channels, Exit(c)
  PROVE  IInv'
  <1>1. /\ TypeOK /\ ChildInv(c)
        /\ intact => IntactInv(c)
        /\ intact => \A d \in Channels : LogInv(d)
    BY DEF IInv, IntactInv
  <1> DEFINE new == Ended(TRUE)
  <1>2. child[c] \in Children /\ child[c].state = "answered" /\ Alive(c) /\ Ran(c)
    BY <1>1 DEF Exit, TypeOK, Alive, ChildInv
  <1>3. new \in Children /\ new.state = "ended" /\ new.ran /\ new.buffers = {}
    BY EndedFacts
  <1> HIDE DEF new
  <1>4. /\ UNCHANGED <<missing, csp, response, valid, pc, exit, pipe, log>>
        /\ child'[c] = new /\ \A d \in Channels \ {c} : child'[d] = child[d]
        /\ ChildGoes(c, new)
    BY <1>1 DEF Exit, environment, results, TypeOK, ChildGoes, new
  <1>5. Flushed => Flushed'
    BY <1>2, <1>4 DEF Flushed, Ran
  <1>6. ASSUME intact
        PROVE  TalkInv(c)'
    <2>1. TalkInv(c) 
      BY <1>1, <1>6 DEF IntactInv
    <2>2. Ran(c)' /\ child'[c].state # "running"
      BY <1>3, <1>4 DEF Ran
    <2>3. QED 
      BY <1>2, <1>4, <2>1, <2>2 DEF TalkInv, Password
  <1>7. log' \in Seq(Items) /\ pipe' \in [Pipes -> Seq(Items)]
    BY <1>1, <1>4 DEF TypeOK
  <1>8. intact /\ PrintsKept => \A d \in Channels : LogInv(d)'
    BY <1>1, <1>4, <1>5, LogUntouched
  <1>9. QED
    BY <1>2, <1>3, <1>4, <1>6, <1>7, <1>8, ChildStep

(* The child that leaves by exit(1), and what it has inherited.            *)
LEMMA ExitFailedStep ==
  ASSUME IInv, NEW c \in Channels, ExitFailed(c)
  PROVE  IInv'
  <1>1. /\ TypeOK /\ ChildInv(c)
        /\ intact => IntactInv(c)
        /\ intact => \A d \in Channels : LogInv(d)
    BY DEF IInv, IntactInv
  <1>2. child[c] \in Children /\ child[c].state = "exiting" /\ Alive(c) /\ ~Ran(c)
    BY <1>1 DEF ExitFailed, TypeOK, Alive, ChildInv
  <1>3. CASE child' = [child EXCEPT ![c] = Ended(FALSE)] /\ UNCHANGED <<log, pipe>>
    <2> DEFINE new == Ended(FALSE)
    <2>1. new \in Children /\ new.state = "ended" /\ ~new.ran /\ new.buffers = {}
      BY EndedFacts
    <2> HIDE DEF new
    <2>2. /\ UNCHANGED <<missing, csp, response, valid, pc, exit, pipe, log>>
          /\ child'[c] = new /\ \A d \in Channels \ {c} : child'[d] = child[d]
          /\ ChildGoes(c, new)
      BY <1>1, <1>3 DEF ExitFailed, environment, results, TypeOK, ChildGoes, new
    <2>3. Flushed'
      BY <2>1, <2>2 DEF Flushed, Ran
    <2>4. ASSUME intact
          PROVE  TalkInv(c)'
      <3>1. TalkInv(c) 
        BY <1>1, <2>4 DEF IntactInv
      <3>2. ~Ran(c)'
        BY <2>1, <2>2 DEF Ran
      <3>3. QED 
        BY <1>2, <2>2, <3>1, <3>2 DEF TalkInv, Password
    <2>5. log' \in Seq(Items) /\ pipe' \in [Pipes -> Seq(Items)]
      BY <1>1, <2>2 DEF TypeOK
    <2>6. intact /\ PrintsKept => \A d \in Channels : LogInv(d)'
      BY <1>1, <2>2, <2>3, LogUntouched
    <2>7. QED
      BY <1>2, <2>1, <2>2, <2>4, <2>5, <2>6, ChildStep
  <1>4. CASE \E b \in child[c].buffers :
               /\ child' = [child EXCEPT ![c].buffers = @ \ {b}]
               /\ Write(b[1], b[2])
    <2>1. PICK b \in child[c].buffers :
            /\ child' = [child EXCEPT ![c].buffers = @ \ {b}]
            /\ Write(b[1], b[2])
      BY <1>4
    <2> DEFINE new == [child[c] EXCEPT !.buffers = @ \ {b}]
    <2>2. /\ new \in Children /\ new.state = "exiting" /\ ~new.ran 
          /\ new.buffers \in SUBSET child[c].buffers
          /\ new.files = child[c].files
          /\ new.stdin = child[c].stdin /\ new.stdout = child[c].stdout
      BY <1>2 DEF Children, Ran
    <2>3. child' = [child EXCEPT ![c] = new]
      BY <2>1
    <2> HIDE DEF new
    <2>4. /\ UNCHANGED <<missing, csp, response, valid, pc, exit>>
          /\ child'[c] = new /\ \A d \in Channels \ {c} : child'[d] = child[d]
          /\ ChildGoes(c, new)
      BY <1>1, <2>3 DEF ExitFailed, environment, results, TypeOK, ChildGoes
    <2>5. b[1] \in Files \cup {NoFile} /\ b[2] \in Items
      BY <1>2 DEF Children
    <2>6. /\ log' \in Seq(Items) /\ pipe' \in [Pipes -> Seq(Items)]
          /\ b[1][1] = "log" => pipe' = pipe /\ log' = Append(log, b[2])
      BY <1>1, <2>1, <2>5, WriteFacts
    <2>7. ASSUME intact
          PROVE  /\ TalkInv(c)' /\ pipe' = pipe
                 /\ PrintsKept => \A d \in Channels : LogInv(d)'
      <3>1. PICK e \in Channels : 
              b[1] \in {LogFile(e, p) : p \in Places} /\ b[2] = Entry(e) /\ Printing(e)
        BY <1>1, <2>7 DEF IntactInv, InheritedInv
      <3>2. pipe' = pipe /\ log' = Append(log, Entry(e))
        BY <2>6, <3>1, FileFacts
      <3>3. Flushed'
        BY <2>2, <2>4 DEF Flushed, Ran
      <3>4. TalkInv(c)'
        <4>1. TalkInv(c) 
          BY <1>1, <2>7 DEF IntactInv
        <4>2. ~Ran(c)'
          BY <2>2, <2>4 DEF Ran
        <4>3. QED 
          BY <1>2, <2>4, <3>2, <4>1, <4>2 DEF TalkInv, Password
      <3>5. ASSUME PrintsKept, NEW d \in Channels
            PROVE  LogInv(d)'
        <4>1. /\ EntriesOf(d)' = IF d = e THEN EntriesOf(d) \cup {Len(log) + 1} ELSE EntriesOf(d)
              /\ \A i \in EntriesOf(d) : log'[i] = log[i]
              /\ log'[Len(log) + 1] = Entry(e)
          BY <1>1, <3>2, EntriesAfter DEF TypeOK
        <4>2. LogInv(d) /\ Entry(e)' = Entry(e) /\ Printing(e)'
          BY <1>1, <2>7, <3>1, <3>5 DEF PrintsKept
        <4>3. \A i \in EntriesOf(d)' : log'[i] = Entry(d)' /\ Printing(d)'
          BY <3>5, <4>1, <4>2 DEF LogInv, PrintsKept
        <4>4. pc'[d] = "done" /\ exit'[d] = "OK" => EntriesOf(d)' # {}
          BY <2>4, <4>1, <4>2 DEF LogInv
        <4>5. QED BY <3>3, <4>3, <4>4 DEF LogInv
      <3>6. QED BY <3>2, <3>4, <3>5
    <2>8. QED
      BY <1>2, <2>2, <2>4, <2>6, <2>7, ChildStep
  <1>5. QED BY <1>3, <1>4 DEF ExitFailed

(* amqoampx: as long as no file is gone it reads the password of its       *)
(* connection, and the answer goes to that connection's thread.            *)
LEMMA AmqoampxStep ==
  ASSUME IInv, NEW c \in Channels, Amqoampx(c)
  PROVE  IInv'
  <1>1. /\ TypeOK /\ ChildInv(c)
        /\ intact => IntactInv(c)
        /\ intact => \A d \in Channels : LogInv(d)
    BY DEF IInv, IntactInv
  <1> DEFINE new == [child[c] EXCEPT !.state = "answered"]
             f == child[c].stdin
             out == child[c].stdout
             content == pipe[<<f[1], f[2]>>]
             reply == Reply(c, Head(content) = Password(c) /\ csp[c] = "good")
             rest == [pipe EXCEPT ![<<f[1], f[2]>>] = Tail(@)]
  <1>2. child[c] \in Children /\ child[c].state = "running" /\ Alive(c) /\ Ran(c)
    BY <1>1 DEF Amqoampx, TypeOK, Alive, ChildInv
  <1>3. /\ new \in Children /\ new.state = "answered" /\ new.ran /\ new.buffers = child[c].buffers
        /\ new.files = child[c].files
        /\ new.stdin = child[c].stdin /\ new.stdout = child[c].stdout
    BY <1>2, StateOnly DEF Ran
  <1>4. f \in Files \cup {NoFile} /\ out \in Files \cup {NoFile} /\ reply \in Items
    BY <1>2 DEF Children, Reply, Items
  <1>5. /\ child' = [child EXCEPT ![c] = new]
        /\ UNCHANGED <<environment, results, pc, ends, fds, lock, intact>>
        /\ \/ /\ Readable(f) /\ content # <<>>
              /\ pipe' = (IF out[1] # "log" /\ Takes(out)
                          THEN [rest EXCEPT ![<<out[1], out[2]>>] = Append(@, reply)] ELSE rest)
              /\ log' = (IF out[1] = "log" THEN Append(log, reply) ELSE log)
           \/ /\ Readable(f) => content = <<>> /\ ~Held(WriteEnd(f[1], f[2]))
              /\ UNCHANGED <<pipe, log>>
    BY DEF Amqoampx, Readable
  <1> HIDE DEF new, reply
  <1>6. /\ UNCHANGED <<missing, csp, response, valid, pc, exit>>
        /\ child'[c] = new /\ \A d \in Channels \ {c} : child'[d] = child[d]
        /\ ChildGoes(c, new)
    BY <1>1, <1>5 DEF environment, results, TypeOK, ChildGoes
  <1>7. log' \in Seq(Items) /\ pipe' \in [Pipes -> Seq(Items)]
    <2>1. CASE Readable(f) /\ content # <<>>
      <3>1. Tail(content) \in Seq(Items) /\ <<f[1], f[2]>> \in Pipes
        BY <1>1, <1>4, <2>1, ReadFacts
      <3>2. rest \in [Pipes -> Seq(Items)]
        BY <1>1, <3>1 DEF TypeOK
      <3>3. Takes(out) /\ out[1] # "log" => <<out[1], out[2]>> \in Pipes
        BY <1>4, FileFacts DEF Takes, Pipes
      <3> HIDE DEF rest
      <3>4. \A p \in Pipes : [rest EXCEPT ![p] = Append(@, reply)] \in [Pipes -> Seq(Items)]
        BY <1>4, <3>2
      <3>5. pipe' \in [Pipes -> Seq(Items)]
        BY <1>5, <2>1, <3>2, <3>3, <3>4
      <3>6. log' \in Seq(Items)
        <4>1. log \in Seq(Items) /\ Append(log, reply) \in Seq(Items)
          BY <1>1, <1>4 DEF TypeOK
        <4>2. log' = log \/ log' = Append(log, reply)
          BY <1>5
        <4>3. QED BY <4>1, <4>2
      <3>7. QED BY <3>5, <3>6
    <2>2. CASE ~(Readable(f) /\ content # <<>>)
      BY <1>1, <1>5, <2>2 DEF TypeOK
    <2>3. QED BY <2>1, <2>2
  <1>8. Flushed => Flushed'
    BY <1>2, <1>6 DEF Flushed, Ran
  <1>9. ASSUME intact
        PROVE  /\ TalkInv(c)' /\ log' = log
               /\ \A d \in Channels \ {c}, k \in {"in", "out"} : pipe'[<<k, d>>] = pipe[<<k, d>>]
    <2>1. /\ FilesInv(c) /\ TalkInv(c) /\ pc[c] \in Talking
          /\ f = ReadEnd("out", c) /\ out = WriteEnd("in", c)
      BY <1>1, <1>2, <1>9 DEF IntactInv, InheritedInv
    <2>2. /\ f[1] = "out" /\ f[2] = c /\ Readable(f)
          /\ out[1] = "in" /\ out[2] = c /\ out[3] = "w"
      BY <2>1, FileFacts DEF Readable
    <2>3. Held(WriteEnd("out", c)) /\ Held(ReadEnd("in", c))
      <3>1. /\ FileAt(ends[c]["out"].w) = WriteEnd("out", c)
            /\ FileAt(ends[c]["in"].r) = ReadEnd("in", c)
        BY <2>1 DEF FilesInv, HasOutW, HasInR
      <3>2. ends[c]["out"].w \in Nums \cup {Bad} /\ ends[c]["in"].r \in Nums \cup {Bad}
        BY <1>1 DEF TypeOK
      <3>3. WriteEnd("out", c) # NoFile /\ ReadEnd("in", c) # NoFile
        BY FileFacts
      <3>4. QED BY <3>1, <3>2, <3>3 DEF FileAt, OpenFiles, Held
    <2>4. content # <<>> /\ content = pipe[<<"out", c>>] 
      BY <1>5, <2>2, <2>3
    <2>5. Takes(out)
      BY <2>2, <2>3 DEF Takes
    <2>6. /\ log' = log /\ pipe' = [rest EXCEPT ![<<"in", c>>] = Append(@, reply)]
          /\ rest = [pipe EXCEPT ![<<"out", c>>] = Tail(@)]
      BY <1>5, <2>2, <2>4, <2>5
    <2> HIDE DEF f, out, rest
    <2>7. /\ \A d \in Channels \ {c}, k \in {"in", "out"} : pipe'[<<k, d>>] = pipe[<<k, d>>]
          /\ pipe'[<<"out", c>>] = Tail(pipe[<<"out", c>>])
          /\ pipe'[<<"in", c>>] = Append(pipe[<<"in", c>>], reply)
      <3>1. DOMAIN rest = Pipes
        BY <1>1, <2>6 DEF TypeOK
      <3>2. /\ \A p \in Pipes \ {<<"out", c>>} : rest[p] = pipe[p]
            /\ rest[<<"out", c>>] = Tail(pipe[<<"out", c>>])
        BY <1>1, <2>6, PipesDiffer DEF TypeOK
      <3>3. /\ \A p \in Pipes \ {<<"in", c>>} : pipe'[p] = rest[p]
            /\ pipe'[<<"in", c>>] = Append(rest[<<"in", c>>], reply)
        BY <2>6, <3>1, PipesDiffer
      <3>4. QED BY <3>2, <3>3, PipesDiffer
    <2>8. pipe[<<"out", c>>] = <<Password(c)>> 
          /\ pipe[<<"in", c>>] = <<>> /\ response[c] = "none"
      BY <1>2, <2>1, <2>4 DEF TalkInv
    <2>9. reply = Reply(c, csp[c] = "good")
      BY <2>4, <2>8, OneItem DEF reply, Reply
    <2>10. pipe'[<<"out", c>>] = <<>> /\ pipe'[<<"in", c>>] = <<Reply(c, csp[c] = "good")>>
      BY <2>7, <2>8, <2>9, OneItem
    <2>11. Ran(c)' /\ child'[c].state # "running"
      BY <1>3, <1>6 DEF Ran
    <2>12. TalkInv(c)'
      <3>1. Reply(c, csp[c] = "good")' = Reply(c, csp[c] = "good")
        BY <1>6 DEF Reply
      <3>2. QED BY <1>6, <2>1, <2>8, <2>10, <2>11, <3>1 DEF TalkInv
    <2>13. QED BY <2>6, <2>7, <2>12
  <1>10. intact /\ PrintsKept => \A d \in Channels : LogInv(d)'
    BY <1>1, <1>6, <1>8, <1>9, LogUntouched
  <1>11. QED
    BY <1>2, <1>3, <1>6, <1>7, <1>9, <1>10, ChildStep

-----------------------------------------------------------------------------
LEMMA ThreadStep ==
  ASSUME IInv, NEW c \in Channels, Thread(c)
  PROVE  IInv'
  <1>1. TypeOK
    BY DEF IInv
  <1>2. ASSUME PipeIn(c) \/ PipeOut(c)
        PROVE  IInv'
    BY <1>2, PipeStep DEF PipeIn, PipeOut
  <1>3. ASSUME CloseOut(c) \/ CloseIn(c) \/ CloseIn0(c) \/ CloseOutAgain(c)
        PROVE  IInv'
    <2>1. /\ ends[c]["out"].r \in Nums \cup {Bad} /\ ends[c]["in"].r \in Nums \cup {Bad}
          /\ ends[c]["in"].w \in Nums \cup {Bad}
      BY <1>1 DEF TypeOK
    <2>2. CASE CloseOut(c)
      <3>1. ClosingPoint(c, ends[c]["out"].r, "closeOut", "closeIn")
        BY DEF ClosingPoint
      <3>2. QED BY <2>1, <2>2, <3>1, ClosesStep DEF CloseOut
    <2>3. CASE CloseIn(c)
      <3>1. ClosingPoint(c, ends[c]["in"].w, "closeIn", "send")
        BY DEF ClosingPoint
      <3>2. QED BY <2>1, <2>3, <3>1, ClosesStep DEF CloseIn
    <2>4. CASE CloseIn0(c)
      <3>1. ClosingPoint(c, ends[c]["in"].r, "closeIn0", "closeOutAgain")
        BY DEF ClosingPoint
      <3>2. QED BY <2>1, <2>4, <3>1, ClosesStep DEF CloseIn0
    <2>5. CASE CloseOutAgain(c)
      <3>1. ClosingPoint(c, ends[c]["out"].r, "closeOutAgain", "waitpid")
        BY DEF ClosingPoint
      <3>2. QED BY <2>1, <2>5, <3>1, ClosesStep DEF CloseOutAgain
    <2>6. QED BY <1>3, <2>2, <2>3, <2>4, <2>5
  <1>4. ASSUME Receive(c)
        PROVE  IInv'
    <2>1. Goes(c, "receive", "receive") \/ Goes(c, "receive", "closeIn0")
      BY <1>4 DEF Receive
    <2>2. QED BY <1>4, <2>1, ReceiveByteStep, ReceiveEndStep
  <1>5. QED
    BY <1>2, <1>3, <1>4, ForkStep, SendStep, WaitPidStep, FopenStep, FopenFailsStep, FlockStep,
       UnlockStep, FcloseStep DEF Thread, Validate, WriteOutputEntry

LEMMA NextInv ==
  ASSUME IInv, [Next]_vars
  PROVE  IInv'
  <1>1. ASSUME NEW c \in Channels, ChlExit(c) \/ Thread(c) \/ Child(c)
        PROVE  IInv'
    BY <1>1, ChlExitStep, ThreadStep, ExecStep, ExitFailedStep, AmqoampxStep, ExitStep DEF Child
  <1>2. CASE UNCHANGED vars
    <2>1. /\ TypeOK' <=> TypeOK
          /\ intact' = intact
      BY <1>2 DEF vars, TypeOK
    <2>2. ASSUME NEW c \in Channels
          PROVE  /\ ChildInv(c)' <=> ChildInv(c)
                 /\ ExitInv(c)' <=> ExitInv(c)
                 /\ FilesInv(c)' <=> FilesInv(c)
                 /\ LockInv(c)' <=> LockInv(c)
      BY <1>2 DEF vars, ChildInv, ExitInv, FilesInv, LockInv, Ran, FileAt
    <2>3. PrintsKept /\ LogKept
      BY <1>2 DEF vars, PrintsKept, LogKept, Printing, Entry, Flushed, Ran
    <2>4. ASSUME NEW c \in Channels
          PROVE  ThreadKept(c) /\ ChildKept(c) /\ FilesKept(c) /\ UNCHANGED environment
      BY <1>2 DEF vars, ThreadKept, ChildKept, FilesKept, environment
    <2>5. ASSUME NEW c \in Channels, intact
          PROVE  IntactInv(c)'
      <3>1. TypeOK /\ ChildInv(c) /\ IntactInv(c)
        BY <2>5 DEF IInv
      <3>2. InheritedInv(c)' 
        BY <2>3, <2>4, <3>1, KeptInherited DEF IntactInv, ThreadKept
      <3>3. TalkInv(c)' 
        BY <2>4, <3>1, KeptTalk DEF IntactInv
      <3>4. LogInv(c)'
        BY <2>3, <3>1, KeptLog DEF IntactInv
      <3>5. QED BY <2>2, <3>1, <3>2, <3>3, <3>4 DEF IntactInv
    <2>6. QED BY <2>1, <2>2, <2>5 DEF IInv
  <1>3. QED BY <1>1, <1>2 DEF Next

(* The inductive invariant holds of every behaviour: while intact, every   *)
(* thread has the files it opened (validateCredentials, writeOutputEntry). *)
THEOREM Invariance == Spec => []IInv
  <1>1. Init => IInv
    BY InitInv
  <1>2. IInv /\ [Next]_vars => IInv'
    BY NextInv
  <1>3. QED BY <1>1, <1>2, PTL DEF Spec

(* Of the descriptors of a call only the one for writing the password is   *)
(* left, the one that line 731 of connwarn.c does not close.               *)
THEOREM Descriptors == Spec => []OnlyPasswordEndLeft
  <1>1. IInv => OnlyPasswordEndLeft
    <2>1. ASSUME IInv, intact, NEW c \in Channels, Returned(c), NEW f \in OpenFiles, f[2] = c
          PROVE  f = WriteEnd("out", c)
      <3>1. FilesInv(c) /\ pc[c] = "done"
        BY <2>1 DEF IInv, IntactInv, Returned
      <3>2. PICK n \in Nums : f = fds[n]
        BY DEF OpenFiles
      <3>3. QED
        BY <2>1, <3>1, <3>2 DEF FilesInv, HasInR, HasInW, HasOutR, Talking, Logging
    <2>2. QED BY <2>1 DEF OnlyPasswordEndLeft
  <1>2. QED BY <1>1, Invariance, PTL

(* A call that has returned has reaped its child and given up its lock.    *)
THEOREM CleanedUp == Spec => []NothingBehind
  <1>1. IInv => NothingBehind
    BY DEF IInv, IntactInv, ChildInv, LockInv, NothingBehind, Returned
  <1>2. QED BY <1>1, Invariance, PTL

(* What a connection is reported as, and whether it is let through, is     *)
(* what its own credentials and its own amqoampx make of it.               *)
THEOREM Reports == Spec => []Reported
  <1>1. ASSUME IInv, intact, NEW c \in Channels, Returned(c)
        PROVE  /\ EntriesOf(c) # {} <=> exit[c] = "OK"
               /\ \A i \in EntriesOf(c) : log[i].ok <=> csp[c] = "good" /\ Ran(c)
               /\ Cardinality(EntriesOf(c)) > 1 => 
                    \E d \in Channels : child[d].state # "none" /\ ~Ran(d)
               /\ exit[c] = "CLOSE_CHANNEL" <=> missing /\ csp[c] # "nothing"
    <2>1. /\ TypeOK /\ ExitInv(c) /\ TalkInv(c) /\ LogInv(c) /\ pc[c] = "done"
      BY <1>1 DEF IInv, IntactInv, Returned
    <2>2. EntriesOf(c) # {} <=> exit[c] = "OK"
      BY <2>1 DEF LogInv, Printing
    <2>3. ASSUME NEW i \in EntriesOf(c)
          PROVE  log[i].ok <=> csp[c] = "good" /\ Ran(c)
      <3>1. log[i].ok <=> valid[c] # 0
        <4>1. log[i] = Entry(c)
          BY <2>1 DEF LogInv
        <4>2. Entry(c).ok = (valid[c] # 0)
          BY DEF Entry
        <4>3. QED BY <4>1, <4>2
      <3>2. valid[c] = 1 <=> csp[c] = "good" /\ Ran(c)
        BY <2>1 DEF TalkInv, Opening, Talking
      <3>3. valid[c] \in {0, 1}
        BY <2>1 DEF TypeOK
      <3>4. QED BY <3>1, <3>2, <3>3
    <2>4. ASSUME ~ \E d \in Channels : child[d].state # "none" /\ ~Ran(d)
          PROVE  ~(Cardinality(EntriesOf(c)) > 1)
      <3>1. ~Flushed
        BY <2>4 DEF Flushed
      <3>2. \A i, j \in EntriesOf(c) : i = j
        BY <2>1, <3>1 DEF LogInv
      <3>3. CASE EntriesOf(c) = {}
        BY <3>3, FS_EmptySet
      <3>4. CASE EntriesOf(c) # {}
        <4>1. PICK i : EntriesOf(c) = {i}
          BY <3>2, <3>4
        <4>2. Cardinality({i}) = 1
          BY FS_Singleton
        <4>3. QED BY <4>1, <4>2
      <3>5. QED BY <3>3, <3>4
    <2>5. exit[c] = "CLOSE_CHANNEL" <=> missing /\ csp[c] # "nothing"
      BY <2>1 DEF ExitInv
    <2>6. QED BY <2>2, <2>3, <2>4, <2>5
  <1>2. IInv => Reported
    BY <1>1 DEF Reported
  <1>3. QED BY <1>2, Invariance, PTL
=============================================================================
