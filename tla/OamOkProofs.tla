----------------------------- MODULE OamOkProofs -----------------------------
(***************************************************************************)
(* Proofs about the audit log of oamok, for any number of processes,       *)
(* threads and requests.                                                   *)
(***************************************************************************)
EXTENDS OamOk, TLAPS

Entries == [thread : Threads, call : Nat, text : Texts]

(* A thread is of its process.                                             *)
LEMMA ThreadsAreOfProcs ==
  \A t \in Threads : t[1] \in Procs /\ t # NoThread /\ t[1] # NoProc
  BY OamOkAssumption DEF Threads

LEMMA TypeStep == IInv /\ [Next]_vars => TypeOK'
  <1> SUFFICES ASSUME IInv, [Next]_vars PROVE TypeOK'
    OBVIOUS
  <1> USE DEF IInv, TypeOK, Places, InLock, Stages
  <1>1. ASSUME NEW p \in Procs, NEW isPrimary \in BOOLEAN, MQStart(p, isPrimary)
        PROVE  TypeOK'
    BY <1>1 DEF MQStart
  <1>2. ASSUME NEW p \in Procs, NEW isPrimary \in BOOLEAN, OATerm(p, isPrimary)
        PROVE  TypeOK'
    BY <1>2 DEF OATerm, CloseLog
  <1>3. ASSUME NEW t \in Threads, Request(t)
        PROVE  TypeOK'
    <2>1. calls'[t] \in Nat /\ calls' \in [Threads -> Nat]
      BY <1>3 DEF Request
    <2>2. granted' \in [Threads -> SUBSET Nat]
      <3>1. granted' = granted 
              \/ granted' = [granted EXCEPT ![t] = @ \cup {calls'[t]}]
        BY <1>3 DEF Request
      <3>2. calls'[t] \in Nat
        BY <2>1
      <3>3. granted[t] \cup {calls'[t]} \in SUBSET Nat
        BY <3>2
      <3>4. QED BY <3>1, <3>3
    <2>3. pc' \in [Threads -> Places]
      BY <1>3 DEF Request, Goto
    <2>4. QED BY <1>3, <2>1, <2>2, <2>3 DEF Request
  <1>4. ASSUME NEW t \in Threads, ThreadStep(t)
        PROVE  TypeOK'
    <2>1. t[1] \in Procs
      BY ThreadsAreOfProcs
    <2>2. CASE Rpt(t)
      BY <2>2 DEF Rpt, Goto
    <2>3. CASE Lock(t)
      BY <2>1, <2>3 DEF Lock, Goto
    <2>4. CASE SetLk(t)
      BY <2>1, <2>4 DEF SetLk, Goto
    <2>5. CASE WriteRecord(t)
      <3>1. Written(t, "record") \in Entries
        BY DEF Written, Entries, Texts
      <3>2. file' \in Seq(Entries)
        BY <2>5, <3>1 DEF WriteRecord, Entries
      <3>3. QED BY <2>5, <3>2 DEF WriteRecord, Goto, Entries
    <2>6. CASE WriteNewline(t)
      <3>1. Written(t, "newline") \in Entries
        BY DEF Written, Entries, Texts
      <3>2. file' \in Seq(Entries)
        BY <2>6, <3>1 DEF WriteNewline, Entries
      <3>3. QED BY <2>6, <3>2 DEF WriteNewline, Goto, Entries
    <2>7. CASE UnsetLk(t)
      BY <2>7 DEF UnsetLk, Goto
    <2>8. CASE Unlock(t)
      BY <2>1, <2>8 DEF Unlock, Goto
    <2>9. CASE Answer(t)
      BY <2>9 DEF Answer, Goto
    <2>10. QED
      BY <1>4, <2>2, <2>3, <2>4, <2>5, <2>6, <2>7, <2>8, <2>9 DEF ThreadStep
  <1>5. CASE UNCHANGED vars
    BY <1>5 DEF vars
  <1>6. QED
    BY <1>1, <1>2, <1>3, <1>4, <1>5 DEF Next

(* The mutex: a step of t disturbs it only between idle and lock.          *)
LEMMA MutexStep == IInv /\ [Next]_vars => MutexInv'
  <1> SUFFICES ASSUME IInv, [Next]_vars PROVE MutexInv'
    OBVIOUS
  <1> USE DEF IInv, TypeOK, MutexInv, InLock
  <1>1. ASSUME NEW p \in Procs, NEW isPrimary \in BOOLEAN,
               MQStart(p, isPrimary) \/ OATerm(p, isPrimary)
        PROVE  MutexInv'
    BY <1>1 DEF MQStart, OATerm
  <1>2. ASSUME NEW t \in Threads, Request(t)
        PROVE  MutexInv'
    BY <1>2 DEF Request, Goto
  <1>3. ASSUME NEW t \in Threads, ThreadStep(t)
        PROVE  MutexInv'
    <2>1. CASE Rpt(t) \/ SetLk(t) \/ WriteRecord(t) \/ WriteNewline(t)
               \/ UnsetLk(t) \/ Answer(t)
      BY <2>1 DEF Rpt, SetLk, WriteRecord, WriteNewline, UnsetLk, Answer, Goto
    <2>2. CASE Lock(t)
      BY <2>2, ThreadsAreOfProcs DEF Lock, Goto
    <2>3. CASE Unlock(t)
      BY <2>3, ThreadsAreOfProcs DEF Unlock, Goto
    <2>4. QED
      BY <1>3, <2>1, <2>2, <2>3 DEF ThreadStep
  <1>4. CASE UNCHANGED vars
    BY <1>4 DEF vars
  <1>5. QED
    BY <1>1, <1>2, <1>3, <1>4 DEF Next

(* The lock on the file goes when its holder's writer goes.                *)
LEMMA FlockStep == IInv /\ [Next]_vars => FlockInv'
  <1> SUFFICES ASSUME IInv, [Next]_vars PROVE FlockInv'
    OBVIOUS
  <1> USE DEF IInv, TypeOK, FlockInv, ThreadsOf
  <1>1. ASSUME NEW p \in Procs, NEW isPrimary \in BOOLEAN,
               MQStart(p, isPrimary) \/ OATerm(p, isPrimary)
        PROVE  FlockInv'
    BY <1>1 DEF MQStart, OATerm
  <1>2. ASSUME NEW t \in Threads, Request(t)
        PROVE  FlockInv'
    BY <1>2 DEF Request, Goto
  <1>3. ASSUME NEW t \in Threads, ThreadStep(t)
        PROVE  FlockInv'
    <2>1. CASE Rpt(t) \/ Lock(t) \/ WriteRecord(t) \/ WriteNewline(t)
               \/ Unlock(t) \/ Answer(t)
      BY <2>1 DEF Rpt, Lock, WriteRecord, WriteNewline, Unlock, Answer, Goto
    <2>2. CASE SetLk(t)
      BY <2>2, ThreadsAreOfProcs DEF SetLk, Goto
    <2>3. CASE UnsetLk(t)
      <3> SUFFICES ASSUME NEW p \in Procs, flock' = p
                   PROVE  \E u \in ThreadsOf(p) : 
                            pc'[u] \in {"record", "newline", "unsetlk"}
        BY Zenon DEF FlockInv
      <3>1. flock = p /\ p # t[1]
        BY <2>3, OamOkAssumption DEF UnsetLk
      <3>2. PICK u \in ThreadsOf(p) : pc[u] \in {"record", "newline", "unsetlk"}
        BY <3>1
      <3>3. u # t /\ u \in Threads
        BY <3>1, <3>2
      <3>4. pc'[u] = pc[u]
        BY <2>3, <3>3 DEF UnsetLk, Goto
      <3>5. QED BY <3>2, <3>4
    <2>4. QED
      BY <1>3, <2>1, <2>2, <2>3 DEF ThreadStep
  <1>4. CASE UNCHANGED vars
    BY <1>4 DEF vars
  <1>5. QED
    BY <1>1, <1>2, <1>3, <1>4 DEF Next

(* The log is open where requests are served.                              *)
LEMMA OpenStep == IInv /\ [Next]_vars => OpenInv'
  <1> SUFFICES ASSUME IInv, [Next]_vars PROVE OpenInv'
    OBVIOUS
  <1> USE DEF IInv, TypeOK, OpenInv, Serving
  <1>1. ASSUME NEW p \in Procs, NEW isPrimary \in BOOLEAN, MQStart(p, isPrimary)
        PROVE  OpenInv'
    <2>1. \A q \in Procs \ {p} : 
            /\ primary'[q] = primary[q] /\ stage'[q] = stage[q]
            /\ fd'[q] = fd[q]
      BY <1>1 DEF MQStart
    <2>2. primary'[p] <=> p = Primary
      <3>1. primary'[p] = (primary[p] \/ isPrimary)
        BY <1>1 DEF MQStart
      <3>2. isPrimary <=> p = Primary /\ stage[p] = "new"
        BY <1>1 DEF MQStart
      <3>3. stage[p] \in {"new", "serving"}
        BY <1>1 DEF MQStart
      <3>4. QED BY <3>1, <3>2, <3>3
    <2>3. stage'[p] # "new" /\ (Serving(p)' => fd'[p])
      BY <1>1 DEF MQStart
    <2>4. Serving(p) => Serving(p)'
      BY <1>1 DEF MQStart
    <2>5. pc' = pc
      BY <1>1 DEF MQStart
    <2>6. QED
      BY <2>1, <2>2, <2>3, <2>4, <2>5, ThreadsAreOfProcs
  <1>2. ASSUME NEW p \in Procs, NEW isPrimary \in BOOLEAN, OATerm(p, isPrimary)
        PROVE  OpenInv'
    BY <1>2, ThreadsAreOfProcs DEF OATerm, CloseLog, AllIdle, ThreadsOf
  <1>3. ASSUME NEW t \in Threads, Request(t)
        PROVE  OpenInv'
    BY <1>3 DEF Request, Goto
  <1>4. ASSUME NEW t \in Threads, ThreadStep(t)
        PROVE  OpenInv'
    BY <1>4 DEF ThreadStep, Rpt, Lock, SetLk, WriteRecord, WriteNewline,
                UnsetLk, Unlock, Answer, Goto
  <1>5. CASE UNCHANGED vars
    BY <1>5 DEF vars
  <1>6. QED
    BY <1>1, <1>2, <1>3, <1>4, <1>5 DEF Next

-----------------------------------------------------------------------------
(* What a write does to the file.                                          *)
LEMMA Appended ==
  ASSUME TypeOK, NEW t \in Threads, NEW text \in Texts,
         file' = Append(file, Written(t, text))
  PROVE  /\ Len(file) \in Nat
         /\ DOMAIN file = 1..Len(file)
         /\ DOMAIN file' = 1..(Len(file) + 1)
         /\ \A i \in 1..Len(file) : file'[i] = file[i]
         /\ file'[Len(file) + 1] = Written(t, text)
  <1>1. file \in Seq(Entries)
    BY DEF TypeOK, Entries
  <1>2. Written(t, text) \in Entries
    BY DEF TypeOK, Entries, Written
  <1>3. QED BY <1>1, <1>2

(* The threads of a process that are between lock and unlock are one.      *)
LEMMA OneInLock ==
  ASSUME IInv, NEW t \in Threads, NEW u \in Threads, t[1] = u[1],
         pc[t] \in InLock, pc[u] \in InLock
  PROVE  t = u
  BY DEF IInv, MutexInv

(* A step of no writer: a thread at newline is there to stay, with the     *)
(* request it had.                                                         *)
LEMMA LineKept ==
  ASSUME IInv, file' = file,
         \A t \in Threads : pc[t] = "newline" =>
           pc'[t] = "newline" /\ calls'[t] = calls[t]
  PROVE  LineInv'
  BY DEF IInv, LineInv, By, ThreadsOf, Written

LEMMA LineStep == IInv /\ [Next]_vars => LineInv'
  <1> SUFFICES ASSUME IInv, [Next]_vars PROVE LineInv'
    OBVIOUS
  <1> USE DEF IInv, TypeOK
  <1>1. ASSUME NEW p \in Procs, NEW isPrimary \in BOOLEAN,
               MQStart(p, isPrimary) \/ OATerm(p, isPrimary)
        PROVE  LineInv'
    BY <1>1, LineKept DEF MQStart, OATerm
  <1>2. ASSUME NEW t \in Threads, Request(t)
        PROVE  LineInv'
    BY <1>2, LineKept DEF Request, Goto
  <1>3. ASSUME NEW t \in Threads, 
               Rpt(t) \/ Lock(t) \/ SetLk(t) \/ UnsetLk(t) \/ Unlock(t) \/ Answer(t)
        PROVE  LineInv'
    BY <1>3, LineKept DEF Rpt, Lock, SetLk, UnsetLk, Unlock, Answer, Goto
  <1>4. ASSUME NEW t \in Threads, NEW text \in Texts, 
               file' = Append(file, Written(t, text)),
               calls' = calls,
               \A u \in Threads \ {t} : pc'[u] = pc[u],
               text = "record" => pc'[t] = "newline",
               \A u \in ThreadsOf(t[1]) : pc[u] = "newline" => u = t
        PROVE  LineInv'
    <2> DEFINE n == Len(file)
    <2>1. /\ n \in Nat /\ DOMAIN file = 1..n /\ DOMAIN file' = 1..(n + 1)
          /\ \A i \in 1..n : file'[i] = file[i]
          /\ file'[n + 1] = Written(t, text)
      BY <1>4, Appended
    <2> SUFFICES ASSUME NEW p \in Procs, NEW i \in By(p)',
                        file'[i].text = "record", \A k \in By(p)' : k <= i
                 PROVE  \E u \in ThreadsOf(p) : 
                          pc'[u] = "newline" /\ file'[i] = Written(u, "record")'
      BY DEF LineInv
    <2>2. i \in 1..(n + 1) /\ file'[i].thread[1] = p
      BY <2>1 DEF By
    <2>3. CASE i = n + 1
      <3>1. file'[i] = Written(t, text)
        BY <2>1, <2>3
      <3>2. text = "record" /\ t[1] = p
        BY <2>2, <3>1 DEF Written
      <3>3. t \in ThreadsOf(p) /\ file'[i] = Written(t, "record")'
        BY <1>4, <3>1, <3>2 DEF ThreadsOf, Written
      <3>4. QED BY <1>4, <3>2, <3>3
    <2>4. CASE i # n + 1
      <3>1. i \in 1..n /\ file'[i] = file[i]
        BY <2>1, <2>2, <2>4
      <3>2. n + 1 \notin By(p)'
        BY <2>1, <3>1
      <3>3. t[1] # p
        BY <2>1, <3>2 DEF By, Written
      <3>4. i \in By(p)
        BY <2>1, <2>2, <3>1 DEF By
      <3>5. \A k \in By(p) : k <= i
        BY <2>1 DEF By
      <3>6. PICK u \in ThreadsOf(p) : 
              pc[u] = "newline" /\ file[i] = Written(u, "record")
        BY <3>1, <3>4, <3>5 DEF LineInv
      <3>7. u \in Threads \ {t}
        BY <3>3, <3>6 DEF ThreadsOf
      <3>8. pc'[u] = "newline" /\ file'[i] = Written(u, "record")'
        BY <1>4, <3>1, <3>6, <3>7 DEF Written
      <3>9. QED BY <3>6, <3>8
    <2>5. QED BY <2>3, <2>4
  <1>5. ASSUME NEW t \in Threads, WriteRecord(t)
        PROVE  LineInv'
    <2>1. \A u \in ThreadsOf(t[1]) : pc[u] = "newline" => u = t
      BY <1>5, OneInLock DEF WriteRecord, Goto, ThreadsOf, InLock
    <2>2. pc'[t] = "newline" /\ \A u \in Threads \ {t} : pc'[u] = pc[u]
      BY <1>5 DEF WriteRecord, Goto
    <2>3. file' = Append(file, Written(t, "record")) /\ calls' = calls
      BY <1>5 DEF WriteRecord
    <2>4. QED BY <1>4, <2>1, <2>2, <2>3 DEF Texts
  <1>6. ASSUME NEW t \in Threads, WriteNewline(t)
        PROVE  LineInv'
    <2>1. \A u \in ThreadsOf(t[1]) : pc[u] = "newline" => u = t
      BY <1>6, OneInLock DEF WriteNewline, Goto, ThreadsOf, InLock
    <2>2. \A u \in Threads \ {t} : pc'[u] = pc[u]
      BY <1>6 DEF WriteNewline, Goto
    <2>3. file' = Append(file, Written(t, "newline")) /\ calls' = calls
      BY <1>6 DEF WriteNewline
    <2>4. QED BY <1>4, <2>1, <2>2, <2>3 DEF Texts
  <1>7. CASE UNCHANGED vars
    BY <1>7, LineKept DEF vars
  <1>8. QED
    BY <1>1, <1>2, <1>3, <1>5, <1>6, <1>7 DEF Next, ThreadStep

-----------------------------------------------------------------------------
(* A step that writes no record and brings no request.                     *)
LEMMA AuditKept ==
  ASSUME IInv, granted' = granted, calls' = calls,
         \A t \in Threads : Pending(t)' = Pending(t),
         \A t \in Threads : 
           /\ Records(t)' = Records(t)
           /\ \A i \in Records(t) : file'[i].call = file[i].call
  PROVE  AuditInv'
  <1>1. \A t \in Threads : Recorded(t)' = Recorded(t)
    BY DEF Recorded
  <1>2. QED BY <1>1 DEF IInv, AuditInv

LEMMA RecordsOfFile ==
  ASSUME file' = file
  PROVE  \A t : /\ Records(t)' = Records(t)
               /\ \A i \in Records(t) : file'[i].call = file[i].call
  BY DEF Records

LEMMA AuditStep == IInv /\ [Next]_vars => AuditInv'
  <1> SUFFICES ASSUME IInv, [Next]_vars PROVE AuditInv'
    OBVIOUS
  <1> USE DEF IInv, TypeOK
  <1>1. ASSUME NEW p \in Procs, NEW isPrimary \in BOOLEAN,
               MQStart(p, isPrimary) \/ OATerm(p, isPrimary)
        PROVE  AuditInv'
    BY <1>1, AuditKept, RecordsOfFile DEF MQStart, OATerm, Pending
  <1>2. ASSUME NEW t \in Threads, Request(t)
        PROVE  AuditInv'
    <2>1. /\ file' = file /\ pc[t] = "idle"
          /\ calls' = [calls EXCEPT ![t] = @ + 1]
          /\ \/ granted' = granted /\ pc' = pc
             \/ /\ granted' = [granted EXCEPT ![t] = @ \cup {calls'[t]}]
                /\ pc' = [pc EXCEPT ![t] = "rpt"]
      BY <1>2 DEF Request, Goto
    <2>2. \A u \in Threads : 
            /\ Records(u)' = Records(u) /\ Recorded(u)' = Recorded(u)
            /\ \A i \in Records(u) : file'[i].call = file[i].call
      BY <2>1, RecordsOfFile DEF Recorded
    <2> SUFFICES ASSUME NEW u \in Threads
                 PROVE  /\ granted'[u] \subseteq 1..calls'[u]
                        /\ Pending(u)' \subseteq granted'[u]
                        /\ Recorded(u) = granted'[u] \ Pending(u)'
      BY <2>2 DEF AuditInv
    <2>3. /\ granted[u] \subseteq 1..calls[u] /\ Pending(u) \subseteq granted[u]
          /\ Recorded(u) = granted[u] \ Pending(u)
      BY DEF AuditInv
    <2>4. CASE u # t
      BY <2>1, <2>3, <2>4 DEF Pending
    <2>5. CASE u = t
      <3>1. calls[t] \in Nat /\ calls'[t] = calls[t] + 1
        BY <2>1
      <3>2. granted[t] \subseteq 1..calls'[t] /\ calls'[t] \notin granted[t]
        BY <2>3, <2>5, <3>1
      <3>3. Pending(t) = {} /\ Recorded(t) = granted[t]
        BY <2>1, <2>3, <2>5 DEF Pending
      <3>4. CASE granted' = granted /\ pc' = pc
        BY <2>1, <2>5, <3>2, <3>3, <3>4 DEF Pending
      <3>5. CASE /\ granted' = [granted EXCEPT ![t] = @ \cup {calls'[t]}]
                 /\ pc' = [pc EXCEPT ![t] = "rpt"]
        <4>1. granted'[t] = granted[t] \cup {calls'[t]}
          BY <3>5
        <4>2. Pending(t)' = {calls'[t]}
          BY <3>5 DEF Pending
        <4>3. calls'[t] \in 1..calls'[t]
          BY <3>1
        <4>4. QED BY <2>5, <3>2, <3>3, <4>1, <4>2, <4>3
      <3>6. QED BY <2>1, <3>4, <3>5
    <2>6. QED BY <2>4, <2>5
  <1>3. ASSUME NEW t \in Threads, Rpt(t)
        PROVE  AuditInv'
    <2>1. fd[t[1]]
      BY <1>3, ThreadsAreOfProcs DEF Rpt, Goto, OpenInv
    <2>2. QED 
      BY <1>3, <2>1, AuditKept, RecordsOfFile DEF Rpt, Goto, Pending
  <1>4. ASSUME NEW t \in Threads, 
               Lock(t) \/ SetLk(t) \/ UnsetLk(t) \/ Unlock(t) \/ Answer(t)
        PROVE  AuditInv'
    BY <1>4, AuditKept, RecordsOfFile 
       DEF Lock, SetLk, UnsetLk, Unlock, Answer, Goto, Pending
  <1>5. ASSUME NEW t \in Threads, WriteNewline(t)
        PROVE  AuditInv'
    <2> DEFINE n == Len(file)
    <2>1. /\ n \in Nat /\ DOMAIN file = 1..n /\ DOMAIN file' = 1..(n + 1)
          /\ \A i \in 1..n : file'[i] = file[i]
          /\ file'[n + 1] = Written(t, "newline")
      BY <1>5, Appended DEF WriteNewline, Texts
    <2>2. file'[n + 1].text = "newline"
      BY <2>1 DEF Written
    <2>3. \A u \in Threads : 
            /\ Records(u)' = Records(u)
            /\ \A i \in Records(u) : file'[i].call = file[i].call
      BY <2>1, <2>2 DEF Records
    <2>4. \A u \in Threads : Pending(u)' = Pending(u)
      BY <1>5 DEF WriteNewline, Goto, Pending
    <2>5. QED BY <1>5, <2>3, <2>4, AuditKept DEF WriteNewline
  <1>6. ASSUME NEW t \in Threads, WriteRecord(t)
        PROVE  AuditInv'
    <2> DEFINE n == Len(file)
    <2>1. /\ n \in Nat /\ DOMAIN file = 1..n /\ DOMAIN file' = 1..(n + 1)
          /\ \A i \in 1..n : file'[i] = file[i]
          /\ file'[n + 1] = Written(t, "record")
      BY <1>6, Appended DEF WriteRecord, Texts
    <2>2. /\ file'[n + 1].thread = t /\ file'[n + 1].text = "record"
          /\ file'[n + 1].call = calls[t]
      BY <2>1 DEF Written
    <2>3. Records(t)' = Records(t) \cup {n + 1} /\ n + 1 \notin Records(t)
      BY <2>1, <2>2 DEF Records
    <2>4. \A u \in Threads : 
            /\ \A i \in Records(u) : file'[i].call = file[i].call
            /\ u # t => Records(u)' = Records(u)
      BY <2>1, <2>2 DEF Records
    <2>5. \A u \in Threads \ {t} : 
            /\ Pending(u)' = Pending(u) /\ Recorded(u)' = Recorded(u)
      <3> SUFFICES ASSUME NEW u \in Threads \ {t}
                   PROVE  Pending(u)' = Pending(u) /\ Recorded(u)' = Recorded(u)
        OBVIOUS
      <3>1. Pending(u)' = Pending(u)
        BY <1>6 DEF WriteRecord, Goto, Pending
      <3>2. Records(u)' = Records(u) /\ \A i \in Records(u) : file'[i].call = file[i].call
        BY <2>4
      <3>3. Recorded(u)' = Recorded(u)
        <4>1. Recorded(u)' = {file'[i].call : i \in Records(u)}
          BY <3>2 DEF Recorded
        <4>2. QED BY <3>2, <4>1 DEF Recorded
      <3>4. QED BY <3>1, <3>3
    <2>6. Pending(t) = {calls[t]} /\ Pending(t)' = {}
      BY <1>6 DEF WriteRecord, Goto, Pending
    <2>7. Recorded(t)' = Recorded(t) \cup {calls[t]}
      <3>1. Recorded(t)' = {file'[i].call : i \in Records(t) \cup {n + 1}}
        BY <2>3 DEF Recorded
      <3>2. Recorded(t) = {file'[i].call : i \in Records(t)}
        BY <2>4 DEF Recorded
      <3> HIDE DEF n
      <3>3. QED BY <2>2, <3>1, <3>2
    <2>8. calls[t] \in granted[t] /\ Recorded(t) = granted[t] \ {calls[t]}
      BY <2>6 DEF AuditInv
    <2>9. \A i \in Records(t) : file[i].call # calls[t]
      BY <2>8 DEF Recorded
    <2>10. granted' = granted /\ calls' = calls
      BY <1>6 DEF WriteRecord
    <2> SUFFICES ASSUME NEW u \in Threads
                 PROVE  /\ Pending(u)' \subseteq granted[u]
                        /\ Recorded(u)' = granted[u] \ Pending(u)'
                        /\ \A i, j \in Records(u)' : 
                             file'[i].call = file'[j].call => i = j
      BY <2>10 DEF AuditInv
    <2>11. CASE u # t
      BY <2>4, <2>5, <2>11 DEF AuditInv
    <2>12. CASE u = t
      <3>1. Recorded(t)' = granted[t] \ Pending(t)'
        BY <2>6, <2>7, <2>8
      <3>2. \A i, j \in Records(t)' : file'[i].call = file'[j].call => i = j
        <4> SUFFICES ASSUME NEW i \in Records(t)', NEW j \in Records(t)',
                            file'[i].call = file'[j].call
                     PROVE  i = j
          OBVIOUS
        <4>1. CASE i = n + 1 \/ j = n + 1
          <5> HIDE DEF n
          <5>1. QED BY <2>2, <2>3, <2>4, <2>9, <4>1
        <4>2. CASE i # n + 1 /\ j # n + 1
          <5>1. i \in Records(t) /\ j \in Records(t)
            BY <2>3, <4>2
          <5>2. file[i].call = file[j].call
            BY <2>4, <5>1
          <5>3. QED BY <5>1, <5>2 DEF AuditInv
        <4>3. QED BY <4>1, <4>2
      <3>3. QED BY <2>6, <2>12, <3>1, <3>2
    <2>13. QED BY <2>11, <2>12
  <1>7. CASE UNCHANGED vars
    BY <1>7, AuditKept, RecordsOfFile DEF vars, Pending
  <1>8. QED
    BY <1>1, <1>2, <1>3, <1>4, <1>5, <1>6, <1>7 DEF Next, ThreadStep

-----------------------------------------------------------------------------
(* The invariant of the audit log holds for every queue manager.           *)
THEOREM Invariance == Spec => []IInv
  <1>1. Init => IInv
    <2> SUFFICES ASSUME Init PROVE IInv
      OBVIOUS
    <2>1. TypeOK
      BY OamOkAssumption DEF Init, TypeOK, Stages, Places, InLock
    <2>2. MutexInv
      BY ThreadsAreOfProcs DEF Init, MutexInv, InLock
    <2>3. FlockInv /\ OpenInv
      BY OamOkAssumption DEF Init, FlockInv, OpenInv, Serving
    <2>4. LineInv
      BY DEF Init, LineInv, By
    <2>5. AuditInv
      BY DEF Init, AuditInv, Records, Recorded, Pending
    <2>6. QED BY <2>1, <2>2, <2>3, <2>4, <2>5 DEF IInv
  <1>2. IInv /\ [Next]_vars => IInv'
    BY TypeStep, MutexStep, FlockStep, OpenStep, LineStep, AuditStep DEF IInv
  <1>3. QED 
    BY <1>1, <1>2, PTL DEF Spec

(* Every granted request has one record when its call has come back.       *)
THEOREM AuditIsComplete == Spec => []AuditComplete
  <1>1. IInv => AuditComplete
    BY DEF IInv, AuditInv, AuditComplete, Pending
  <1>2. QED BY <1>1, Invariance, PTL

-----------------------------------------------------------------------------
(* A write after the last of the process, by the only thread that can      *)
(* write: the newline of the last record, or a record after a newline.     *)
LEMMA InterleaveStep == 
  IInv /\ [Next]_vars /\ ThreadsDontInterleave => ThreadsDontInterleave'
  <1> SUFFICES ASSUME IInv, [Next]_vars, ThreadsDontInterleave 
               PROVE  ThreadsDontInterleave'
    OBVIOUS
  <1> USE DEF IInv, TypeOK
  <1>1. CASE file' = file
    BY <1>1 DEF ThreadsDontInterleave, By
  <1>2. ASSUME NEW t \in Threads, NEW text \in Texts,
               file' = Append(file, Written(t, text)),
               pc[t] \in InLock,
               pc[t] = "newline" => text = "newline"
        PROVE  ThreadsDontInterleave'
    <2> DEFINE n == Len(file)
    <2>1. /\ n \in Nat /\ DOMAIN file = 1..n /\ DOMAIN file' = 1..(n + 1)
          /\ \A i \in 1..n : file'[i] = file[i]
          /\ file'[n + 1] = Written(t, text)
      BY <1>2, Appended
    <2> SUFFICES ASSUME NEW p \in Procs, NEW i \in By(p)', NEW j \in By(p)',
                        file'[i].text = "record", i < j,
                        \A k \in By(p)' : ~(i < k /\ k < j)
                 PROVE  file'[j] = NewlineOf(file'[i])
      BY DEF ThreadsDontInterleave
    <2>2. i \in 1..n /\ j \in 1..(n + 1)
      BY <2>1 DEF By
    <2>3. i \in By(p) /\ file'[i] = file[i]
      BY <2>1, <2>2 DEF By
    <2>4. By(p) \subseteq By(p)'
      BY <2>1 DEF By
    <2>5. CASE j # n + 1
      <3>1. j \in By(p) /\ file'[j] = file[j]
        BY <2>1, <2>2, <2>5 DEF By
      <3>2. \A k \in By(p) : ~(i < k /\ k < j)
        BY <2>4
      <3>3. file[j] = NewlineOf(file[i])
        BY <2>3, <3>1, <3>2 DEF ThreadsDontInterleave
      <3>4. QED BY <2>3, <3>1, <3>3
    <2>6. CASE j = n + 1
      <3>1. \A k \in By(p) : k <= i
        <4> SUFFICES ASSUME NEW k \in By(p) PROVE k <= i
          OBVIOUS
        <4>1. k \in 1..n /\ k \in By(p)'
          BY <2>1, <2>4 DEF By
        <4>2. QED BY <2>1, <2>2, <2>6, <4>1
      <3>2. PICK u \in ThreadsOf(p) : 
              pc[u] = "newline" /\ file[i] = Written(u, "record")
        BY <2>3, <3>1 DEF LineInv
      <3>3. t[1] = p
        BY <2>1, <2>6 DEF By, Written
      <3>4. u = t
        BY <1>2, <3>2, <3>3, OneInLock DEF ThreadsOf, InLock
      <3>5. file'[j] = Written(t, "newline") /\ file'[i] = Written(t, "record")
        BY <1>2, <2>1, <2>3, <2>6, <3>2, <3>4
      <3>6. QED BY <3>5 DEF Written, NewlineOf
    <2>7. QED BY <2>5, <2>6
  <1>3. ASSUME NEW t \in Threads, WriteRecord(t)
        PROVE  ThreadsDontInterleave'
    <2>1. pc[t] = "record" /\ file' = Append(file, Written(t, "record"))
      BY <1>3 DEF WriteRecord, Goto
    <2>2. QED BY <1>2, <2>1 DEF InLock, Texts
  <1>4. ASSUME NEW t \in Threads, WriteNewline(t)
        PROVE  ThreadsDontInterleave'
    <2>1. pc[t] = "newline" /\ file' = Append(file, Written(t, "newline"))
      BY <1>4 DEF WriteNewline, Goto
    <2>2. QED BY <1>2, <2>1 DEF InLock, Texts
  <1>5. CASE \/ \E p \in Procs, isPrimary \in BOOLEAN : 
                  MQStart(p, isPrimary) \/ OATerm(p, isPrimary)
             \/ \E t \in Threads : 
                  \/ Request(t) \/ Rpt(t) \/ Lock(t) \/ SetLk(t)
                  \/ UnsetLk(t) \/ Unlock(t) \/ Answer(t)
    BY <1>1, <1>5 DEF MQStart, OATerm, Request, Rpt, Lock, SetLk, UnsetLk, 
                      Unlock, Answer
  <1>6. CASE UNCHANGED vars
    BY <1>1, <1>6 DEF vars
  <1>7. QED
    BY <1>3, <1>4, <1>5, <1>6 DEF Next, ThreadStep

(* The threads of one process never run their lines together.              *)
THEOREM LinesOfAProcess == Spec => []ThreadsDontInterleave
  <1>1. Init => ThreadsDontInterleave
    BY DEF Init, ThreadsDontInterleave, By
  <1>2. QED BY <1>1, InterleaveStep, Invariance, PTL DEF Spec
=============================================================================
