------------------------------- MODULE OamOk -------------------------------
(***************************************************************************)
(* The audit log of the authorisation service oamok (instserv/oamok).      *)
(*                                                                         *)
(* The processes of a queue manager load the module, open the one log file *)
(* in MQStart, and close it in OATerm.  In between their threads write a   *)
(* record, and then a newline, for every request that the real OAM has     *)
(* granted.  Threads of a process are kept apart by a mutex; processes     *)
(* should be by a lock on the file, which is tried for but not waited for. *)
(*                                                                         *)
(* OACheckAuth and OAAuthUser write different records in the same steps.   *)
(*                                                                         *)
(* Operators described as "With ..." are variations of the one they        *)
(* precede, kept to show that the properties notice the mistake.           *)
(***************************************************************************)
EXTENDS Integers, Sequences

CONSTANTS
  Procs,     \* the queue manager's processes
  Primary,   \* the one among them that gets the primary MQStart and OATerm
  Slots,     \* the threads of a process are numbered by these
  MaxCalls,  \* how many requests a thread serves: bounds the model only
  NoThread,  \* nobody holds a mutex
  NoProc     \* nobody has locked the file

ASSUME OamOkAssumption ==
  /\ Primary \in Procs
  /\ MaxCalls \in Nat
  /\ NoThread \notin Procs \X Slots
  /\ NoProc \notin Procs

Threads == Procs \X Slots
ThreadsOf(p) == {t \in Threads : t[1] = p}

VARIABLES
  fd,        \* per process, TRUE while the log file is open
  primary,   \* per process, the flag primary_process
  stage,     \* per process: new, serving, alsosecondary, failed or ended
  mutex,     \* per process, the holder of its mutex
  flock,     \* the process that has the write lock on the log file
  file,      \* the log file: a sequence of writes
  calls,     \* per thread, the number of requests it was given
  granted,   \* per thread, those of them that were to be recorded
  pc         \* per thread, where it is

vars == <<fd, primary, stage, mutex, flock, file, calls, granted, pc>>

(* alsosecondary: the primary process between a secondary MQStart and the  *)
(* secondary OATerm.                                                       *)
Stages == {"new", "serving", "alsosecondary", "failed", "ended"}
Serving(p) == stage[p] \in {"serving", "alsosecondary"}

InLock  == {"setlk", "record", "newline", "unsetlk", "unlock"}
Places  == {"idle", "rpt", "lock", "answer"} \cup InLock

AllIdle(p) == \A t \in ThreadsOf(p) : pc[t] = "idle"

Init ==
  /\ fd = [p \in Procs |-> FALSE]
  /\ primary = [p \in Procs |-> FALSE]
  /\ stage = [p \in Procs |-> "new"]
  /\ mutex = [p \in Procs |-> NoThread]
  /\ flock = NoProc
  /\ file = <<>>
  /\ calls = [t \in Threads |-> 0]
  /\ granted = [t \in Threads |-> {}]
  /\ pc = [t \in Threads |-> "idle"]

-----------------------------------------------------------------------------
(* MQStart and OATerm.  The primary process starts first and ends last; it *)
(* may get a secondary initialisation and termination in between.  Another *)
(* process is terminated when it is about to end.                          *)

(* The file is opened unless it is already; that or an MQZEP may fail.     *)
MQStart(p, primaryInit) ==
  /\ \/ primaryInit /\ p = Primary /\ stage[p] = "new"
     \/ ~primaryInit /\ p # Primary /\ stage[p] = "new" /\ Serving(Primary)
     \/ ~primaryInit /\ p = Primary /\ stage[p] = "serving"
  /\ primary' = [primary EXCEPT ![p] = @ \/ primaryInit]
  /\ \/ /\ fd' = [fd EXCEPT ![p] = TRUE]
        /\ stage' = [stage EXCEPT ![p] = 
             IF stage[p] = "new" THEN "serving" ELSE "alsosecondary"]
     \/ /\ stage[p] = "new"
        /\ fd' \in {fd, [fd EXCEPT ![p] = TRUE]}
        /\ stage' = [stage EXCEPT ![p] = "failed"]
  /\ UNCHANGED <<mutex, flock, file, calls, granted, pc>>

(* With no regard for the primary process.                                 *)
CloseAlways(p, primaryTerm) == 
  primaryTerm \in BOOLEAN /\ fd' = [fd EXCEPT ![p] = FALSE]

CloseLog(p, primaryTerm) ==
  fd' = [fd EXCEPT ![p] = @ /\ primary[p] /\ ~primaryTerm]

OATerm(p, primaryTerm) ==
  /\ \/ /\ primaryTerm /\ p = Primary /\ stage[p] = "serving"
        /\ \A q \in Procs \ {p} : stage[q] \in {"new", "failed", "ended"}
        /\ AllIdle(p)
        /\ stage' = [stage EXCEPT ![p] = "ended"]
     \/ /\ ~primaryTerm /\ p # Primary /\ stage[p] = "serving"
        /\ AllIdle(p)
        /\ stage' = [stage EXCEPT ![p] = "ended"]
     \/ /\ ~primaryTerm /\ p = Primary /\ stage[p] = "alsosecondary"
        /\ stage' = [stage EXCEPT ![p] = "serving"]
  /\ CloseLog(p, primaryTerm)
  /\ UNCHANGED <<primary, mutex, flock, file, calls, granted, pc>>

-----------------------------------------------------------------------------
(* OACheckAuth and OAAuthUser.                                             *)

Goto(t, from, to) ==
  /\ pc[t] = from
  /\ pc' = [pc EXCEPT ![t] = to]

(* What the services before this one have answered: only a request that    *)
(* has not failed, and has no reason code, is recorded.                    *)
Answers == [failed : BOOLEAN, reason : BOOLEAN]
Ignored(answer) == answer.failed \/ answer.reason

Request(t) ==
  /\ Serving(t[1])
  /\ pc[t] = "idle"
  /\ calls[t] < MaxCalls
  /\ calls' = [calls EXCEPT ![t] = @ + 1]
  /\ \E answer \in Answers :
       IF Ignored(answer)
       THEN UNCHANGED <<granted, pc>>
       ELSE /\ granted' = [granted EXCEPT ![t] = @ \cup {calls'[t]}]
            /\ Goto(t, "idle", "rpt")
  /\ UNCHANGED <<fd, primary, stage, mutex, flock, file>>

(* rpt: nothing is written when the file is not open.                      *)
Rpt(t) ==
  /\ Goto(t, "rpt", IF fd[t[1]] THEN "lock" ELSE "answer")
  /\ UNCHANGED <<fd, primary, stage, mutex, flock, file, calls, granted>>

(* With the file lock only, which the threads of a process share.          *)
LockWithoutMutex(t) ==
  /\ Goto(t, "lock", "setlk")
  /\ mutex' = [mutex EXCEPT ![t[1]] = t]
  /\ UNCHANGED <<fd, primary, stage, flock, file, calls, granted>>

Lock(t) ==
  /\ Goto(t, "lock", "setlk")
  /\ mutex[t[1]] = NoThread
  /\ mutex' = [mutex EXCEPT ![t[1]] = t]
  /\ UNCHANGED <<fd, primary, stage, flock, file, calls, granted>>

(* fc(fd, F_WRLCK): F_SETLK does not wait, and its result is not used.     *)
SetLk(t) ==
  /\ Goto(t, "setlk", "record")
  /\ flock' = IF flock = NoProc THEN t[1] ELSE flock
  /\ UNCHANGED <<fd, primary, stage, mutex, file, calls, granted>>

Written(t, text) == [thread |-> t, call |-> calls[t], text |-> text]

WriteRecord(t) ==
  /\ Goto(t, "record", "newline")
  /\ file' = Append(file, Written(t, "record"))
  /\ UNCHANGED <<fd, primary, stage, mutex, flock, calls, granted>>

WriteNewline(t) ==
  /\ Goto(t, "newline", "unsetlk")
  /\ file' = Append(file, Written(t, "newline"))
  /\ UNCHANGED <<fd, primary, stage, mutex, flock, calls, granted>>

(* fc(fd, F_UNLCK) gives back what this process has.  And with a return    *)
(* before it.                                                              *)
KeepLk(t) ==
  /\ Goto(t, "unsetlk", "unlock")
  /\ UNCHANGED <<fd, primary, stage, mutex, flock, file, calls, granted>>

UnsetLk(t) ==
  /\ Goto(t, "unsetlk", "unlock")
  /\ flock' = IF flock = t[1] THEN NoProc ELSE flock
  /\ UNCHANGED <<fd, primary, stage, mutex, file, calls, granted>>

KeepMutex(t) ==
  /\ Goto(t, "unlock", "answer")
  /\ UNCHANGED <<fd, primary, stage, mutex, flock, file, calls, granted>>

Unlock(t) ==
  /\ Goto(t, "unlock", "answer")
  /\ mutex' = [mutex EXCEPT ![t[1]] = NoThread]
  /\ UNCHANGED <<fd, primary, stage, flock, file, calls, granted>>

(* Back to the queue manager, with the answer that lets the chain go on.   *)
Answer(t) ==
  /\ Goto(t, "answer", "idle")
  /\ UNCHANGED <<fd, primary, stage, mutex, flock, file, calls, granted>>

-----------------------------------------------------------------------------
ThreadStep(t) ==
  \/ Rpt(t) \/ Lock(t) \/ SetLk(t) \/ WriteRecord(t) \/ WriteNewline(t)
  \/ UnsetLk(t) \/ Unlock(t) \/ Answer(t)

Next ==
  \/ \E p \in Procs, isPrimary \in BOOLEAN : 
       MQStart(p, isPrimary) \/ OATerm(p, isPrimary)
  \/ \E t \in Threads : Request(t) \/ ThreadStep(t)

(* Threads are scheduled.  That the mutex goes to the one that has         *)
(* waited longest is not assumed.                                          *)
Fairness == \A t \in Threads : WF_vars(ThreadStep(t))

Spec == Init /\ [][Next]_vars /\ Fairness

-----------------------------------------------------------------------------
(* Properties.                                                             *)

Texts == {"record", "newline"}

TypeOK ==
  /\ fd \in [Procs -> BOOLEAN]
  /\ primary \in [Procs -> BOOLEAN]
  /\ stage \in [Procs -> Stages]
  /\ mutex \in [Procs -> Threads \cup {NoThread}]
  /\ flock \in Procs \cup {NoProc}
  /\ file \in Seq([thread : Threads, call : Nat, text : Texts])
  /\ calls \in [Threads -> Nat]
  /\ granted \in [Threads -> SUBSET Nat]
  /\ pc \in [Threads -> Places]

(* The mutex of a process is held by the thread that is in its section.    *)
MutexInv == \A t \in Threads : pc[t] \in InLock <=> mutex[t[1]] = t

(* The lock on the file is held on behalf of a thread that is writing: the *)
(* process gives it back whenever it has finished a record.                *)
FlockInv == 
  \A p \in Procs : flock = p => 
    \E t \in ThreadsOf(p) : pc[t] \in {"record", "newline", "unsetlk"}

(* The log is open in a process that serves requests, from its first       *)
(* successful MQStart to its last OATerm, and requests are only served     *)
(* there.  The process that was initialised as primary knows that it is.   *)
OpenInv ==
  /\ \A p \in Procs : primary[p] <=> p = Primary /\ stage[p] # "new"
  /\ \A p \in Procs : Serving(p) => fd[p]
  /\ \A t \in Threads : pc[t] # "idle" => Serving(t[1])

(* Positions of the file at which a thread of p has written, and at which  *)
(* t has written a record; the requests it has recorded.                   *)
By(p) == {i \in DOMAIN file : file[i].thread[1] = p}
Records(t) == 
  {i \in DOMAIN file : file[i].thread = t /\ file[i].text = "record"}
Recorded(t) == {file[i].call : i \in Records(t)}

(* The newline that ends a record.                                         *)
NewlineOf(entry) == [entry EXCEPT !.text = "newline"]

(* When the last that a process has written is a record, then the thread   *)
(* that wrote it is about to write its newline.                            *)
LineInv ==
  \A p \in Procs : \A i \in By(p) :
    file[i].text = "record" /\ (\A k \in By(p) : k <= i) =>
      \E t \in ThreadsOf(p) : pc[t] = "newline" /\ file[i] = Written(t, "record")

(* A thread on its way to writing a record has just been granted the       *)
(* request; all it was granted before have their record.                   *)
Pending(t) == 
  IF pc[t] \in {"rpt", "lock", "setlk", "record"} THEN {calls[t]} ELSE {}

AuditInv ==
  \A t \in Threads :
    /\ granted[t] \subseteq 1..calls[t]
    /\ Pending(t) \subseteq granted[t]
    /\ Recorded(t) = granted[t] \ Pending(t)
    /\ \A i, j \in Records(t) : file[i].call = file[j].call => i = j

IInv == TypeOK /\ MutexInv /\ FlockInv /\ OpenInv /\ LineInv /\ AuditInv

(* The lines of the threads of one process never interleave: what the      *)
(* process writes next after a record is the newline of that record.       *)
ThreadsDontInterleave ==
  \A p \in Procs : \A i, j \in By(p) :
    /\ file[i].text = "record"
    /\ i < j /\ \A k \in By(p) : ~(i < k /\ k < j)
    => file[j] = NewlineOf(file[i])

(* Every request that was granted has its record, exactly one, once the    *)
(* service has answered; and no other request has one.                     *)
AuditComplete ==
  \A t \in Threads : 
    /\ pc[t] = "idle" => Recorded(t) = granted[t]
    /\ \A i, j \in Records(t) : file[i].call = file[j].call => i = j

(* A request is answered, once no more requests come: no way through rpt   *)
(* leaves the mutex locked, and nobody waits for the lock on the file.     *)
CallReturns == \A t \in Threads : pc[t] # "idle" ~> pc[t] = "idle"

-----------------------------------------------------------------------------
(* A claim of a comment that the code does not keep.                       *)

(* "This should avoid two threads in any process writing to the log file   *)
(* at the same time and interleaving": a record has its newline next.      *)
LinesWhole ==
  \A i \in 1..(Len(file) - 1) :
    file[i].text = "record" => file[i + 1] = NewlineOf(file[i])
=============================================================================
