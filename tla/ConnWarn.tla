------------------------------ MODULE ConnWarn ------------------------------
(***************************************************************************)
(* The channel security exit connwarn (channel/connwarn/connwarn.c, Unix)  *)
(* in a process that runs several server-connection channels, a thread     *)
(* each.  The exit validates the credentials of a connection by a child    *)
(* process, amqoampx, to which it talks through two pipes, and writes an   *)
(* entry in a log.                                                         *)
(*                                                                         *)
(* Threads share the table of file descriptors, a child inherits a copy of *)
(* it.  A number that is closed is used again for the next file opened, so *)
(* what a thread reads, writes, locks and closes is what is behind its     *)
(* number at the time.                                                     *)
(*                                                                         *)
(* The entry's fields about the client are left out, but for whose it is   *)
(* and its MQCSP_valid.  Operators described as "With ..." are variations  *)
(* of the one they precede, kept to show that the properties notice the    *)
(* mistake.                                                                *)
(***************************************************************************)
EXTENDS Integers, Sequences, FiniteSets, FiniteSetsExt

CONSTANTS
  Channels,   \* connections, each of which calls the exit once
  MaxFd,      \* the process may have this many descriptors open
  NoChannel

ASSUME ConnWarnAssumption == MaxFd \in Nat /\ NoChannel \notin Channels

VARIABLES
  missing,    \* amqoampx is not installed where it is looked for
  csp,        \* per channel: does the MQCSP hold nothing, or good or bad credentials
  pc,         \* per channel, where its thread is
  ends,       \* per channel, amqoampxINFD and amqoampxOUTFD
  response,   \* per channel, the first byte read: "+", "-" or "none"
  valid,      \* per channel, outputValues.CSPValid: 0 or 1
  place,      \* per channel, where the log is looked for
  logfd,      \* per channel, the descriptor of its log file
  exit,       \* per channel, ExitResponse
  fds,        \* the process's table of descriptors
  pipe,       \* what is in the pipes
  child,      \* per channel, its child process
  lock,       \* per place, the open file that has its flock
  log,        \* what has been written to the log files
  intact      \* FALSE once a thread has closed another's file or pipe() has failed

vars == <<missing, csp, pc, ends, response, valid, place, logfd, exit,
          fds, pipe, child, lock, log, intact>>

environment == <<missing, csp>>
results == <<response, valid, place, logfd, exit>>

-----------------------------------------------------------------------------
(* Files and descriptors.                                                  *)

Nums == 1..MaxFd
Bad == 0           \* a number that is no descriptor
Places == {"configured", "default"}
Pipes == {"in", "out"} \X Channels

(* Open files: the ends of the pipes of a channel, and its log.            *)
ReadEnd(k, c) == <<k, c, "r">>
WriteEnd(k, c) == <<k, c, "w">>
LogFile(c, p) == <<"log", c, p>>
NoFile == <<"none", NoChannel, "none">>
Files == ({"in", "out"} \X Channels \X {"r", "w"}) \cup ({"log"} \X Channels \X Places)

Items == [kind : {"entry", "password", "answer"}, of : Channels, ok : BOOLEAN]
Entry(c) == [kind |-> "entry", of |-> c, ok |-> valid[c] # 0]
Password(c) == [kind |-> "password", of |-> c, ok |-> csp[c] = "good"]
Reply(c, ok) == [kind |-> "answer", of |-> c, ok |-> ok]

NoChild == [state |-> "none", ran |-> FALSE, files |-> {}, stdin |-> NoFile, 
            stdout |-> NoFile, buffers |-> {}]
Ended(ran) == [NoChild EXCEPT !.state = "ended", !.ran = ran]
Alive(c) == child[c].state \in {"forked", "exiting", "running", "answered"}

FileAt(n) == IF n = Bad THEN NoFile ELSE fds[n]
OpenFiles == {fds[n] : n \in Nums} \ {NoFile}
Free == {n \in Nums : fds[n] = NoFile}

(* Is a file still open, here or in a child?                               *)
Held(f) == f \in OpenFiles \/ \E c \in Channels : Alive(c) /\ f \in child[c].files

(* The effect of writing items to files; a pipe without a reader and what  *)
(* is not open for writing take none.                                      *)
Takes(f) == 
  \/ f[1] = "log"
  \/ f[1] \in {"in", "out"} /\ f[3] = "w" /\ Held(ReadEnd(f[1], f[2]))
Write(f, item) ==
  /\ log' = IF f[1] = "log" THEN Append(log, item) ELSE log
  /\ pipe' = IF f[1] # "log" /\ Takes(f)
             THEN [pipe EXCEPT ![<<f[1], f[2]>>] = Append(@, item)] ELSE pipe

(* close(n) by the thread of channel c.                                    *)
Close(c, n) ==
  /\ fds' = IF n = Bad THEN fds ELSE [fds EXCEPT ![n] = NoFile]
  /\ intact' = (intact /\ FileAt(n)[2] \in {c, NoChannel})

-----------------------------------------------------------------------------
Init ==
  /\ missing \in BOOLEAN
  /\ csp \in [Channels -> {"nothing", "good", "bad"}]
  /\ pc = [c \in Channels |-> "new"]
  /\ ends = [c \in Channels |-> [k \in {"in", "out"} |-> [r |-> Bad, w |-> Bad]]]
  /\ response = [c \in Channels |-> "none"]
  /\ valid = [c \in Channels |-> 0]
  /\ place = [c \in Channels |-> "configured"]
  /\ logfd = [c \in Channels |-> Bad]
  /\ exit = [c \in Channels |-> "OK"]
  /\ fds = [n \in Nums |-> NoFile]
  /\ pipe = [p \in Pipes |-> <<>>]
  /\ child = [c \in Channels |-> NoChild]
  /\ lock = [p \in Places |-> NoFile]
  /\ log = <<>>
  /\ intact = TRUE

Goes(c, from, to) == pc[c] = from /\ pc' = [pc EXCEPT ![c] = to]

(* ChlExit for MQXR_SEC_PARMS, up to the first system call that changes    *)
(* something: without credentials, or without amqoampx.                    *)
NothingToValidate(c) ==
  csp[c] = "nothing" /\ Goes(c, "new", "fopen") /\ UNCHANGED <<exit, valid>>

(* With the result FAIL, -1, not told apart.                               *)
LogAnyway(c) ==
  /\ csp[c] # "nothing" /\ missing
  /\ Goes(c, "new", "fopen") 
  /\ valid' = [valid EXCEPT ![c] = -1]
  /\ UNCHANGED exit

CannotValidate(c) ==
  /\ csp[c] # "nothing" /\ missing
  /\ Goes(c, "new", "done") 
  /\ exit' = [exit EXCEPT ![c] = "CLOSE_CHANNEL"]
  /\ UNCHANGED valid

ChlExit(c) ==
  /\ \/ NothingToValidate(c) 
     \/ CannotValidate(c)
     \/ csp[c] # "nothing" /\ ~missing /\ Goes(c, "new", "pipeIn") /\ UNCHANGED <<exit, valid>>
  /\ UNCHANGED <<environment, ends, response, place, logfd, 
                 fds, pipe, child, lock, log, intact>>

-----------------------------------------------------------------------------
(* validateCredentials.                                                    *)

(* When pipe() fails the array holds whatever was on the stack.            *)
Pipe(c, k) ==
  /\ \/ /\ Cardinality(Free) >= 2
        /\ LET r == Min(Free)
               w == Min(Free \ {r})
           IN /\ fds' = [fds EXCEPT ![r] = ReadEnd(k, c), ![w] = WriteEnd(k, c)]
              /\ ends' = [ends EXCEPT ![c][k] = [r |-> r, w |-> w]]
        /\ UNCHANGED intact
     \/ /\ Cardinality(Free) < 2
        /\ \E r \in Nums \cup {Bad}, w \in Nums \cup {Bad} :
             ends' = [ends EXCEPT ![c][k] = [r |-> r, w |-> w]]
        /\ intact' = FALSE
        /\ UNCHANGED fds
  /\ UNCHANGED <<environment, results, pipe, child, lock, log>>

PipeIn(c) == Goes(c, "pipeIn", "pipeOut") /\ Pipe(c, "in")
PipeOut(c) == Goes(c, "pipeOut", "fork") /\ Pipe(c, "out")

(* The child has all of the process's files, and a copy of what other      *)
(* threads have in the buffers of their logs.  Or fork() fails.            *)
Printed(c) == pc[c] \in {"unlock", "fclose"}
Fork(c) ==
  /\ Goes(c, "fork", "closeOut")
  /\ \/ child' = [child EXCEPT ![c] = 
          [state |-> "forked", ran |-> FALSE, files |-> OpenFiles,
           stdin |-> FileAt(ends[c]["out"].r), stdout |-> FileAt(ends[c]["in"].w),
           buffers |-> {<<FileAt(logfd[d]), Entry(d)>> : d \in {d \in Channels : Printed(d)}}]]
     \/ UNCHANGED child
  /\ UNCHANGED <<environment, results, ends, fds, pipe, lock, log, intact>>

Closes(c, n) ==
  /\ Close(c, n)
  /\ UNCHANGED <<environment, results, ends, pipe, child, lock, log>>

CloseOut(c) == Goes(c, "closeOut", "closeIn") /\ Closes(c, ends[c]["out"].r)

(* With the parent's copy of the child's end kept.                         *)
KeepIn(c) == Goes(c, "closeIn", "send") /\ Closes(c, Bad)
CloseIn(c) == Goes(c, "closeIn", "send") /\ Closes(c, ends[c]["in"].w)

Send(c) ==
  /\ Goes(c, "send", "receive")
  /\ Write(FileAt(ends[c]["out"].w), Password(c))
  /\ UNCHANGED <<environment, results, ends, fds, child, lock, intact>>

(* The loop of read(), which goes on until the end of the file or an       *)
(* error.                                                                  *)
FirstByte(item) == IF item.kind = "answer" /\ item.ok THEN "+" ELSE "-"

(* With all taken for yes that is not no.                                  *)
VerdictNotNo(byte) == IF byte # "-" THEN 1 ELSE 0

Verdict(byte) == IF byte = "+" THEN 1 ELSE 0

Receive(c) ==
  LET f == FileAt(ends[c]["in"].r)
      readable == f[1] \in {"in", "out"} /\ f[3] = "r"
      content == pipe[<<f[1], f[2]>>]
  IN
  /\ \/ /\ readable /\ content # <<>>
        /\ Goes(c, "receive", "receive")
        /\ pipe' = [pipe EXCEPT ![<<f[1], f[2]>>] = Tail(@)]
        /\ response' = [response EXCEPT ![c] = 
             IF @ = "none" THEN FirstByte(Head(content)) ELSE @]
        /\ UNCHANGED valid
     \/ /\ readable => content = <<>> /\ ~Held(WriteEnd(f[1], f[2]))
        /\ Goes(c, "receive", "closeIn0")
        /\ valid' = [valid EXCEPT ![c] = Verdict(response[c])]
        /\ UNCHANGED <<pipe, response>>
  /\ UNCHANGED <<environment, place, logfd, exit, ends, fds, child, lock, log, intact>>

(* With the pipe for the answer kept open.                                 *)
KeepIn0(c) == Goes(c, "closeIn0", "closeOutAgain") /\ Closes(c, Bad)
CloseIn0(c) == Goes(c, "closeIn0", "closeOutAgain") /\ Closes(c, ends[c]["in"].r)

(* The end that is closed already; amqoampxOUTFD[1] never is.              *)
CloseOutAgain(c) == Goes(c, "closeOutAgain", "waitpid") /\ Closes(c, ends[c]["out"].r)

(* With waitpid left out.                                                  *)
WaitNot(c) ==
  /\ Goes(c, "waitpid", "fopen")
  /\ UNCHANGED <<environment, results, ends, fds, pipe, child, lock, log, intact>>

(* Of children that have ended, the one of c, or any if its fork failed.   *)
WaitPid(c) ==
  /\ Goes(c, "waitpid", "fopen")
  /\ \/ \E d \in Channels :
          /\ child[d].state = "ended"
          /\ child[c].state = "none" \/ c = d
          /\ child' = [child EXCEPT ![d].state = "reaped"]
     \/ /\ child[c].state = "reaped"
        /\ UNCHANGED child
     \/ /\ child[c].state = "none"
        /\ \A d \in Channels : child[d].state \in {"none", "reaped"}
        /\ UNCHANGED child
  /\ UNCHANGED <<environment, results, ends, fds, pipe, lock, log, intact>>

-----------------------------------------------------------------------------
(* writeOutputEntry, twice if the configured place cannot be written.  The *)
(* entry is shorter than the buffer of the log, which fclose flushes.      *)

Fopen(c) ==
  /\ Free # {}
  /\ Goes(c, "fopen", "flock")
  /\ fds' = [fds EXCEPT ![Min(Free)] = LogFile(c, place[c])]
  /\ logfd' = [logfd EXCEPT ![c] = Min(Free)]
  /\ UNCHANGED <<environment, response, valid, place, exit, 
                 ends, pipe, child, lock, log, intact>>

(* fopen may always fail, and does without a free descriptor.              *)
FopenFails(c) ==
  /\ \/ /\ place[c] = "configured"
        /\ Goes(c, "fopen", "fopen")
        /\ place' = [place EXCEPT ![c] = "default"]
        /\ UNCHANGED exit
     \/ /\ place[c] = "default"
        /\ Goes(c, "fopen", "done")
        /\ exit' = [exit EXCEPT ![c] = "FAILED"]
        /\ UNCHANGED place
  /\ UNCHANGED <<environment, response, valid, logfd, 
                 ends, fds, pipe, child, lock, log, intact>>

(* flock of what is behind the number, and fprintf into the buffer.  The   *)
(* lock goes with the open file, also when that is closed.                 *)
Flock(c) ==
  LET f == FileAt(logfd[c]) IN
  /\ Goes(c, "flock", "unlock")
  /\ IF f[1] = "log" 
     THEN /\ lock[f[3]] \in {NoFile, f} \/ ~Held(lock[f[3]])
          /\ lock' = [lock EXCEPT ![f[3]] = f]
     ELSE UNCHANGED lock
  /\ UNCHANGED <<environment, results, ends, fds, pipe, child, log, intact>>

Unlock(c) ==
  LET f == FileAt(logfd[c]) IN
  /\ Goes(c, "unlock", "fclose")
  /\ lock' = [p \in Places |-> IF lock[p] = f THEN NoFile ELSE lock[p]]
  /\ UNCHANGED <<environment, results, ends, fds, pipe, child, log, intact>>

Fclose(c) ==
  /\ Goes(c, "fclose", "done")
  /\ Write(FileAt(logfd[c]), Entry(c))
  /\ Close(c, logfd[c])
  /\ UNCHANGED <<environment, results, ends, child, lock>>

-----------------------------------------------------------------------------
(* The child of c.                                                         *)

(* execv; the array of arguments has no end, so that it may fail on that,  *)
(* too.                                                                    *)
Exec(c) ==
  /\ child[c].state = "forked"
  /\ \/ child' = [child EXCEPT ![c].state = "running", ![c].ran = TRUE, ![c].buffers = {}]
     \/ child' = [child EXCEPT ![c].state = "exiting"]
  /\ UNCHANGED <<environment, results, pc, ends, fds, pipe, lock, log, intact>>

(* exit(1) after execv, which flushes the copied buffers.                  *)
ExitFailed(c) ==
  /\ child[c].state = "exiting"
  /\ \/ /\ child[c].buffers = {}
        /\ child' = [child EXCEPT ![c] = Ended(FALSE)]
        /\ UNCHANGED <<log, pipe>>
     \/ \E b \in child[c].buffers :
          /\ child' = [child EXCEPT ![c].buffers = @ \ {b}]
          /\ Write(b[1], b[2])
  /\ UNCHANGED <<environment, results, pc, ends, fds, lock, intact>>

(* amqoampx reads a line from its standard input, checks and answers.  At  *)
(* the end of the file it answers nothing.                                 *)
Amqoampx(c) ==
  LET f == child[c].stdin
      readable == f[1] \in {"in", "out"} /\ f[3] = "r"
      content == pipe[<<f[1], f[2]>>]
  IN
  /\ child[c].state = "running"
  /\ \/ /\ readable /\ content # <<>>
        /\ child' = [child EXCEPT ![c].state = "answered"]
        /\ LET rest == [pipe EXCEPT ![<<f[1], f[2]>>] = Tail(@)]
               reply == Reply(c, Head(content) = Password(c) /\ csp[c] = "good")
               out == child[c].stdout
           IN /\ pipe' = IF out[1] # "log" /\ Takes(out)
                         THEN [rest EXCEPT ![<<out[1], out[2]>>] = Append(@, reply)] ELSE rest
              /\ log' = IF out[1] = "log" THEN Append(log, reply) ELSE log
     \/ /\ readable => content = <<>> /\ ~Held(WriteEnd(f[1], f[2]))
        /\ child' = [child EXCEPT ![c].state = "answered"]
        /\ UNCHANGED <<pipe, log>>
  /\ UNCHANGED <<environment, results, pc, ends, fds, lock, intact>>

Exit(c) ==
  /\ child[c].state = "answered"
  /\ child' = [child EXCEPT ![c] = Ended(TRUE)]
  /\ UNCHANGED <<environment, results, pc, ends, fds, pipe, lock, log, intact>>

-----------------------------------------------------------------------------
Validate(c) ==
  \/ PipeIn(c) \/ PipeOut(c) \/ Fork(c) \/ CloseOut(c) \/ CloseIn(c)
  \/ Send(c) \/ Receive(c) \/ CloseIn0(c) \/ CloseOutAgain(c) \/ WaitPid(c)
WriteOutputEntry(c) == Fopen(c) \/ FopenFails(c) \/ Flock(c) \/ Unlock(c) \/ Fclose(c)
Thread(c) == Validate(c) \/ WriteOutputEntry(c)
Child(c) == Exec(c) \/ ExitFailed(c) \/ Amqoampx(c) \/ Exit(c)

Next == \E c \in Channels : ChlExit(c) \/ Thread(c) \/ Child(c)

(* Threads and children are scheduled; clients need not connect.           *)
Fairness == \A c \in Channels : WF_vars(Thread(c)) /\ WF_vars(Child(c))

Spec == Init /\ [][Next]_vars /\ Fairness

-----------------------------------------------------------------------------
(* Properties.                                                             *)

(* Where a thread can be; from pipeOut to waitpid it has the results of a  *)
(* pipe() at least, and from flock to fclose it has a log.                 *)
Opening == {"pipeIn", "pipeOut"}
Talking == {"fork", "closeOut", "closeIn", "send", "receive"}
Ending == {"closeIn0", "closeOutAgain", "waitpid"}
Logging == {"flock", "unlock", "fclose"}
Points == {"new", "fopen", "done"} \cup Opening \cup Talking \cup Ending \cup Logging

Children ==
  [state : {"none", "forked", "exiting", "running", "answered", "ended", "reaped"},
   ran : BOOLEAN, files : SUBSET Files, stdin : Files \cup {NoFile}, 
   stdout : Files \cup {NoFile}, buffers : SUBSET ((Files \cup {NoFile}) \X Items)]

TypeOK ==
  /\ missing \in BOOLEAN
  /\ csp \in [Channels -> {"nothing", "good", "bad"}]
  /\ pc \in [Channels -> Points]
  /\ ends \in [Channels -> [{"in", "out"} -> [r : Nums \cup {Bad}, w : Nums \cup {Bad}]]]
  /\ response \in [Channels -> {"+", "-", "none"}]
  /\ valid \in [Channels -> {0, 1}]
  /\ place \in [Channels -> Places]
  /\ logfd \in [Channels -> Nums \cup {Bad}]
  /\ exit \in [Channels -> {"OK", "CLOSE_CHANNEL", "FAILED"}]
  /\ fds \in [Nums -> Files \cup {NoFile}]
  /\ pipe \in [Pipes -> Seq(Items)]
  /\ child \in [Channels -> Children]
  /\ lock \in [Places -> Files \cup {NoFile}]
  /\ log \in Seq(Items)
  /\ intact \in BOOLEAN

EntriesOf(c) == {i \in DOMAIN log : log[i].kind = "entry" /\ log[i].of = c}
Returned(c) == pc[c] = "done"
Ran(c) == child[c].ran

(* As long as no thread has closed the file of another, and no pipe() has  *)
(* failed: a connection that the exit lets through has an entry, which     *)
(* says valid if and only if its credentials are good and amqoampx has run *)
(* to say so, and only one unless some execv failed; one that it does not  *)
(* let through has none.  Children of other threads, with their copies of  *)
(* the pipes, change nothing about that.                                   *)
Reported ==
  intact => \A c \in Channels : Returned(c) =>
    /\ EntriesOf(c) # {} <=> exit[c] = "OK"
    /\ \A i \in EntriesOf(c) : log[i].ok <=> csp[c] = "good" /\ Ran(c)
    /\ Cardinality(EntriesOf(c)) > 1 => 
         \E d \in Channels : child[d].state # "none" /\ ~Ran(d)
    /\ exit[c] = "CLOSE_CHANNEL" <=> missing /\ csp[c] # "nothing"

(* Of the descriptors of a call only the pipe's end for the password is    *)
(* left, whatever other threads do.                                        *)
OnlyPasswordEndLeft ==
  intact => \A c \in Channels : Returned(c) => 
    \A f \in OpenFiles : f[2] = c => f = WriteEnd("out", c)

(* A call that has returned leaves no child behind, nor a lock on a log.   *)
NothingBehind ==
  \A c \in Channels : Returned(c) =>
    /\ child[c].state \in {"none", "reaped"}
    /\ intact => \A p \in Places : lock[p][2] # c

(* As long as that is so, every call returns: a read that goes on until    *)
(* the end of the file waits for all children that have inherited the      *)
(* other end, which they give up without waiting for each other.           *)
CallsReturn ==
  [](\A c \in Channels : pc[c] # "new" /\ intact => <>(Returned(c) \/ ~intact))

(* What the log's field is said to be: whether the credentials "could be   *)
(* used to login to the OS", provided that amqoampx has run.               *)
MQCSPValid ==
  \A c \in Channels : \A i \in EntriesOf(c) : 
    Ran(c) => (log[i].ok <=> csp[c] = "good")

-----------------------------------------------------------------------------
(* The inductive invariant, in parts.                                      *)

(* When there is a child, and when it has run amqoampx.                    *)
ChildInv(c) ==
  /\ pc[c] \in {"new", "fork"} \cup Opening => child[c].state = "none"
  /\ pc[c] \in {"fopen", "done"} \cup Logging => child[c].state \in {"none", "reaped"}
  /\ child[c].state \in {"none", "forked", "exiting"} => ~Ran(c)
  /\ child[c].state \in {"running", "answered"} => Ran(c)

(* The files that a thread has open are exactly those it has opened and    *)
(* not yet closed, under the numbers it knows, at every point.             *)
HasInR == {"pipeOut", "closeIn0"} \cup Talking
HasInW == {"pipeOut", "fork", "closeOut", "closeIn"}
HasOutR == {"fork", "closeOut"}
HasOutW == Talking \cup Ending
FilesInv(c) ==
  LET in == ends[c]["in"]  out == ends[c]["out"] IN
  /\ pc[c] \in HasInR => FileAt(in.r) = ReadEnd("in", c)
  /\ pc[c] \in HasInW => FileAt(in.w) = WriteEnd("in", c)
  /\ pc[c] \in HasOutR => FileAt(out.r) = ReadEnd("out", c)
  /\ pc[c] \in HasOutW => FileAt(out.w) = WriteEnd("out", c) /\ out.r # out.w
  /\ pc[c] \in Logging => FileAt(logfd[c]) = LogFile(c, place[c])
  /\ \A n \in Nums : fds[n][2] = c =>
       \/ n = in.r /\ pc[c] \in HasInR
       \/ n = in.w /\ pc[c] \in HasInW
       \/ n = out.r /\ pc[c] \in HasOutR
       \/ fds[n] = WriteEnd("out", c)
       \/ n = logfd[c] /\ pc[c] \in Logging

(* A lock is held between flock and the unlock, on the log of its holder.  *)
LockInv(c) ==
  \A p \in Places : lock[p][2] = c => pc[c] = "unlock" /\ lock[p] = LogFile(c, place[c])

(* A child has the ends of its own pipes for its standard input and        *)
(* output, and copies of entries that their threads do write, too.         *)
Printing(d) == pc[d] \in {"unlock", "fclose", "done"} /\ exit[d] = "OK"
InheritedInv(c) ==
  /\ Alive(c) =>
       /\ pc[c] \in Talking
       /\ WriteEnd("in", c) \in child[c].files
       /\ child[c].stdin = ReadEnd("out", c) /\ child[c].stdout = WriteEnd("in", c)
  /\ \A b \in child[c].buffers : \E d \in Channels : 
       b[1] \in {LogFile(d, p) : p \in Places} /\ b[2] = Entry(d) /\ Printing(d)

(* One question and one answer; the end of the file comes after both.      *)
TalkInv(c) ==
  LET asked == pipe[<<"out", c>>]  answered == pipe[<<"in", c>>] IN
  /\ asked = <<>> \/ asked = <<Password(c)>>
  /\ pc[c] \in {"new", "fork", "closeOut", "closeIn", "send"} \cup Opening => asked = <<>>
  /\ pc[c] \in {"new"} \cup Opening \cup Talking =>
       /\ valid[c] = 0
       /\ IF Ran(c) /\ child[c].state # "running"
          THEN \/ answered = <<Reply(c, csp[c] = "good")>> /\ response[c] = "none"
               \/ answered = <<>> /\ response[c] = (IF csp[c] = "good" THEN "+" ELSE "-")
          ELSE answered = <<>> /\ response[c] = "none"
  /\ pc[c] \notin {"new"} \cup Opening \cup Talking =>
       (valid[c] = 1 <=> csp[c] = "good" /\ Ran(c))

(* A thread is let through as its credentials, amqoampx and the log say.   *)
ExitInv(c) ==
  /\ pc[c] # "done" => exit[c] = "OK"
  /\ pc[c] # "new" => (exit[c] = "CLOSE_CHANNEL" <=> missing /\ csp[c] # "nothing")

(* What is in the log are the entries of threads that have come to write   *)
(* them; there are two only if a child has flushed what it has inherited.  *)
Flushed == 
  \E d \in Channels : child[d].state \in {"exiting", "ended", "reaped"} /\ ~Ran(d)
LogInv(c) ==
  /\ \A i \in EntriesOf(c) : log[i] = Entry(c) /\ Printing(c)
  /\ pc[c] = "done" /\ exit[c] = "OK" => EntriesOf(c) # {}
  /\ ~Flushed => 
       /\ pc[c] # "done" => EntriesOf(c) = {}
       /\ \A i, j \in EntriesOf(c) : i = j

IntactInv(c) == 
  FilesInv(c) /\ LockInv(c) /\ InheritedInv(c) /\ TalkInv(c) /\ LogInv(c)

IInv ==
  /\ TypeOK
  /\ \A c \in Channels : ChildInv(c) /\ ExitInv(c) /\ (intact => IntactInv(c))
=============================================================================
