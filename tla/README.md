# A TLA+ model of mq-exits

This directory holds TLA+ specifications of the exits and installable services of
this repository, the TLC configurations that check them on small instances, and
proofs, checked by TLAPS, of the results that hold for every instance.

The repository is a collection: each directory under `src/` is a shared library
that IBM MQ loads into one of its processes or into an application, and calls at
points it chooses.  None of them has a main program.  Their difficulty is not
in their algorithms but in that calling convention: hooks are called on whichever
thread connects, several connections share one copy of the globals, BEFORE and
AFTER hooks have to find each other's data, and the order of initialisation and
termination is the queue manager's.

## 1. Inventory

| Part | State it keeps | Operations | What is hard | What makes it correct |
| --- | --- | --- | --- | --- |
| **OTel API exit: entry point** `apix/otel/mqiotel.c` | per process: mutex, `initCount`, log file `fp`, dlopen handle `hdl`, function pointers `ot` | `EntryPoint` per MQCONN, hook wrappers, `Terminate` per MQDISC | two critical sections with a gap; hooks use `ot` without the mutex; connections that are counted and never terminate | nothing is given back while a connection relies on it; everything is given back in the end; no path keeps the mutex |
| **OTel API exit: library** `mqiotel_{main,open,put,get,util}.cc` | per process: `objectHandleMap`, `objectOptionsMap`, structures on the heap | BEFORE/AFTER hooks of MQOPEN, MQCLOSE, MQPUT, MQPUT1, MQGET, MQCB, MQDISC and message callbacks | data passed from a BEFORE to an AFTER hook through a key that several kinds of call share; iterating over a map while erasing; handles created and never deleted | the application gets its own structures back; tables and heap agree; links are those of the message; MQDISC forgets its connection, and ends unless it meets a key it neither owns nor steps over (finding, section 5) |
| **oamok** `instserv/oamok` | per process: log descriptor, `primary_process`, thread mutex; the file lock | `MQStart`, `OATerm`, `OACheckAuth`, `OAAuthUser` | several processes with several threads write one file; secondary init and term inside the primary process | one whole record per granted request; calls come back |
| **oamcrt** `instserv/oamcrt` | per process: log, mutex, `alreadyRead`; per thread: the `prepareToCopy` stash | `OACheckAuth`, `OACopyAllAuth`, `OARefreshCache`, `MQStart`, `OATerm` | a decision spread over two calls on a thread, related only by the stash | a name that is not permitted is refused, for a permanent and for a dynamic queue |
| **oamlog** `instserv/oamlog` | per process: log, `primary_process` | a logging handler for each call of the interface | unlocked log of several threads; the answers that make the chain go on | the chain goes on whatever is asked |
| **connwarn** `channel/connwarn` | per process: the table of descriptors, child processes; a log file | `ChlExit` for MQXR_SEC_PARMS: `validateCredentials`, `writeOutputEntry` | pipes and fork in a process with many channel threads; numbers of closed descriptors are used again; fallback when the file cannot be written | every connection is let through and reported as it is, or stopped because of the exit's own failure; calls return |
| **amqsxlbl** `channel/amqsxlbl` | per channel: the list of label map entries, its head in the ExitUserArea | `ChlExit`: MQXR_INIT reads the file, MQXR_AUTO_CLUSSDR walks the list, the other MQXR_AUTO_... do nothing, MQXR_TERM frees it | a list built, walked and freed at different calls, with the file edited in between; names of two maximal lengths in one field | the first line that matches decides; the list is freed once and is gone |
| **extjwtexit** and **jmsjwtexit** `channel/...` | per channel: the MQCSP made for it, the chunk of an answer that has come | `ChlExit` / `channelSecurityExit`: MQXR_SEC_PARMS, MQXR_TERM | allocation at one call, release at another; an answer that comes in parts, on several threads; failures of the token server | what is sent is the whole answer to this conversation; without a token the channel is closed; what is freed is what was allocated |
| **rename** `preconn/rename` | none | `RenamePreconnectExit` | nothing that takes more than one step | the queue manager is replaced by the configured name, or by `*` |

Interactions.  `mqiotel.c` loads the OTel library with `dlopen` and calls it through
the pointers in `ot`; the library calls back into MQ (MQCRTMH, MQSETMP, MQINQMP,
MQINQ) for the application.  The authorisation services form a chain with the real
OAM that the queue manager walks for every request: oamlog and oamcrt before it,
oamok after it; the completion and reason codes of one are what the next one is
given.  The channel exits and the pre-connect exit do not meet each other; what the channel
exits have in common is how MQ calls them, and the MQCXP that it keeps for them between calls.

`PROJECT.json` lists the parts with their status, and, under `hazards`, the places in
the code where something could go wrong that a test would hardly reach, with the
properties that look at them.

## 2. Modules

| Module | Models |
| --- | --- |
| `SharedResource` | abstract: a process-wide resource with users, brought up for a user and given back when there is none |
| `OtelLifecycle` | `mqiotel.c`: `EntryPoint`, the hook wrappers, `Terminate`; `mqotInit`/`mqotTerm` of `mqiotel_main.cc` |
| `OtelLifecycleProofs` | theorems about `OtelLifecycle` |
| `OtelTables` | `mqiotel_main.cc`, `mqiotel.hpp`: keys, the two maps, the heap, message handles, MQDISC |
| `OtelObjects` | `mqiotel_open.cc`: MQOPEN and MQCLOSE |
| `OtelPut` | `mqiotel_put.cc`: MQPUT and MQPUT1 |
| `OtelGet` | `mqiotel_get.cc`: MQGET, MQCB, callbacks |
| `OtelExit` | the four above composed: any number of connections, one call at a time each |
| `OtelExitProofs` | theorems about `OtelExit` |
| `OamOk` | `oamok.c`: processes and threads of a queue manager writing the audit log |
| `OamOkProofs` | theorems about `OamOk` |
| `OamCrt` | `oamcrt.c` and the answers of `oamlog.c`: what the two services say to a call, and the note oamcrt keeps on a thread |
| `OamChain` | both with the real OAM behind them, in one process of a queue manager that makes the calls of each operation |
| `OamChainProofs` | theorems about `OamChain` |
| `ConnWarn` | `connwarn.c` (Unix): channel threads, the children they fork, pipes, descriptors, the log |
| `ConnWarnProofs` | theorems about `ConnWarn` |
| `ChannelCalls` | the calls that MQ makes to the exit of a channel, the ExitUserArea, and the heap of the process |
| `LabelMap` | `amqsxlbl.c` |
| `JwtLogin` | `extjwtexit.c` and `JmsJwtExit.java` |
| `ChannelExits` | the three exits composed: a process whose channels are configured with one of them |
| `LabelMapProofs` | lemmas about the lists of `LabelMap` in the heap that channels share |
| `ChannelExitsProofs` | theorems about `ChannelExits` |
| `NumberLemmas` | lemmas about the least member of a set of natural numbers |
| `MCOtelLifecycle`, `MCOtelExit`, `MCOamOk`, `MCOamChain`, `MCConnWarn`, `MCChannelExits` | what TLC needs besides: symmetry, and the files and definitions of `LabelMap` |

Every module names the code's functions and variables as the code does;
`PROJECT.json` `map` gives the lines of each definition.  In each module a few
operators described as "With ..." are deliberate mistakes, each of which makes
a property fail; they are not part of the specifications.

### OtelLifecycle

A connection `c` runs `EntryPoint` step by step (`pc[c]`): `EnterFirst`, `CountUp`,
`OpenLog`, `Decide`, then without the mutex to `EnterSecond`, `LoadLibrary`,
`ResolveSymbols`, `InitLibrary`, `RegisterHooks`.  Each step is a stretch of code with
one effect on the shared variables; the mutex makes the steps of a critical section
appear without others in between, and the gap between the two sections is there.
After that the connection is `hooked`, may be `inhook` any number of times, and
ends with `Terminate` (`EnterTerminate`, `CountDown`, and for the last one
`TermLibrary`, `CloseLog`, `UnloadLibrary`).  A connection the exit decides not to
instrument is `plain`: it was counted and never runs `Terminate`.

`env` is what the process was started with: whether a log is configured, whether the
exit steps aside (32-bit, already instrumented, not an application), and
what kind of library is found.  `dlopen` may fail at any time.  `ot` is
`null`, `live` or `stale`: `dlclose` does not clear the pointers.  A call through a stale
pointer may do anything: the model lets the process die or go on.

A member of `Conns` is one MQCONN and is used once; the runs' three are overlapping
connections, of which a later one can meet what the earlier ones left.

### OtelTables, OtelObjects, OtelPut, OtelGet, OtelExit

The maps are functions from keys `<<hConn, hObj>>` with `None` where the map has no
entry; `"hConn/*"` has the hObj `Star` and the bare prefix `"hConn/"` the hObj `Bare`, in the
order of the strings.  The heap holds the `hobjOptions` structures; memory that `malloc`
returns holds garbage.  A hook is one step.  A call has two: its BEFORE hook and
its AFTER hook with the queue manager's answer, between which other connections go on.
MQDISC goes iteration by iteration through its two loops, because they may not end.

A message's trace context is the pair of its properties `traceparent` and
`tracestate`, each the span it names, `App` for a value that the application set, or `None`.

The queue manager's side is external: handles it creates are the smallest unused ones;
MQCRTMH may fail; MQGET answers with a message, with one truncated, with a warning or
with none, and puts the properties where the options in force ask for them
(`Places`).  Two things the API leaves open are explored both ways: whether the AFTER
hook of MQCLOSE sees the old hObj or the unusable one (`Close`), and whether MQDISC's
hook, which is registered as an AFTER hook although a comment expects the live
handle (`mqiotel_main.cc:171`, `mqiotel.c:267`), sees the old hConn (`UnusableAtDisc`).

### OamOk

Processes with threads.  `MQStart` and `OATerm` follow the order that `oamlog.c:461-470`
describes: the primary process starts first and ends last and may get a secondary
initialisation and termination in between; another process is terminated when it is
about to end, with its threads idle.  A request that earlier services have
failed, or have answered with a reason code, is not recorded.  For any other the thread
goes through `rpt`: mutex, file lock, record, newline, file unlock, mutex unlock, each a step.
The file lock is `F_SETLK`: it is taken if free and otherwise ignored.  The file is
the sequence of the writes (the file is opened with `O_APPEND`).

### OamCrt, OamChain

A thread works on one operation of a user at a time: creating a queue by a command, creating
one by opening a model queue, opening a queue, looking at a model queue, or any other
request (`Operations`, from the call sequences that `instserv/oamcrt/README.md` shows).  It
makes one call after the other, and for each asks one service after the other
(`AskOamLog`, `AskOamCrt`, `AskOam`), every answer being a step; then the operation goes on, is
complete or has failed (`Conclude`), or is given up (`Abandon`).

Whether the chain goes on after an answer is the queue manager's business, which the code
only comments on (`GoesOn`): always for `OARefreshCache` and `OAInquire`; for `OACheckAuth` only with
the special reason codes (`oamlog.c:749-756`); for the others when the answer is not MQCC_OK
(`oamlog.c:70-73`).  `OAInquire` goes the other way round (`oamlog.c:940-946`).  The
OAM grants or refuses as it likes.

`prepareToCopy` and `prepareToCopyUser` are `__thread` variables, hence functions of the thread;
`copies` counts the results of `strdup` that have not been freed.  `fp` is TRUE while the
log is open.  oamlog fails to start without its log and oamcrt does not, because the
result of `readConfig` replaces the completion code.  A primary process may get a secondary
initialisation and termination of each service while its threads work.

### ConnWarn

A member of `Channels` is a connection whose thread calls the exit once, system call by system call
(`pc[c]`).  `fds` is what the threads share: the process's table of descriptors, in which
`pipe` and `fopen` take the lowest free numbers.  A thread keeps numbers (`ends`, `logfd`), and
whatever it reads, writes, locks or closes is the file behind the number at the time.  A
child holds copies of all files that were open at its fork until it ends, and copies of
the log buffers of other threads, which `exit(1)` after a failed `execv` flushes.  `fork`,
`execv` (whose argument array has no terminating NULL) and `fopen` may fail at any time, `pipe`
when descriptors run out; the arrays then hold arbitrary numbers.  amqoampx, external, reads a line,
answers, and ends.  A write to a pipe without a reader does nothing: the queue manager's
processes are taken to ignore SIGPIPE.  An entry of the log is shorter than the stream's
buffer and written by `fclose`, after the lock has been given up.

`intact` is a history variable: it becomes FALSE when a thread closes the file of another, or
`pipe` fails.

### ChannelCalls, LabelMap, JwtLogin, ChannelExits

A process runs one of the exits (`program`) for all its channels.  A channel is `new`, `open`,
`closing` (MQ has been told to close or suppress it; what is left is MQXR_TERM) or `ended`.
The heap is a set of numbered blocks that the channels share; `malloc` takes the first that is free,
so that an address is used again soon after it was freed.  A step that uses a block that is
not allocated, or a null pointer, makes `crashed` TRUE.

*LabelMap.*  The file is a sequence of lines, which the administrator may replace or remove at any
time (`EditConfigFile`).  `readConfigFile` is a function of the number of lines read, by recursion as the code's loop goes, with
`current` as the end of the list that only this reading knows.  `pMapList` follows the list from the
ExitUserArea, again a function of the number of steps; as many steps as there are blocks
are enough, since a list does not come back to a block.  A name is its first 20 bytes,
the rest, and its length, because these are what the exit compares; a label is a text and a length.
MQ's convention is external: an ExitUserArea begins as zeros, and a channel that
starts again may find in it what its MQXR_TERM left.

*JwtLogin.*  A channel has several conversations, for each of which MQ calls MQXR_SEC_PARMS, with or
without an MQCSP of the application (`AppCsp`), and afterwards sends what it finds in the MQCSP
to the queue manager (`Send`).  In C the answer comes in parts, one call of
`WriteMemoryCallback` each, and can break off at any time (`LoginFails`) or end early; `malloc` of the MQCSP may
fail, after which the exit goes on without one.  In Java the token is asked for twice,
and objects that are no longer referred to are collected.  An answer is identified by the
conversation it was given to.  `misfreed` remembers that an application's own MQCSP was freed.

## 3. Properties and runs

`TypeOK` of each state machine says what its variables hold.  `IInv` is the inductive invariant of the
proofs, which contains it; section 4 says what is in it.

### otel_lifecycle (`MCOtelLifecycle.cfg`, holds)

Three connections.  Two that hold a resource while a third comes or goes is the
smallest instance with every race between `EntryPoint`'s gap and another thread's
`Terminate`, and it has one connection left that meets what an earlier generation left.
All environments are initial states.

- `IInv`: mutual exclusion; `initCount` is the number of connections between their
  own `initCount++` and `initCount--`; what is held is held for one of them;
  the pointers are live exactly while the library is loaded.
- `LastOutCleansUp`: a count of zero outside the critical sections means that log,
  library and library state are gone.
- `LibraryIsShared`, `LogIsShared`: `OtelLifecycle` implements `SharedResource` twice,
  with the counted connections as users and `hdl`, or `fp`, as the resource.  This is the
  question the gap between the two sections raises: can the last `Terminate` of
  another thread take away what this connection was counted for?  It cannot, because
  the count comes first.
- `HookKeepsItsCode`: no thread unloads the library under a running hook.
- `ExitReturns` (liveness): `EntryPoint`, hooks and `Terminate` come back.

### otel_one_connection, otel_two_connections (hold)

One specification, `OtelExit`, with two sets of constants, so that each run can be
complete in one direction.  In both MQDISC's hook is shown the hConn or the unusable one.

- `otel_one_connection`: one connection with one object; every kind of MQPMO; messages without an
  RFH2 and with one that has a context (one without is treated alike, and differs only in what is
  sent); no active span or one that has a tracestate, and messages with a traceparent, a tracestate,
  both or neither; an MQGET with AS_Q_DEF, to which a message may come in every form, or with
  MQGMO_NO_PROPERTIES, with and without a handle of its own; two structures (the dummy
  object's and the open object's: a third can only come from a leak, where the behaviour
  is not followed).  PROPCTL is always "other": it is looked at only together with the masked
  options, which are never zero (see the divergences).  Other bounds are left to the proofs.
  - `IInv`: the inductive invariant, checked here with one connection and in
    `otel_two_connections` with two.
  - `PmoRestored`: the application's own MQPMO is back after MQPUT, whatever other calls stored under
    the same key.  It is about puts with a usable handle: after a failed MQCRTMH the exit does not
    recognise its MQPMO and leaves it in place, which the property permits.
  - `NoDanglingEntries`: no key leads to freed memory and no two to one structure.
  - `OneLivingHandle`: handles do not pile up, and the map's handle exists.
  - `LinkIsThisMessage`: a link is the context of the message just returned and never one left in
    the handle.
  - `NewHandleKept`: properties the application has put into a NewMsgHandle stay.
  - `OwnDiscCompletes` (liveness): an MQDISC whose hook is shown the hConn as it was ends, unless
    an iterator meets a key of another hConn, which with one connection does not happen.  When the hook, which
    is registered as AFTER (`mqiotel.c:267`), is shown the unusable hConn instead, MQDISC
    spins on any entry, with one connection too: that MQDISC ends is *not* claimed for that
    half of the behaviours, which the run contains.
- `otel_two_connections`: two connections over the same tables, one MQPMO and one MQGMO
  address each way.  `InFlightOptionsLive`: the structure a call runs on is not freed,
  not lost and not shared before the AFTER hook.  `DiscForgets`, `DiscOnlyOwn`: MQDISC
  erases all of its own entries and nothing of another connection's.  Shown the unusable hConn it
  erases nothing and, if the tables hold anything at all, spins: then it never gets to the
  disconnect, and `DiscForgets` says nothing of it.

### oamok_log (`MCOamOk.cfg`, holds)

The primary process and another, two threads each, one request per thread: threads
of one process meet at the mutex, processes at the lock, and a request can come before,
between and after a secondary initialisation and termination of the primary
process.  More than one request per thread is left to the proofs.

- `ThreadsDontInterleave`: what a process writes after a record is its newline.
- `AuditComplete`: every request that was to be recorded has exactly one record when the
  call is back.  This needs `OATerm`'s test of `primary_process`: without it a
  secondary termination silences the primary process.
- `CallReturns` (liveness): calls come back, once no more requests come.

### oam_chain (`MCOamChain.cfg`, holds)

Two threads, so that one could take the other's note; two users, so that a note could be left
from an earlier operation; one name that is permitted and one that is not; primary and secondary
processes.  Of the functions that only oamlog has, `GetExplicitAuth` and
`SetAuth` stand for all: their handlers answer alike.

- `IInv`: the invariant of the proofs, on where each call is and what oamcrt has noted.
- `NotAllowedNeverCreated`: a NOTALLOWED name is created neither by a command nor through a
  model queue, whatever the threads did and gave up before.
- `NoteIsOfThisOpen`: the user that `OACopyAllAuth` decides for is the one who opens.  The rule of
  the sample does not depend on the user; one that does, which is what the code is a template
  for, depends on this.
- `CopiesAreNotes`: one copy on the heap for each note and none else, although a note
  is not always followed by the `OACopyAllAuth` that would free it.
- `OnlyOamGrants`: what was not refused by oamcrt was decided by the OAM.
- `LoggedFirst`: oamlog has logged a call before any other service answers it.

### connwarn (`MCConnWarn.cfg`, holds)

Two channels, seven descriptors.  A validation has at most four open at a time, so that a
second one can fork while the first is between its own fork and its closes (the case in
which children inherit each other's pipes), and descriptors can also run out.
The properties are about processes that are `intact`, and `Bounded` cuts the search
where one is not: what happens then is the subject of `connwarn_valid`.

- `IInv`: the invariant of the proofs: which files a thread has behind its numbers at each point, what
  its child has inherited, and what is in the pipes.
- `Reported`: a connection that is let through has an entry, and its MQCSP_valid is true exactly
  if the credentials are good and amqoampx ran to say so; only a failed `execv` can make
  two entries of one.  A connection is closed exactly if there are credentials and amqoampx
  is missing.
- `OnlyPasswordEndLeft`: a call leaves one descriptor open, `amqoampxOUTFD[1]`, and no other.
- `NothingBehind`: nor a child that has not been waited for, nor a lock.
- `CallsReturn` (liveness): the read until the end of the file waits for every child that has
  inherited the other end of the pipe, of whichever channel.  Those children are
  waiting for a password that their own thread sends before it reads: no cycle.

### channel_exits (`MCChannelExits.cfg`, holds)

Two channels of a process, which is enough for two answers to arrive, and two lists to be
built and freed, at the same time; two conversations on each, so that one can find what the last one left;
answers in two parts; six blocks, which two lists of three entries fill.  Four files hold every
kind of line that is or is not an entry, with names of 20, 48 and 49 bytes, labels of 64 and
65, and channel names that a longer line begins with.

- `IInv`: the invariant of the proofs: the types, among them that no label is longer than MQ allows;
  where each thread of a login is and which blocks are whose; which lines of which file a list holds.
- `NeverCrashes`: no block is used or freed that is not allocated, and no null pointer is
  followed, also when a channel starts again with the ExitUserArea that its MQXR_TERM has left.
- `FirstMatch`: a cluster sender gets the label that `Promised` reads off the file as it was at
  MQXR_INIT, a definition of the first line that counts which does not know the list, the fold or
  the comparison over 20 bytes.
- `SendsOwnToken`: a token that the queue manager is sent for a conversation is what the token server
  answered to that very conversation of that channel, whole.  It does not ask that a token be sent in the place of
  an application's MQCSP (the code does that, see `csp_not_overridden`), nor does it cover a conversation whose
  second request, in Java, fails: the exit then sends an empty token.
- `ClosedWithoutToken`: a channel is closed exactly if the first request of a conversation brought no
  token, and then nothing is sent for it.
- `LeavesNothing`: an ended channel leaves nothing on the heap but the MQCSPs of earlier
  conversations of extjwtexit, each of which overwrites the pointer to the one before; and
  an application's own MQCSP is freed only after a failed login.

No liveness is claimed for these: the request has no timeout, so that a token server
that does not answer holds MQXR_SEC_PARMS for ever.

### Claims that the code does not keep

Each of these runs ends with a counterexample; `PROJECT.json` `findings` quotes the lines.

- `hooked_only_after_good_init`: `mqotInit` sets its flag before it checks the ABI, and
  `EntryPoint` takes the second connection's MQRC_ALREADY_CONNECTED for success.
- `disc_spins`: the erase loops of `mqotDiscBefore` do not advance over a key of another
  connection; here every hook is shown the hConn as it was.
- `connwarn_valid`: `amqoampxOUTFD[0]` is closed twice; in between the number can become that of
  another channel's pipe end, so that good credentials are logged as not valid.
- `oamok_lines`: F_SETLK does not wait, so that records of two processes run together.
- `csp_not_overridden`: extjwtexit puts its MQCSP in the place of one that the application has given,
  which its comment says it will not do (`extjwtexit.c:299-301`).

Other divergences were met while modelling.  The models contain the behaviour, and no run
claims the opposite; where a property holds in spite of one, it permits it:

- The library is never unloaded in a process with one connection that was counted and not
  hooked (`mqiotel.c:141-143`): such a connection never comes to `Terminate`.
- After `dlclose` the pointers in `ot` stay; when the next load fails the hooks are registered
  all the same (`rc` is 0) and call into unmapped memory (`mqiotel.c:226`).
- The exit's message handle is never cleared: an MQPUT with no active span carries the context
  of the previous MQPUT (`mqiotel_put.cc:84-85`).
- For a message with an RFH2, `find(...)` is used as a truth value, and npos is true:
  context is never added (`mqiotel_put.cc:148-153`).
- For OriginalMsgHandle the properties are looked for in `mho` before it is set
  (`mqiotel_put.cc:88-91,107`).
- `GETPROPSOPTIONS` has no parentheses, so that the test for an application that wants no properties
  is never met and such a call gets no handle, which the comment says it does
  (`mqiotel_get.cc:33,132`).  For the same reason the options in the application's MQGMO are never
  changed, and the branch of `mqotGetBefore` that would do so (`mqiotel_get.cc:168-172`) is
  in the model as it is in the code, out of reach.
- When MQCRTMH fails the exit's MQPMO, with an unusable handle, stays in the place of the
  application's after MQPUT (`mqiotel_put.cc:124,217-230`).
- MQDISC shown the unusable hConn spins on any entry of the tables (`mqiotel.c:267`,
  `mqiotel_main.cc:171,178`).
- Messages returned with a warning are not linked (`mqiotel_get.cc:203`).
- When the handle in use was not the exit's own, the pointer to the application's MQGMO is not
  put back after MQGET: the copy stays in its place (`mqiotel_get.cc:239-244`).
- connwarn never closes `amqoampxOUTFD[1]`: each validation costs the process a descriptor
  (`connwarn.c:731`, where the wrong end is closed).
- connwarn's README says that no output is produced when the default location cannot be written
  either; the code also fails the connection with MQXCC_FAILED (`connwarn.c:313`).
- MQDISC looks up the structure to free under the bare prefix, so that every structure that
  is left is leaked (`mqiotel_main.cc:189`).
- A child of connwarn whose `execv` fails flushes what another thread has in the buffer of its log, so that
  the entry is there twice (`connwarn.c:689`).
- extjwtexit's mark for an MQCSP of its own is 0, which an ExitUserArea holds anyway,
  so that MQXR_TERM after a failed login frees the application's; and of several conversations
  only the last one's MQCSP is freed (`extjwtexit.c:75,338-343`).
- JmsJwtExit goes on with an empty token when only its second request fails, and without one
  when there is no endpoint, because the exception is only printed (`JmsJwtExit.java:69-81`).
- rename's comment says that `*` is assumed when Data is not supplied or blank; the code tests
  for an empty string only, and uses `pExitDataPtr` unseen (`rename.c:46-48,118-119`).

Each property of a run that holds has a mutant in `PROJECT.json`: a definition replaced by a
"With ..." operator, with which the property fails.

### Fairness

Weak fairness of the steps of each thread inside the exit, and nothing else: threads are
scheduled, and so are connwarn's children, but the application need not call, disconnect or end, and the mutex need not go
to the one that has waited longest.  `ExitReturns`, `CallReturns` and
`CallsReturn` hold under that
because the number of connections or of requests is finite, so that others cannot
overtake for ever; `OwnDiscCompletes` because a connection in MQDISC makes no new entries.  Deadlock checking is off where the system
may stop: when all connections have been used, when a connwarn child waits for a password
that went to a closed descriptor, when the queue manager or a client's channels have ended, and where
all threads spin in MQDISC, which is modelled as having no step.

## 4. Proofs

TLAPS checks the modules whose names end in `Proofs`, and `NumberLemmas`.  Every safety invariant and
every action property of the runs that hold is a theorem, and so are the two refinements.
The only assumptions used are those of the modules about their constants:

| Assumption | What it says |
| --- | --- |
| `ConnsAssumption` | finitely many connections, and a value that is none of them |
| `TablesAssumption`, `StructAssumption` | hConns, hObjs and handles are positive numbers; `None`, `Null`, `App` and the application's handle are none of the values they are set against; the options are options |
| `OamOkAssumption` | the primary process is a process; the values for "nobody" are not somebody |
| `OamCrtAssumption` | no user is the null pointer; the functions that only oamlog has are others than those that oamcrt has |
| `ConnWarnAssumption` | the highest descriptor is a number; `NoChannel` is not a channel |
| `ChannelCallsAssumption`, `JwtLoginAssumption` | the number of blocks is a number; there is at least one conversation and one part of an answer |
| `LabelMapAssumption` | a file is a sequence of lines; the names in MQ's own definitions are not empty and no longer than MQ allows, and a name of at most 20 bytes with the same first 20 bytes as a channel's is that channel's |

`LabelMapAssumption` restricts what MQ holds and what stands for a name, not what the administrator
writes: lines of any form, length and order are files.

**OtelLifecycle.**  `Invariance` (`Spec => []IInv`) for every finite set of connections.
`LastOutCleansUp` is not inductive: one has to know that the count is the
number of connections that rely on it (`CountInv`), hence that whoever tears
down is alone (`TearDownIsAlone`); that what is held is held for one of them
(`HeldInv`); and that the pointers follow the handle (`PointersInv`).  `MutexInv` keeps the
sections apart.  One lemma per part shows that every action preserves it; three lemmas on
`Cardinality(Counted)` say what a move of one connection does to the count.  `CleanUp` and
`HookSafety` follow.  For the refinements `StepsAreMoves` says that each step is one connection
joining or leaving, or a change of the resource, or nothing; `LibraryRefinement` and
`LogRefinement` map these to the steps of `SharedResource`.

**OamOk.**  `Invariance` for any processes, threads and requests.  `AuditInv` relates what was
granted, what is pending and what is in the file at every step of `rpt`; it needs `OpenInv`, that the
log is open wherever a request is being served, which depends on the order of initialisation
and termination and on `primary_process`.  `LineInv` says whose line is unfinished at the end
of what a process has written; with the mutex (`MutexInv`, `OneInLock`) it gives
`LinesOfAProcess`.  `AuditIsComplete` is a consequence of `AuditInv`.  `FlockInv`, that the file lock
is held for a thread that is writing, says that no process keeps it.

**OamChain.**  `Invariance` for any threads, users and names, and from it all five properties of the
run.  None of them is inductive: a decision about a queue is spread over calls, and each call over
services.  `CallsInv` says what a thread has in front of it: all of an operation, or, when it opens
a model queue, a suffix of its five calls.  `PathInv` says which services have answered the
call it is making, and that oamlog, which comes first, has logged it (`ServiceInv`: its log is open while
threads work, since a secondary termination leaves it to the primary process).  `StashInv` says
that the two halves of a note agree and that there is one copy of it; `NoteInv` that the opener's
user is noted from the moment oamcrt has let the DISPLAY of the model queue pass until it is
asked about the CopyAllAuth, with any answers of oamlog and the OAM in between; `DecisionInv` that what has
passed the deciding call has a permitted name, which is `NotAllowedNeverCreated` once the queue is created.
One lemma per action (`OamLogStep`, `OamCrtStep`, `OamStep`, `ConcludeStep`, `BeginStep`) shows that a thread
keeps its part, `OthersUntouched` that the others keep theirs (the stash is per thread),
and `ServiceStep` that services start and end around them.

**OtelExit.**  `Invariance` for any connections, objects, structures, handles, spans and options, and
from it the six invariants and two action properties of the two runs.  `NoDanglingEntries`
needs `StructuresInv`: the bare prefix, under which MQDISC looks up what it frees, holds nothing or a
null pointer, so that nothing is freed there that another key leads to.  `HandleInv` says that the
only handle of a connection is the one under its `*` key, or, in MQDISC, the one that has just been
taken from there.  `CopyInv` and `PutInv` carry what a BEFORE hook has stored to its AFTER hook:
the structure is found under the key of the call and holds the MQPMO that is to be put back,
whatever calls of other connections come in between, because their keys are others.
`DiscInv` is about the two loops of MQDISC: what is before the iterator is gone, in the order of
the keys; at the end of the loops that is everything (`DiscSafety`).  `DiscKeepsOthers` says that
no step of the loops touches a key of another connection, also when they have met one
and advance no more; `PutKeepsNewHandle` that MQPUT adds to a NewMsgHandle and replaces
nothing.  One lemma per action of the exit shows what it does to each part.

**ConnWarn.**  `Invariance` for any number of channels and descriptors, and from it the three
invariants of the run.  All but `TypeOK`, `ChildInv` and `ExitInv` is under `intact`, because a descriptor
closed twice does break it.  `FilesInv` is the centre: at every point a thread has behind the numbers
it knows the files it has opened and not closed, and behind no other number a file of its
own but the forgotten `amqoampxOUTFD[1]`; `Descriptors` is what that says of the last point.  `LockInv` says
that a lock is held from `flock` to the unlock only, so that none is held by a call that has returned
(`CleanedUp`).  For `Reports` the answer has to be followed through the pipes: `InheritedInv` says that a
child of a talking thread has its standard input and output on that thread's pipes and that it keeps
a write end, so that the end of the file is not read before its answer; `TalkInv`
that there is one password and one answer to it, of the thread's own child; `LogInv` that the log
has entries only of threads that have come to write, and two of one only if a child has flushed what
it inherited.

**ChannelExits.**  `Invariance` and with it `LoginsInvariance`, for any channels, conversations, parts,
files, definitions and amount of memory.

For the two exits that log in (`LoginsInv`): what has come of an answer is a beginning of what was said
to this very conversation (`ReceivingInv`), so that the last part completes that and not another
one, and what is sent is an answer to this conversation (`OwnAnswer`, in `ReturnedInv` and
`SentInv`; `SentSafety`); the exit has one answer before it closes a channel and
that is not a token (`PointInv`, hence `ClosedSafety`); an MQCSP of the exit's own stays
allocated until MQXR_TERM, and there are fewer of them left than there were conversations
(`HeapInv`, hence this half of `HeapSafety`), which counts blocks and rests on the lemmas about finite sets.

For amqsxlbl (`LabelsInv`): the blocks of a channel are exactly the entries of the first n lines of
the file that it has read, each in a block of its own, each pointing to the next, and the ExitUserArea to
the first; n is smaller than the number of lines only if the process has crashed (`LabelInv`).
From there `FirstMatch` is a comparison of two definitions of a first line, one that walks the list and
compares 20 bytes and one that does not know either (`LabelSafety`); that MQXR_TERM frees
each entry once and all of them is that the walk passes exactly these blocks (`HeapSafety`).  What
a recursive function over lines or steps does is shown for each n by taking the smallest number for
which it fails, with the lemmas of `NumberLemmas`, in place of an induction rule.  That other channels
allocate and free around a list without touching it is that `malloc` takes free blocks and that
`freeMapList` frees those of its own channel.

A process of amqsxlbl does crash in one case, a `malloc` without memory, whose result the code uses
unseen.  `CrashesForMemory` says that there is no other, and `MemorySafety`, that it does not
happen if there is a block for each line of a file on each channel: the lists have then not used up
the blocks when another entry is needed.

**Only model-checked:** liveness (`ExitReturns`, `OwnDiscCompletes`, `CallReturns` and `CallsReturn`), which is
beyond the prover: it needs ENABLED for the fairness, and an induction over the calls still to come.
The five claims that the code does not keep have counterexamples and no theorems.

## 5. What the models leave out

- Text: logging, the formatting of records and trace headers, the parsing of a `traceparent`
  (a malformed one makes `stoi` throw), lengths (`vsnprintf` of a record longer than its
  buffer in `oamok.c:560`).
- Memory: a failing `malloc` ends the process; what `json_object_new_object` leaks on the early
  return of `oamok.c:217` is not counted.
- The hooks of `OtelExit` are atomic with respect to each other.  The two `std::map`s have no
  lock, so hooks of two connections may race in them; C++ gives such a race no
  meaning, and the list of hazards says so.
- Callback events other than a message, and a program that closes an object in the middle of
  an asynchronous call.  Of MQCB there are only registrations, with a callback descriptor and an MQGMO:
  `CBBefore` is called for every MQCB operation and reads `CallbackType` without a test of the
  descriptor's pointer (`mqiotel.c:393-396`).
- The process environment does not change while the process runs.
- oamcrt's `readConfig` is a placeholder that reads nothing: the rule is the fixed one, and
  `alreadyRead` is left out.  `strdup` does not fail, nor does locking a mutex.
- `write` to oamok's log succeeds, and whole: the code ignores its result (`oamok.c:569`), and
  `AuditComplete` assumes it.
- oamok is not part of `OamChain`: what it is given by the services before it is an input
  of `OamOk`, any completion and reason code.  What the OAM answers to make the chain go on to
  oamok after a request that it has granted is not to be seen in this code, and a composition
  would rest on a guess.
- connwarn on Windows; the fields of its entries other than MQCSP_valid; which file a channel's log
  is (`chlname_to_filename`).  A blank SCYDATA takes the branch of a configured path, because the
  test for blanks is a disjunction (`connwarn.c:158`), and falls back to the default.  There is memory
  for the user's name (without it an MQCSP is logged as not valid, `connwarn.c:661-663`), and
  `fprintf` and `fclose` succeed: `Reported` assumes both.
- rename: one call without state, a later step or another actor; the one choice it makes is
  described under the divergences.  The sample programs (`sput.c`, `tid.c`, `JmsPutGet.java`) and the build
  files have no state of their own.
- amqsxlbl's log lines and the trimming of names; a line longer than its buffer, which `fgets` splits in two;
  a file that is edited while it is being read.
- There is memory for the token in extjwtexit, which does not look at the result of that `malloc`
  (`extjwtexit.c:154-190`): `NeverCrashes` assumes it.  Left out as well: extjwtexit's concurrent `curl_global_init`, its
  static `debugPrint`, and the token and the parser that are never freed (`extjwtexit.c:293`).  In
  `JwtLogin` a chunk counts as answered to its conversation only when it is whole.
- In `OamOk` a secondary `MQStart` of the primary process that fails changes nothing;
  a primary one that fails stops the queue manager.

## 6. Plan

Everything that keeps state or runs concurrently has a model now.  What is left, in the order of
what it adds:

1. The life of the library joined with the life of its connections: `OtelLifecycle` over `OtelExit`,
   which would say what the last `Terminate` leaves of tables that MQDISC has not emptied.
