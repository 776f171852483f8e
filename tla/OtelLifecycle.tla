---------------------------- MODULE OtelLifecycle ----------------------------
(***************************************************************************)
(* The life of the OpenTelemetry API exit inside one application process   *)
(* (apix/otel/mqiotel.c, with mqotInit and mqotTerm of mqiotel_main.cc).   *)
(*                                                                         *)
(* The queue manager calls EntryPoint once for every MQCONN, on the        *)
(* thread that connects, and Terminate at the end of every connection      *)
(* that registered it.  Both run under one process-wide mutex, EntryPoint  *)
(* in two separate critical sections, and share a counter, a log file, a   *)
(* dlopen handle and a table of function pointers into the library.  The   *)
(* hooks of the connected threads use the table without the mutex.         *)
(*                                                                         *)
(* A member of Conns is one MQCONN the process makes, from the call to the *)
(* end of the connection; a process that connects again uses another one.  *)
(*                                                                         *)
(* Actions described as "With ..." are variations of the one they precede, *)
(* kept to show that the properties notice the mistake.                    *)
(***************************************************************************)
EXTENDS Integers, FiniteSets

CONSTANTS
  Conns,     \* the connections the process makes in its life
  NoConn     \* nobody holds the mutex

ASSUME ConnsAssumption ==
  /\ IsFiniteSet(Conns)
  /\ NoConn \notin Conns

VARIABLES
  env,          \* what the process was started with; never changes
  mutex,        \* the holder of the exit's mutex, or NoConn
  initCount,    \* the process-wide connection counter
  fp,           \* TRUE while the log file is open
  hdl,          \* TRUE while the dlopen handle is set
  ot,           \* the function pointers: null, live, or stale after dlclose
  initialised,  \* the library's own flag
  rc,           \* EntryPoint's local rc, per connection
  pc,           \* where each connection is
  crashed       \* the process died in a call through a stale pointer

vars == <<env, mutex, initCount, fp, hdl, ot, initialised, rc, pc, crashed>>

(***************************************************************************)
(* Places in the code.  A connection waits at lock1 and lock2 for the two  *)
(* critical sections of EntryPoint and at lockT for that of Terminate.     *)
(* It ends at gone after a Terminate, at left if it never registered one.  *)
(***************************************************************************)
Section1  == {"count", "openlog"}
Section2  == {"load", "resolve", "init", "register"}
TearDown  == {"termlib", "closelog", "unload"}
Holding   == Section1 \cup Section2 \cup {"countdown"} \cup TearDown
Hooked    == {"hooked", "inhook"}
Uncounted == {"new", "lock1", "count", "gone"} \cup TearDown
InExit    == {"lock1", "decide", "lock2", "lockT"} \cup Holding
Places    == InExit \cup Hooked \cup {"new", "plain", "left", "gone"}

(* log: is APIX_LOGFILE set.  skip: a wrapper is instrumented already, the *)
(* program is 32-bit, or it is not an external application.  lib: what the *)
(* process finds in mqioteldl.so and in its own OTel runtime.              *)
Environments == 
  [log : BOOLEAN, skip : BOOLEAN, 
   lib : {"good", "wrongAbi", "noInit", "noHook"}]

Counted == {c \in Conns : pc[c] \notin Uncounted}

Init ==
  /\ env \in Environments
  /\ mutex = NoConn
  /\ initCount = 0
  /\ fp = FALSE
  /\ hdl = FALSE
  /\ ot = "null"
  /\ initialised = FALSE
  /\ rc = [c \in Conns |-> "none"]
  /\ pc = [c \in Conns |-> "new"]
  /\ crashed = FALSE

(* A step of the thread of c, which a crash of the process ends.           *)
Goto(c, from, to) == 
  /\ ~crashed
  /\ pc[c] = from 
  /\ pc' = [pc EXCEPT ![c] = to]

lock(c) == mutex = NoConn /\ mutex' = c
unlock == mutex' = NoConn

-----------------------------------------------------------------------------
(* EntryPoint: first critical section.                                     *)

Connect(c) ==
  /\ Goto(c, "new", "lock1")
  /\ UNCHANGED <<env, mutex, initCount, fp, hdl, ot, initialised, rc, crashed>>

EnterFirst(c) ==
  /\ Goto(c, "lock1", "count")
  /\ lock(c)
  /\ UNCHANGED <<env, initCount, fp, hdl, ot, initialised, rc, crashed>>

(* With a flag instead of a counter.                                       *)
FlagUp(c) ==
  /\ Goto(c, "count", "openlog")
  /\ initCount' = 1
  /\ UNCHANGED <<env, mutex, fp, hdl, ot, initialised, rc, crashed>>

CountUp(c) ==
  /\ Goto(c, "count", "openlog")
  /\ initCount' = initCount + 1
  /\ UNCHANGED <<env, mutex, fp, hdl, ot, initialised, rc, crashed>>

(* With the mutex kept when the log file cannot be opened.                 *)
OpenLogEarlyReturn(c) ==
  /\ \/ /\ fp \/ ~env.log
        /\ Goto(c, "openlog", "decide")
        /\ UNCHANGED fp
        /\ unlock
     \/ /\ ~fp /\ env.log
        /\ Goto(c, "openlog", "plain")
        /\ UNCHANGED <<fp, mutex>>
  /\ UNCHANGED <<env, initCount, hdl, ot, initialised, rc, crashed>>

(* A log file that cannot be opened fails the MQCONN: no hook is           *)
(* registered, so Terminate will not be called for this connection.        *)
OpenLog(c) ==
  /\ unlock
  /\ \/ /\ fp \/ ~env.log
        /\ Goto(c, "openlog", "decide")
        /\ UNCHANGED fp
     \/ /\ ~fp /\ env.log
        /\ Goto(c, "openlog", "decide")
        /\ fp' = TRUE
     \/ /\ ~fp /\ env.log
        /\ Goto(c, "openlog", "plain")
        /\ UNCHANGED fp
  /\ UNCHANGED <<env, initCount, hdl, ot, initialised, rc, crashed>>

Decide(c) ==
  /\ Goto(c, "decide", IF env.skip THEN "plain" ELSE "lock2")
  /\ UNCHANGED <<env, mutex, initCount, fp, hdl, ot, initialised, rc, crashed>>

-----------------------------------------------------------------------------
(* EntryPoint: second critical section.                                    *)

EnterSecond(c) ==
  /\ Goto(c, "lock2", "load")
  /\ lock(c)
  /\ UNCHANGED <<env, initCount, fp, hdl, ot, initialised, rc, crashed>>

(* None of the five paths may hold a loadable library: only a warning is   *)
(* logged, rc stays 0 and the hooks are registered all the same.           *)
LoadLibrary(c) ==
  /\ \/ /\ Goto(c, "load", "resolve")
        /\ hdl' = TRUE
     \/ /\ ~hdl
        /\ Goto(c, "load", "register")
        /\ UNCHANGED hdl
  /\ UNCHANGED <<env, mutex, initCount, fp, ot, initialised, rc, crashed>>

(* Each missing symbol leaves a null pointer and makes rc non-zero.        *)
ResolveSymbols(c) ==
  /\ Goto(c, "resolve", "init")
  /\ ot' = "live"
  /\ rc' = [rc EXCEPT ![c] = 
              IF env.lib \in {"noInit", "noHook"} THEN "missing" ELSE @]
  /\ UNCHANGED <<env, mutex, initCount, fp, hdl, initialised, crashed>>

(* What mqotInit answers, ALREADY_CONNECTED being turned into NONE: the    *)
(* ABI is looked at by the first call only, after the flag has been set.   *)
mqotInit ==
  IF initialised \/ env.lib # "wrongAbi" THEN "none" ELSE "wrongVersion"

InitLibrary(c) ==
  /\ Goto(c, "init", "register")
  /\ \/ /\ env.lib = "noInit"
        /\ UNCHANGED <<initialised, rc>>
     \/ /\ env.lib # "noInit"
        /\ rc' = [rc EXCEPT ![c] = mqotInit]
        /\ initialised' = TRUE
  /\ UNCHANGED <<env, mutex, initCount, fp, hdl, ot, crashed>>

RegisterHooks(c) ==
  /\ Goto(c, "register", IF rc[c] = "none" THEN "hooked" ELSE "plain")
  /\ unlock
  /\ UNCHANGED <<env, initCount, fp, hdl, ot, initialised, rc, crashed>>

-----------------------------------------------------------------------------
(* The hooks, on the connection's own thread, without the mutex.  A call   *)
(* through a stale pointer finds the code still mapped, or kills the       *)
(* process.                                                                *)

CallHook(c) ==
  /\ Goto(c, "hooked", "inhook")
  /\ ot # "null"
  /\ crashed' \in {FALSE, ot = "stale"}
  /\ UNCHANGED <<env, mutex, initCount, fp, hdl, ot, initialised, rc>>

HookReturns(c) ==
  /\ Goto(c, "inhook", "hooked")
  /\ UNCHANGED <<env, mutex, initCount, fp, hdl, ot, initialised, rc, crashed>>

-----------------------------------------------------------------------------
(* The end of a connection.                                                *)

DisconnectPlain(c) ==
  /\ Goto(c, "plain", "left")
  /\ UNCHANGED <<env, mutex, initCount, fp, hdl, ot, initialised, rc, crashed>>

Terminate(c) ==
  /\ Goto(c, "hooked", "lockT")
  /\ UNCHANGED <<env, mutex, initCount, fp, hdl, ot, initialised, rc, crashed>>

EnterTerminate(c) ==
  /\ Goto(c, "lockT", "countdown")
  /\ lock(c)
  /\ UNCHANGED <<env, initCount, fp, hdl, ot, initialised, rc, crashed>>

(* With another idea of the last Terminate.                                *)
CountDownTo(c, last) ==
  /\ initCount' = initCount - 1
  /\ \/ /\ initCount' <= last
        /\ Goto(c, "countdown", "termlib")
        /\ UNCHANGED mutex
     \/ /\ initCount' > last
        /\ Goto(c, "countdown", "gone")
        /\ unlock
  /\ UNCHANGED <<env, fp, hdl, ot, initialised, rc, crashed>>
CountDownEarly(c) == CountDownTo(c, 1)
CountDownLate(c)  == CountDownTo(c, -1)

CountDown(c) ==
  /\ initCount' = initCount - 1
  /\ \/ /\ initCount' <= 0
        /\ Goto(c, "countdown", "termlib")
        /\ UNCHANGED mutex
     \/ /\ initCount' > 0
        /\ Goto(c, "countdown", "gone")
        /\ unlock
  /\ UNCHANGED <<env, fp, hdl, ot, initialised, rc, crashed>>

(* ot.term(), through whatever the table holds: mqotTerm resets the flag.  *)
TermLibrary(c) ==
  /\ Goto(c, "termlib", "closelog")
  /\ initialised' = IF ot = "live" THEN FALSE ELSE initialised
  /\ crashed' \in {FALSE, ot = "stale"}
  /\ UNCHANGED <<env, mutex, initCount, fp, hdl, ot, rc>>

CloseLog(c) ==
  /\ Goto(c, "closelog", "unload")
  /\ fp' = FALSE
  /\ UNCHANGED <<env, mutex, initCount, hdl, ot, initialised, rc, crashed>>

(* dlclose; the function pointers are not cleared.                         *)
UnloadLibrary(c) ==
  /\ Goto(c, "unload", "gone")
  /\ hdl' = FALSE
  /\ ot' = IF hdl THEN "stale" ELSE ot
  /\ initCount' = 0
  /\ unlock
  /\ UNCHANGED <<env, fp, initialised, rc, crashed>>

-----------------------------------------------------------------------------
(* One step of the exit's own code on the thread of c.                     *)
ExitStep(c) ==
  \/ EnterFirst(c) \/ CountUp(c) \/ OpenLog(c) \/ Decide(c)
  \/ EnterSecond(c) \/ LoadLibrary(c) \/ ResolveSymbols(c) 
  \/ InitLibrary(c) \/ RegisterHooks(c)
  \/ HookReturns(c)
  \/ EnterTerminate(c) \/ CountDown(c) 
  \/ TermLibrary(c) \/ CloseLog(c) \/ UnloadLibrary(c)

(* What the application decides to do.                                     *)
AppStep(c) == Connect(c) \/ CallHook(c) \/ DisconnectPlain(c) \/ Terminate(c)

Next == \E c \in Conns : ExitStep(c) \/ AppStep(c)

(* Threads are scheduled: code of the exit that can go on does.            *)
Fairness == \A c \in Conns : WF_vars(ExitStep(c))

Spec == Init /\ [][Next]_vars /\ Fairness

-----------------------------------------------------------------------------
(* Properties.                                                             *)

TypeOK ==
  /\ env \in Environments
  /\ mutex \in Conns \cup {NoConn}
  /\ initCount \in Nat
  /\ fp \in BOOLEAN
  /\ hdl \in BOOLEAN
  /\ ot \in {"null", "live", "stale"}
  /\ initialised \in BOOLEAN
  /\ rc \in [Conns -> {"none", "missing", "wrongVersion"}]
  /\ pc \in [Conns -> Places]
  /\ crashed \in BOOLEAN

(* The inductive invariant, in parts.                                      *)

(* Whoever is inside a critical section holds the mutex.                   *)
MutexInv == \A c \in Conns : pc[c] \in Holding <=> mutex = c

(* initCount counts the connections between their initCount++ and their    *)
(* own initCount--, those that will never run a Terminate included.        *)
CountInv == 
  /\ initCount = Cardinality(Counted)
  /\ \A c \in Conns : pc[c] \in TearDown => initCount = 0

(* What is held is held for a counted connection, or is being given back.  *)
HeldInv ==
  /\ hdl => Counted # {} \/ \E c \in Conns : pc[c] \in TearDown
  /\ fp  => Counted # {} \/ \E c \in Conns : pc[c] \in {"termlib", "closelog"}

(* The function pointers are live exactly while the library is loaded,     *)
(* save for the moment between dlopen and dlsym.                           *)
PointersInv ==
  /\ ot = "live" => hdl
  /\ hdl => ot = "live" \/ \E c \in Conns : pc[c] = "resolve"
  /\ \A c \in Conns : pc[c] \in {"resolve", "init"} => hdl
  /\ \A c \in Conns : pc[c] = "init" => ot = "live"

(* mqotInit's flag is set only in a loaded library that has not been       *)
(* through mqotTerm.                                                       *)
InitialisedInv ==
  /\ initialised => ot = "live"
  /\ \A c \in Conns : pc[c] \in {"closelog", "unload"} => ~initialised

IInv == 
  /\ TypeOK 
  /\ MutexInv 
  /\ CountInv 
  /\ HeldInv 
  /\ PointersInv 
  /\ InitialisedInv

(* The library and the log file are resources shared by the counted        *)
(* connections: neither is given back while a connection that has passed   *)
(* initCount++ and has not come to its own Terminate may still use it, in  *)
(* spite of the mutex being free between EntryPoint's two sections and     *)
(* during every hook.                                                      *)
Library == INSTANCE SharedResource WITH 
             Users <- Conns, users <- Counted, up <- hdl
Log     == INSTANCE SharedResource WITH 
             Users <- Conns, users <- Counted, up <- fp
LibraryIsShared == Library!Spec
LogIsShared     == Log!Spec

(* A count of zero outside the critical sections means that the process    *)
(* holds nothing of the exit: log, library and library state are gone.     *)
LastOutCleansUp ==
  initCount = 0 /\ mutex = NoConn => ~fp /\ ~hdl /\ ~initialised

(* A hook that was entered through a live pointer keeps its code mapped    *)
(* until it returns, whatever the other threads do meanwhile.              *)
HookKeepsItsCode ==
  [][\A c \in Conns : pc[c] = "inhook" /\ ot = "live" => ot' = "live"]_vars

(* Every call of EntryPoint and of Terminate comes back to the queue       *)
(* manager: no path leaves the mutex locked, no thread waits for itself.   *)
ExitReturns ==
  \A c \in Conns : pc[c] \in InExit ~> (pc[c] \notin InExit \/ crashed)

-----------------------------------------------------------------------------
(* A claim of a comment that the code does not keep.                       *)

(* "Only insert our code if the init was successful": a connection that    *)
(* registers its hooks on a loaded library runs with the ABI that mqotInit *)
(* requires.                                                               *)
HookedOnlyAfterGoodInit ==
  [][\A c \in Conns : 
       pc[c] = "register" /\ pc'[c] = "hooked" /\ hdl => env.lib # "wrongAbi"
    ]_vars
=============================================================================
