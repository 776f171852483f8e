------------------------------ MODULE OamChain ------------------------------
(***************************************************************************)
(* The chain of authorisation services in one process of a queue manager:  *)
(* oamlog, oamcrt and the real OAM, in this order.                         *)
(*                                                                         *)
(* Threads work on operations of users.  For an operation the queue        *)
(* manager makes one call of the interface after the other (instserv/      *)
(* oamcrt/README.md lists them), each of which it passes along the chain   *)
(* until the answer of a service ends it (comments of instserv/oamlog/     *)
(* oamlog.c).  The OAM itself may grant or refuse anything.                *)
(***************************************************************************)
EXTENDS OamCrt, Sequences

CONSTANT NoWork   \* what an idle thread is doing

VARIABLES
  kind,      \* is this the primary process of the queue manager
  primary,   \* per logging service, its flag primary_process
  fp,        \* per logging service, TRUE while its log file is open
  stage,     \* per logging service: new, serving, alsosecondary, failed, ended
  work,      \* per thread, the operation it is working on
  created    \* the queues created, with the users that did

vars == <<kind, primary, fp, stage, work, created, stash>>

process == <<kind, primary, fp, stage>>

Loggers == {"oamlog", "oamcrt"}
Stages == {"new", "serving", "alsosecondary", "failed", "ended"}
Serving == \A s \in Loggers : stage[s] \in {"serving", "alsosecondary"}
AllIdle == \A t \in Threads : work[t] = NoWork

Init ==
  /\ StashInit
  /\ kind \in {"primary", "secondary"}
  /\ primary = [s \in Loggers |-> FALSE]
  /\ fp = [s \in Loggers |-> FALSE]
  /\ stage = [s \in Loggers |-> "new"]
  /\ work = [t \in Threads |-> NoWork]
  /\ created = {}

-----------------------------------------------------------------------------
(* MQStart and OATerm.  The services are initialised in the order of the   *)
(* chain.  A primary process may get a secondary initialisation and        *)
(* termination while it serves.                                            *)

(* oamlog fails without its log; oamcrt goes on, because the completion    *)
(* code of its readConfig replaces the one that says so.  Either fails     *)
(* when it cannot register a function.                                     *)
MQStart(s, primaryInit) ==
  /\ \/ /\ stage[s] = "new"
        /\ primaryInit <=> kind = "primary"
        /\ s = "oamcrt" => stage["oamlog"] = "serving"
     \/ stage[s] = "serving" /\ kind = "primary" /\ ~primaryInit
  /\ primary' = [primary EXCEPT ![s] = @ \/ primaryInit]
  /\ fp' \in {fp, [fp EXCEPT ![s] = TRUE]}
  /\ \/ /\ s = "oamlog" => fp'[s]
        /\ stage' = [stage EXCEPT ![s] = 
             IF stage[s] = "new" THEN "serving" ELSE "alsosecondary"]
     \/ stage[s] = "new" /\ stage' = [stage EXCEPT ![s] = "failed"]
  /\ UNCHANGED <<kind, work, created, stash>>

(* With no regard for the primary process.                                 *)
CloseAlways(s, primaryTerm) ==
  primaryTerm \in BOOLEAN /\ fp' = [fp EXCEPT ![s] = FALSE]

CloseLog(s, primaryTerm) ==
  fp' = [fp EXCEPT ![s] = @ /\ primary[s] /\ ~primaryTerm]

OATerm(s, primaryTerm) ==
  /\ \/ /\ stage[s] = "serving"
        /\ primaryTerm <=> kind = "primary"
        /\ AllIdle
        /\ stage' = [stage EXCEPT ![s] = "ended"]
     \/ /\ stage[s] = "alsosecondary"
        /\ ~primaryTerm
        /\ stage' = [stage EXCEPT ![s] = "serving"]
  /\ CloseLog(s, primaryTerm)
  /\ UNCHANGED <<kind, primary, work, created, stash>>

-----------------------------------------------------------------------------
(* Operations and their calls.                                             *)

Call(fn, name, type, authority) == 
  [fn |-> fn, name |-> name, type |-> type, authority |-> authority]

CheckAuth(name, type, authority) == Call("CheckAuth", name, type, authority)
OtherCall(fn, name) == Call(fn, name, "Q", "PUT")

(* Creating a queue by a command, creating one by opening a model queue,   *)
(* opening a queue, looking at a model queue, and anything else.           *)
OpeningModel(name) ==
  <<CheckAuth(Model, "Q", "PUT"), CheckAuth(Model, "MODEL_Q", "DISPLAY"),
    OtherCall("CopyAllAuth", name), OtherCall("GetExplicitAuth", name), 
    OtherCall("SetAuth", name)>>

Operations(name) ==
  {<<CheckAuth(name, "Q", "CREATE")>>,
   OpeningModel(name),
   <<CheckAuth(name, "Q", "PUT")>>,
   <<CheckAuth(Model, "MODEL_Q", "DISPLAY")>>}
  \cup {<<OtherCall(fn, name)>> : fn \in Others \cup {"RefreshCache", "Inquire"}}

Creates(calls) == 
  \/ Head(calls).authority = "CREATE"
  \/ \E i \in DOMAIN calls : calls[i].fn = "CopyAllAuth"

(* The services that a call is passed to, as far as they have the          *)
(* function; OAInquire goes the other way round.                           *)
Path(fn) ==
  IF fn = "Inquire" THEN <<"oam", "oamlog">>
  ELSE IF fn \in Registered THEN <<"oamlog", "oamcrt", "oam">>
  ELSE <<"oamlog", "oam">>

(* Does the call go on to the next service after this answer?              *)
Specific == {"UNKNOWN_OBJECT_NAME", "NOT_AUTHORIZED"}
GoesOn(fn, answer) ==
  \/ fn \in {"RefreshCache", "Inquire"}
  \/ fn = "CheckAuth" /\ answer.reason \in Specific /\ answer.continuation = "CONTINUE"
  \/ /\ fn \in Others \cup {"CopyAllAuth"}
     /\ answer.cc # "OK" /\ answer.continuation = "CONTINUE"

(* A thread at work: for whom, on what (name and creates), which calls are *)
(* left, the first of them being made, which services are left for that    *)
(* one, whether oamlog has logged it, and what the last service answered.  *)
At(calls, w) == 
  [w EXCEPT !.calls = calls, !.path = Path(Head(calls).fn), 
            !.logged = FALSE, !.by = "none"]

Begin(t) ==
  /\ Serving
  /\ work[t] = NoWork
  /\ \E user \in Users, name \in Names : \E calls \in Operations(name) :
       work' = [work EXCEPT ![t] = 
         At(calls, [user |-> user, name |-> name, creates |-> Creates(calls),
                    calls |-> calls, path |-> <<>>, logged |-> FALSE, 
                    by |-> "none", answer |-> Refusal])]
  /\ UNCHANGED <<process, created, stash>>

Working(t) == work[t] # NoWork
NextService(t) == Head(work[t].path)
Asked(t) == Head(work[t].calls)

(* Thread t is about to ask service s.                                     *)
Asks(t, s) == Working(t) /\ work[t].path # <<>> /\ NextService(t) = s

(* It does, and goes on with the answer.                                   *)
Answered(t, s, answer) ==
  work' = [work EXCEPT ![t].path = IF GoesOn(Asked(t).fn, answer) THEN Tail(@) ELSE <<>>,
                       ![t].by = s, ![t].answer = answer,
                       ![t].logged = @ \/ (s = "oamlog" /\ fp[s])]

AskOamLog(t) ==
  /\ Asks(t, "oamlog")
  /\ Answered(t, "oamlog", LogAnswer(Asked(t).fn))
  /\ UNCHANGED <<process, created, stash>>

AskOamCrt(t) ==
  /\ Asks(t, "oamcrt")
  /\ LET call == Asked(t) IN
     \/ /\ call.fn = "CheckAuth"
        /\ OACheckAuth(t, call, work[t].user)
        /\ Answered(t, "oamcrt", CheckAnswer(call, work[t].user))
     \/ /\ call.fn = "CopyAllAuth"
        /\ OACopyAllAuth(t)
        /\ Answered(t, "oamcrt", CopyAnswer(t, call))
     \/ /\ call.fn = "RefreshCache"
        /\ UNCHANGED stash
        /\ Answered(t, "oamcrt", RefreshAnswer)
  /\ UNCHANGED <<process, created>>

AskOam(t) ==
  /\ Asks(t, "oam")
  /\ \E answer \in {GoOnWith("OK", "NONE"), Refusal} : Answered(t, "oam", answer)
  /\ UNCHANGED <<process, created, stash>>

(* All services have been asked that were to be: the operation goes on     *)
(* with the next call, is complete, or has failed.                         *)
Granted(t) == work[t].answer.cc # "FAILED"

Conclude(t) ==
  /\ Working(t) /\ work[t].path = <<>>
  /\ \/ /\ Granted(t) /\ Len(work[t].calls) > 1
        /\ work' = [work EXCEPT ![t] = At(Tail(@.calls), @)]
        /\ UNCHANGED created
     \/ /\ Granted(t) /\ Len(work[t].calls) = 1
        /\ work' = [work EXCEPT ![t] = NoWork]
        /\ created' = IF work[t].creates 
                      THEN created \cup {<<work[t].user, work[t].name>>} ELSE created
     \/ /\ ~Granted(t)
        /\ work' = [work EXCEPT ![t] = NoWork]
        /\ UNCHANGED created
  /\ UNCHANGED <<process, stash>>

(* The queue manager gives an operation up between two calls.              *)
Abandon(t) ==
  /\ Working(t) /\ work[t].path = <<>>
  /\ work' = [work EXCEPT ![t] = NoWork]
  /\ UNCHANGED <<process, created, stash>>

Next ==
  \/ \E s \in Loggers, isPrimary \in BOOLEAN : 
       MQStart(s, isPrimary) \/ OATerm(s, isPrimary)
  \/ \E t \in Threads : 
       \/ Begin(t) \/ AskOamLog(t) \/ AskOamCrt(t) \/ AskOam(t) 
       \/ Conclude(t) \/ Abandon(t)

Spec == Init /\ [][Next]_vars

-----------------------------------------------------------------------------
(* Properties.                                                             *)

Services == Loggers \cup {"oam"}
Work == [user : Users, name : Names, creates : BOOLEAN, calls : Seq(Calls),
         path : Seq(Services), logged : BOOLEAN, by : Services \cup {"none"},
         answer : Answers]

TypeOK ==
  /\ kind \in {"primary", "secondary"}
  /\ primary \in [Loggers -> BOOLEAN]
  /\ fp \in [Loggers -> BOOLEAN]
  /\ stage \in [Loggers -> Stages]
  /\ work \in [Threads -> Work \cup {NoWork}]
  /\ created \subseteq Users \X Names
  /\ prepareToCopy \in [Threads -> BOOLEAN]
  /\ prepareToCopyUser \in [Threads -> Users \cup {Null}]
  /\ copies \in [Threads -> Nat]

(* A name that is not permitted is never created, by a command or by       *)
(* opening a model queue, whatever else the threads have begun before, and *)
(* given up, and do at the same time.                                      *)
NotAllowedNeverCreated == \A c \in created : c[2] \notin NotAllowed

(* When oamcrt decides about a dynamic queue, the user it has noted is the *)
(* one who opens the model queue: not one of an earlier operation of the   *)
(* thread, and not one of another thread.                                  *)
NoteIsOfThisOpen ==
  \A t \in Threads :
    Asks(t, "oamcrt") /\ Asked(t).fn = "CopyAllAuth" =>
      prepareToCopy[t] /\ prepareToCopyUser[t] = work[t].user

(* The copies on the heap are the notes: a thread that notes users for     *)
(* ever without a CopyAllAuth in between does not lose them.               *)
CopiesAreNotes ==
  \A t \in Threads : copies[t] = IF prepareToCopyUser[t] = Null THEN 0 ELSE 1

(* Neither service can grant anything: a call that was not refused has     *)
(* come to the OAM, or oamcrt has refused it.                              *)
OnlyOamGrants ==
  \A t \in Threads :
    Working(t) /\ work[t].path = <<>> /\ Asked(t).fn # "Inquire" =>
      work[t].by = "oam" \/ (work[t].by = "oamcrt" /\ work[t].answer = Refusal)

(* No call gets past oamlog unseen, between its initialisation and its     *)
(* last termination.                                                       *)
LoggedFirst ==
  \A t \in Threads :
    Working(t) /\ work[t].by # "none" /\ Asked(t).fn # "Inquire" => work[t].logged

-----------------------------------------------------------------------------
(* The inductive invariant, in parts.                                      *)

(* Threads work while both services serve.  oamlog then has its log open,  *)
(* which a secondary termination leaves to the primary process.            *)
ServiceInv ==
  /\ (\E t \in Threads : Working(t)) => Serving
  /\ stage["oamlog"] \in {"serving", "alsosecondary"} => fp["oamlog"]
  /\ \A s \in Loggers :
       /\ stage[s] = "alsosecondary" => kind = "primary"
       /\ stage[s] \in {"serving", "alsosecondary"} /\ kind = "primary" => primary[s]

(* The two halves of a note agree, and there is one copy of it.            *)
StashInv(t) ==
  /\ prepareToCopy[t] <=> prepareToCopyUser[t] # Null
  /\ copies[t] = IF prepareToCopyUser[t] = Null THEN 0 ELSE 1

(* A thread has all of an operation in front of it, or, if that opens a    *)
(* model queue, the rest of its calls.                                     *)
Left(w) == Len(w.calls)
Opens(w) ==
  /\ w.creates /\ Left(w) \in 1..5
  /\ \A i \in 1..Left(w) : w.calls[i] = OpeningModel(w.name)[5 - Left(w) + i]
CreatesByCommand(w) == w.creates /\ w.calls = <<CheckAuth(w.name, "Q", "CREATE")>>
CreatesNothing(w) ==
  ~w.creates /\ \E call \in Calls : call.fn # "CopyAllAuth" /\ w.calls = <<call>>

CallsInv(t) == 
  Working(t) => Opens(work[t]) \/ CreatesByCommand(work[t]) \/ CreatesNothing(work[t])

(* Where a call is: the services before it on its path have answered.      *)
PathInv(t) ==
  Working(t) /\ Asked(t).fn # "Inquire" =>
    LET w == work[t]
        path == Path(Asked(t).fn)
    IN
    \/ w.by = "none" /\ w.path = path
    \/ w.by = "oamlog" /\ w.path = Tail(path) /\ w.logged
    \/ /\ w.by = "oamcrt" /\ Asked(t).fn \in Registered /\ w.logged
       /\ w.path = <<"oam">> \/ (w.path = <<>> /\ w.answer = Refusal)
    \/ w.by = "oam" /\ w.path = <<>> /\ w.logged

(* oamcrt has let the call pass.                                           *)
Passed(w) == w.by = "oam" \/ (w.by = "oamcrt" /\ w.path = <<"oam">>)

(* From its DISPLAY to its CopyAllAuth the opening of a model queue has    *)
(* its user noted.                                                         *)
NoteInv(t) ==
  Working(t) /\ Opens(work[t]) =>
    LET w == work[t] IN
    (Left(w) = 4 /\ Passed(w)) \/ (Left(w) = 3 /\ w.by \in {"none", "oamlog"}) =>
      prepareToCopyUser[t] = w.user

(* Whatever has passed the call that decides has a permitted name.         *)
DecisionInv(t) ==
  Working(t) =>
    LET w == work[t] IN
    \/ CreatesByCommand(w) /\ Passed(w)
    \/ Opens(w) /\ (Left(w) < 3 \/ (Left(w) = 3 /\ Passed(w)))
    => w.name \notin NotAllowed

ThreadInv(t) ==
  StashInv(t) /\ CallsInv(t) /\ PathInv(t) /\ NoteInv(t) /\ DecisionInv(t)

IInv == 
  /\ TypeOK /\ ServiceInv /\ NotAllowedNeverCreated
  /\ \A t \in Threads : ThreadInv(t)
=============================================================================
