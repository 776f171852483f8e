------------------------------- MODULE OamCrt -------------------------------
(***************************************************************************)
(* The authorisation services oamlog and oamcrt (instserv): what they      *)
(* answer to the queue manager's calls, and the note that oamcrt keeps on  *)
(* a thread from one call to the next.                                     *)
(*                                                                         *)
(* Whether somebody may create a permanent queue is decided by             *)
(* OACheckAuth.  A dynamic queue is created by opening a model queue: then *)
(* OACheckAuth does not know the name yet and OACopyAllAuth does not know  *)
(* the user, so the former notes the user for the latter.                  *)
(*                                                                         *)
(* Operators described as "With ..." are variations of the one they        *)
(* precede, kept to show that the properties notice the mistake.           *)
(***************************************************************************)
EXTENDS Integers, FiniteSets

CONSTANTS
  Threads,     \* the threads of the process
  Users,       \* on whose behalf they work
  Names,       \* names of queues
  NotAllowed,  \* those of them that begin with NOTALLOWED
  Model,       \* the name of a model queue
  Others,      \* functions of the interface that only oamlog and the OAM have
  Null         \* no user

ASSUME OamCrtAssumption ==
  /\ NotAllowed \subseteq Names
  /\ Model \notin NotAllowed
  /\ {"GetExplicitAuth", "SetAuth"} \subseteq Others
  /\ Others \subseteq {"DeleteAuth", "GetAuth", "GetExplicitAuth", "SetAuth", 
       "AuthUser", "FreeUser", "EnumAuth", "CheckPrivileged"}
  /\ Null \notin Users

VARIABLES
  prepareToCopy,      \* per thread
  prepareToCopyUser,  \* per thread, Null or a user: a copy on the heap
  copies              \* per thread, the copies it has made and not freed

stash == <<prepareToCopy, prepareToCopyUser, copies>>

StashInit ==
  /\ prepareToCopy = [t \in Threads |-> FALSE]
  /\ prepareToCopyUser = [t \in Threads |-> Null]
  /\ copies = [t \in Threads |-> 0]

-----------------------------------------------------------------------------
(* A call that the queue manager makes: of which function and, for         *)
(* OACheckAuth and OACopyAllAuth, about what.                              *)

Functions == {"CheckAuth", "CopyAllAuth", "RefreshCache", "Inquire"} \cup Others

Types == {"Q", "MODEL_Q"}
Authorities == {"CREATE", "DISPLAY", "PUT"}
Calls == [fn : Functions, name : Names \cup {Model}, 
          type : Types, authority : Authorities]

(* What a service answers: CompCode, Reason and Continuation.              *)
Answers == [cc : {"OK", "WARNING", "FAILED"}, 
            reason : {"NONE", "UNKNOWN_OBJECT_NAME", "NOT_AUTHORIZED"},
            continuation : {"CONTINUE", "STOP"}]

GoOnWith(cc, reason) == 
  [cc |-> cc, reason |-> reason, continuation |-> "CONTINUE"]
Refusal == 
  [cc |-> "FAILED", reason |-> "NOT_AUTHORIZED", continuation |-> "STOP"]

-----------------------------------------------------------------------------
(* oamlog: every function is registered, and only answers.                 *)

(* OADeleteAuth, OAGetAuth, OAGetExplicitAuth, OASetAuth, OACopyAllAuth,   *)
(* OAAuthUser, OAFreeUser, OAEnumAuth and OACheckPrivileged.               *)
LogRequest == GoOnWith("WARNING", "NONE")

(* OACheckAuth.                                                            *)
LogCheckAuth == GoOnWith("WARNING", "UNKNOWN_OBJECT_NAME")

(* OARefreshCache and OAInquire.                                           *)
LogForAll == GoOnWith("OK", "NONE")

LogAnswer(fn) ==
  IF fn = "CheckAuth" THEN LogCheckAuth
  ELSE IF fn \in {"RefreshCache", "Inquire"} THEN LogForAll
  ELSE LogRequest

-----------------------------------------------------------------------------
(* oamcrt.                                                                 *)

Registered == {"CheckAuth", "CopyAllAuth", "RefreshCache"}

permittedObject(name, user) == name \notin NotAllowed

(* The note of a thread is replaced, and the copy of the old one freed.    *)
StashIs(t, user) ==
  /\ prepareToCopy' = [prepareToCopy EXCEPT ![t] = user # Null]
  /\ prepareToCopyUser' = [prepareToCopyUser EXCEPT ![t] = user]
  /\ copies' = [copies EXCEPT ![t] = @ + (IF user # Null THEN 1 ELSE 0)
                                     - (IF prepareToCopyUser[t] # Null THEN 1 ELSE 0)]

(* OACheckAuth on thread t for user, with its answer.                      *)
OpensModel(call) == call.type = "MODEL_Q" /\ call.authority = "DISPLAY"
Refuses(call, user) == 
  call.type = "Q" /\ call.authority = "CREATE" /\ ~permittedObject(call.name, user)

CheckAnswer(call, user) ==
  IF Refuses(call, user) THEN Refusal ELSE GoOnWith("WARNING", "UNKNOWN_OBJECT_NAME")

(* With a note that is shared by the threads.                              *)
CheckNotesForAll(t, call, user) ==
  LET noted == IF OpensModel(call) THEN user ELSE Null IN
  /\ prepareToCopy' = [u \in Threads |-> noted # Null]
  /\ prepareToCopyUser' = [u \in Threads |-> noted]
  /\ UNCHANGED copies

(* With the old copy not freed.                                            *)
CheckDropsNote(t, call, user) ==
  LET noted == IF OpensModel(call) THEN user ELSE Null IN
  /\ prepareToCopy' = [prepareToCopy EXCEPT ![t] = noted # Null]
  /\ prepareToCopyUser' = [prepareToCopyUser EXCEPT ![t] = noted]
  /\ copies' = [copies EXCEPT ![t] = @ + (IF noted # Null THEN 1 ELSE 0)]

OACheckAuth(t, call, user) == StashIs(t, IF OpensModel(call) THEN user ELSE Null)

(* OACopyAllAuth, with its answer: the rule is asked about the new queue,  *)
(* for the user noted.  And with the rule asked about the model queue.     *)
CopyAnswerByModel(t, call) ==
  IF prepareToCopy[t] /\ ~permittedObject(Model, prepareToCopyUser[t])
  THEN Refusal ELSE GoOnWith("WARNING", "NONE")

CopyAnswer(t, call) ==
  IF prepareToCopy[t] /\ ~permittedObject(call.name, prepareToCopyUser[t])
  THEN Refusal ELSE GoOnWith("WARNING", "NONE")

(* With the pointer kept after the copy is freed.                          *)
CopyLeavesPointer(t) ==
  /\ prepareToCopy' = [prepareToCopy EXCEPT ![t] = FALSE]
  /\ copies' = [copies EXCEPT ![t] = @ - (IF prepareToCopyUser[t] # Null THEN 1 ELSE 0)]
  /\ UNCHANGED prepareToCopyUser

OACopyAllAuth(t) == StashIs(t, Null)

(* OARefreshCache; the configuration that it rereads is a fixed one.       *)
RefreshAnswer == GoOnWith("OK", "NONE")
=============================================================================
