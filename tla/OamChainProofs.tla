--------------------------- MODULE OamChainProofs ---------------------------
(***************************************************************************)
(* Proofs about the chain of authorisation services, for any number of     *)
(* threads, users and names.                                               *)
(***************************************************************************)
EXTENDS OamChain, TLAPS

(* What is left of a path after each service on it.                        *)
LEMMA Paths ==
  ASSUME NEW fn \in Functions, fn # "Inquire"
  PROVE  /\ Path(fn) \in Seq(Services) /\ Path(fn) # <<>> /\ Head(Path(fn)) = "oamlog"
         /\ Tail(Path(fn)) # <<>> /\ Head(Tail(Path(fn))) # "oamlog"
         /\ fn \in Registered => /\ Head(Tail(Path(fn))) = "oamcrt" 
                                 /\ Tail(Tail(Path(fn))) = <<"oam">>
         /\ fn \notin Registered => Tail(Path(fn)) = <<"oam">>
  <1>1. CASE fn \in Registered
    <2>1. Path(fn) = <<"oamlog", "oamcrt", "oam">>
      BY <1>1 DEF Path, Registered
    <2>2. Path(fn) \in Seq(Services)
      BY <2>1 DEF Services, Loggers
    <2>3. Tail(Path(fn)) = <<"oamcrt", "oam">>
      BY <2>1
    <2>4. Tail(<<"oamcrt", "oam">>) = <<"oam">>
      OBVIOUS
    <2>5. Tail(Tail(Path(fn))) = <<"oam">>
      BY <2>3, <2>4
    <2>6. QED BY <1>1, <2>1, <2>2, <2>3, <2>5
  <1>2. CASE fn \notin Registered
    <2>1. Path(fn) = <<"oamlog", "oam">>
      BY <1>2 DEF Path
    <2>2. Path(fn) \in Seq(Services)
      BY <2>1 DEF Services, Loggers
    <2>3. Tail(Path(fn)) = <<"oam">>
      BY <2>1
    <2>4. QED BY <1>2, <2>1, <2>2, <2>3
  <1>3. QED BY <1>1, <1>2

LEMMA InquirePath == Path("Inquire") \in Seq(Services)
  BY DEF Path, Services, Loggers

LEMMA CallsAreCalls ==
  ASSUME NEW name \in Names
  PROVE  /\ CheckAuth(name, "Q", "CREATE") \in Calls
         /\ OpeningModel(name) \in Seq(Calls) /\ Len(OpeningModel(name)) = 5
         /\ OpeningModel(name)[1] = CheckAuth(Model, "Q", "PUT")
         /\ OpeningModel(name)[2] = CheckAuth(Model, "MODEL_Q", "DISPLAY")
         /\ OpeningModel(name)[3] = OtherCall("CopyAllAuth", name)
         /\ OpeningModel(name)[4] = OtherCall("GetExplicitAuth", name)
         /\ OpeningModel(name)[5] = OtherCall("SetAuth", name)
  BY OamCrtAssumption DEF OpeningModel, CheckAuth, OtherCall, Call, Calls, Functions, 
     Types, Authorities

(* The operations are of the three kinds that CallsInv knows.              *)
LEMMA OperationKinds ==
  ASSUME NEW name \in Names, NEW calls \in Operations(name)
  PROVE  /\ calls \in Seq(Calls) /\ Len(calls) >= 1
         /\ \/ calls = OpeningModel(name) /\ Creates(calls)
            \/ calls = <<CheckAuth(name, "Q", "CREATE")>> /\ Creates(calls)
            \/ (\E call \in Calls : call.fn # "CopyAllAuth" /\ calls = <<call>>) /\ ~Creates(calls)
  <1>1. CASE calls = OpeningModel(name)
    <2>1. DOMAIN calls = 1..5
      BY <1>1, CallsAreCalls
    <2>2. 3 \in DOMAIN calls /\ calls[3] = OtherCall("CopyAllAuth", name)
      BY <1>1, <2>1, CallsAreCalls
    <2>3. calls[3].fn = "CopyAllAuth"
      BY <2>2 DEF OtherCall, Call
    <2>4. QED BY <1>1, <2>2, <2>3, CallsAreCalls DEF Creates
  <1>2. CASE calls = <<CheckAuth(name, "Q", "CREATE")>>
    <2>1. Head(calls).authority = "CREATE"
      BY <1>2 DEF CheckAuth, Call
    <2>2. QED BY <1>2, <2>1, CallsAreCalls DEF Creates
  <1>3. ASSUME NEW call \in Calls, calls = <<call>>, 
               call.authority # "CREATE", call.fn # "CopyAllAuth"
        PROVE  /\ calls \in Seq(Calls) /\ Len(calls) >= 1
               /\ (\E c \in Calls : c.fn # "CopyAllAuth" /\ calls = <<c>>) 
               /\ ~Creates(calls)
    BY <1>3 DEF Creates
  <1>4. CASE calls = <<CheckAuth(name, "Q", "PUT")>>
    <2>1. CheckAuth(name, "Q", "PUT") \in Calls
      BY DEF CheckAuth, Call, Calls, Functions, Types, Authorities
    <2>2. QED BY <1>3, <1>4, <2>1 DEF CheckAuth, Call
  <1>5. CASE calls = <<CheckAuth(Model, "MODEL_Q", "DISPLAY")>>
    <2>1. CheckAuth(Model, "MODEL_Q", "DISPLAY") \in Calls
      BY DEF CheckAuth, Call, Calls, Functions, Types, Authorities
    <2>2. QED BY <1>3, <1>5, <2>1 DEF CheckAuth, Call
  <1>6. ASSUME NEW fn \in Others \cup {"RefreshCache", "Inquire"}, 
               calls = <<OtherCall(fn, name)>>
        PROVE  /\ calls \in Seq(Calls) /\ Len(calls) >= 1
               /\ (\E c \in Calls : c.fn # "CopyAllAuth" /\ calls = <<c>>) 
               /\ ~Creates(calls)
    <2>1. OtherCall(fn, name) \in Calls
      BY DEF OtherCall, Call, Calls, Functions, Types, Authorities
    <2>2. fn # "CopyAllAuth"
      BY OamCrtAssumption
    <2>3. QED BY <1>3, <1>6, <2>1, <2>2 DEF OtherCall, Call
  <1>7. QED
    BY <1>1, <1>2, <1>4, <1>5, <1>6 DEF Operations

-----------------------------------------------------------------------------
(* What a step makes of the work of its thread, and that it leaves the     *)
(* work of the others alone.                                               *)

LEMMA AnsweredIs ==
  ASSUME TypeOK, NEW t \in Threads, NEW s \in Services, NEW answer \in Answers,
         Asks(t, s), Answered(t, s, answer)
  PROVE  /\ work \in [Threads -> Work \cup {NoWork}] /\ work[t] \in Work
         /\ work' \in [Threads -> Work \cup {NoWork}] /\ work'[t] \in Work
         /\ \A u \in Threads \ {t} : work'[u] = work[u]
         /\ work'[t].user = work[t].user /\ work'[t].name = work[t].name
         /\ work'[t].creates = work[t].creates /\ work'[t].calls = work[t].calls
         /\ work'[t].path = IF GoesOn(Asked(t).fn, answer) THEN Tail(work[t].path) ELSE <<>>
         /\ work'[t].by = s /\ work'[t].answer = answer
         /\ work'[t].logged = (work[t].logged \/ (s = "oamlog" /\ fp[s]))
  <1> DEFINE path == IF GoesOn(Asked(t).fn, answer) THEN Tail(work[t].path) ELSE <<>>
             logged == work[t].logged \/ (s = "oamlog" /\ fp[s])
  <1>1. work[t] \in Work /\ work \in [Threads -> Work \cup {NoWork}]
    BY DEF TypeOK, Asks, Working
  <1>2. path \in Seq(Services)
    <2>1. work[t].path \in Seq(Services) /\ work[t].path # <<>>
      BY <1>1 DEF Work, Asks
    <2>2. Tail(work[t].path) \in Seq(Services)
      BY <2>1
    <2>3. QED BY <2>2
  <1>3. logged \in BOOLEAN
    BY <1>1 DEF TypeOK, Work, Loggers
  <1>4. work' = [work EXCEPT ![t] = 
          [[[[work[t] EXCEPT !.path = path] EXCEPT !.by = s] 
             EXCEPT !.answer = answer] EXCEPT !.logged = logged]]
    BY <1>1 DEF Answered
  <1> DEFINE w == [[[[work[t] EXCEPT !.path = path] EXCEPT !.by = s] 
                     EXCEPT !.answer = answer] EXCEPT !.logged = logged]
  <1>5. /\ w \in Work
        /\ w.user = work[t].user /\ w.name = work[t].name
        /\ w.creates = work[t].creates /\ w.calls = work[t].calls
        /\ w.path = path /\ w.by = s /\ w.answer = answer /\ w.logged = logged
    <2> HIDE DEF path, logged
    <2> QED BY <1>1, <1>2, <1>3 DEF Work
  <1> HIDE DEF w, path, logged
  <1>6. work' = [work EXCEPT ![t] = w]
    BY <1>4 DEF w
  <1>7. work'[t] = w
    BY <1>1, <1>6
  <1>8. QED
    BY <1>1, <1>5, <1>6, <1>7 DEF path, logged

(* Taking up a call: the next one, or the first.                           *)
LEMMA TakesUp ==
  ASSUME NEW w \in Work, NEW calls \in Seq(Calls), Len(calls) >= 1
  PROVE  /\ At(calls, w) \in Work
         /\ At(calls, w).user = w.user /\ At(calls, w).name = w.name
         /\ At(calls, w).creates = w.creates /\ At(calls, w).calls = calls
         /\ At(calls, w).path = Path(Head(calls).fn) /\ At(calls, w).by = "none"
         /\ Head(calls) \in Calls
  <1>1. Head(calls) \in Calls
    OBVIOUS
  <1>2. Head(calls).fn \in Functions
    BY <1>1 DEF Calls
  <1>3. Path(Head(calls).fn) \in Seq(Services)
    BY <1>2, Paths, InquirePath
  <1> DEFINE path == Path(Head(calls).fn)
  <1>4. At(calls, w) = [[[[w EXCEPT !.calls = calls] EXCEPT !.path = path] 
                          EXCEPT !.logged = FALSE] EXCEPT !.by = "none"]
    BY DEF At
  <1> HIDE DEF path
  <1>5. path \in Seq(Services)
    BY <1>3 DEF path
  <1>6. QED BY <1>1, <1>4, <1>5 DEF Work, path

(* A thread keeps its part of the invariant while others work.             *)
LEMMA Untouched ==
  ASSUME NEW t \in Threads, ThreadInv(t), work'[t] = work[t], 
         prepareToCopy'[t] = prepareToCopy[t], 
         prepareToCopyUser'[t] = prepareToCopyUser[t], copies'[t] = copies[t]
  PROVE  ThreadInv(t)'
  BY DEF ThreadInv, StashInv, CallsInv, PathInv, NoteInv, DecisionInv, Working, Asked

(* Where the opening of a model queue is tells which call is being made.   *)
LEMMA OpeningCalls ==
  ASSUME NEW w \in Work, Opens(w)
  PROVE  /\ Left(w) \in 1..5 /\ Head(w.calls) = OpeningModel(w.name)[6 - Left(w)]
         /\ Head(w.calls).fn \notin {"RefreshCache", "Inquire"}
         /\ Left(w) = 4 => Head(w.calls) = CheckAuth(Model, "MODEL_Q", "DISPLAY")
         /\ Left(w) = 3 => Head(w.calls) = OtherCall("CopyAllAuth", w.name)
         /\ Head(w.calls).fn = "CopyAllAuth" <=> Left(w) = 3
         /\ Head(w.calls).fn = "CheckAuth" <=> Left(w) \in {4, 5}
         /\ ~CreatesByCommand(w)
  <1>1. w.calls \in Seq(Calls) /\ w.name \in Names
    BY DEF Work
  <1>2. Left(w) \in 1..5 /\ w.calls[1] = OpeningModel(w.name)[5 - Left(w) + 1]
    <2>1. /\ Left(w) \in 1..5 
          /\ \A i \in 1..Left(w) : w.calls[i] = OpeningModel(w.name)[5 - Left(w) + i]
      BY DEF Opens
    <2>2. 1 \in 1..Left(w)
      BY <2>1
    <2>3. QED BY <2>1, <2>2
  <1>3. Head(w.calls) = w.calls[1]
    BY <1>1, <1>2 DEF Left
  <1>4. Head(w.calls) = OpeningModel(w.name)[6 - Left(w)]
    BY <1>2, <1>3
  <1>5. \/ Left(w) = 5 /\ Head(w.calls) = CheckAuth(Model, "Q", "PUT")
        \/ Left(w) = 4 /\ Head(w.calls) = CheckAuth(Model, "MODEL_Q", "DISPLAY")
        \/ Left(w) = 3 /\ Head(w.calls) = OtherCall("CopyAllAuth", w.name)
        \/ Left(w) = 2 /\ Head(w.calls) = OtherCall("GetExplicitAuth", w.name)
        \/ Left(w) = 1 /\ Head(w.calls) = OtherCall("SetAuth", w.name)
    BY <1>1, <1>2, <1>4, CallsAreCalls
  <1>6. ~CreatesByCommand(w)
    <2> SUFFICES ASSUME w.calls = <<CheckAuth(w.name, "Q", "CREATE")>> PROVE FALSE
      BY DEF CreatesByCommand
    <2>1. Left(w) = 1 /\ Head(w.calls) = CheckAuth(w.name, "Q", "CREATE")
      BY DEF Left
    <2>2. QED BY <1>5, <2>1 DEF CheckAuth, OtherCall, Call
  <1>7. QED
    BY <1>2, <1>4, <1>5, <1>6 DEF CheckAuth, OtherCall, Call

(* The three ways an operation can be looked at, for a thread that is at   *)
(* work: what does not depend on where its call is.                        *)
LEMMA SameOperation ==
  ASSUME NEW w \in Work, NEW v \in Work, 
         v.calls = w.calls, v.name = w.name, v.creates = w.creates
  PROVE  /\ Opens(v) <=> Opens(w) 
         /\ CreatesByCommand(v) <=> CreatesByCommand(w)
         /\ CreatesNothing(v) <=> CreatesNothing(w)
         /\ Left(v) = Left(w)
  BY DEF Opens, CreatesByCommand, CreatesNothing, Left

LEMMA SingleCalls ==
  ASSUME NEW w \in Work, CreatesByCommand(w) \/ CreatesNothing(w)
  PROVE  Left(w) = 1
  <1>1. CASE CreatesByCommand(w)
    BY <1>1 DEF CreatesByCommand, Left
  <1>2. CASE CreatesNothing(w)
    BY <1>2 DEF CreatesNothing, Left
  <1>3. QED BY <1>1, <1>2

LEMMA AtWork ==
  ASSUME TypeOK, NEW t \in Threads, ThreadInv(t), Working(t)
  PROVE  /\ work[t] \in Work /\ Asked(t) = Head(work[t].calls) 
         /\ Asked(t) \in Calls /\ Asked(t).fn \in Functions
  <1>1. work[t] \in Work
    BY DEF TypeOK, Working
  <1>2. work[t].calls \in Seq(Calls)
    BY <1>1 DEF Work
  <1>3. work[t].calls # <<>>
    <2>1. CASE Opens(work[t])
      <3>1. Len(work[t].calls) \in 1..5
        BY <1>1, <2>1, OpeningCalls DEF Left
      <3>2. QED BY <1>2, <3>1
    <2>2. CASE CreatesByCommand(work[t])
      BY <2>2 DEF CreatesByCommand
    <2>3. CASE CreatesNothing(work[t])
      BY <2>3 DEF CreatesNothing
    <2>4. QED BY <2>1, <2>2, <2>3 DEF ThreadInv, CallsInv
  <1>4. Head(work[t].calls) \in Calls
    BY <1>2, <1>3
  <1>5. QED BY <1>1, <1>4 DEF Asked, Calls

-----------------------------------------------------------------------------
(* The steps of a thread preserve its part of the invariant.               *)

LEMMA OamLogStep ==
  ASSUME IInv, NEW t \in Threads, AskOamLog(t)
  PROVE  ThreadInv(t)'
  <1> DEFINE w == work[t]
             v == work'[t]
             fn == Asked(t).fn
  <1>1. TypeOK /\ ThreadInv(t) /\ Working(t) /\ w.path # <<>> /\ Head(w.path) = "oamlog"
    BY DEF IInv, AskOamLog, Asks, NextService
  <1>2. w \in Work /\ Asked(t) = Head(w.calls) /\ fn \in Functions
    BY <1>1, AtWork
  <1>3. LogAnswer(fn) \in Answers
    BY DEF LogAnswer, LogRequest, LogCheckAuth, LogForAll, GoOnWith, Answers
  <1>4. fn # "Inquire" => GoesOn(fn, LogAnswer(fn))
    BY <1>2, OamCrtAssumption DEF GoesOn, Specific, LogAnswer, LogRequest, LogCheckAuth, 
       LogForAll, GoOnWith, Functions
  <1>5. /\ v \in Work /\ v.user = w.user /\ v.name = w.name /\ v.creates = w.creates
        /\ v.calls = w.calls /\ v.by = "oamlog" 
        /\ fp["oamlog"] => v.logged
        /\ GoesOn(fn, LogAnswer(fn)) => v.path = Tail(w.path)
    BY <1>1, <1>3, AnsweredIs DEF AskOamLog, Services, Loggers
  <1>6. fp["oamlog"]
    BY <1>1 DEF IInv, ServiceInv, Serving, Loggers
  <1>7. fn # "Inquire" => w.by = "none" /\ w.path = Path(fn)
    BY <1>1, <1>2, Paths DEF ThreadInv, PathInv
  <1>8. Asked(t)' = Asked(t)
    BY <1>2, <1>5 DEF Asked
  <1>9. /\ Opens(v) <=> Opens(w) 
        /\ CreatesByCommand(v) <=> CreatesByCommand(w)
        /\ CreatesNothing(v) <=> CreatesNothing(w)
        /\ Left(v) = Left(w)
    BY <1>2, <1>5, SameOperation
  <1>10. ~Passed(v)
    BY <1>5 DEF Passed
  <1>11. UNCHANGED stash
    BY DEF AskOamLog
  <1> HIDE DEF w, v
  <1>12. StashInv(t)'
    BY <1>1, <1>11 DEF ThreadInv, StashInv, stash
  <1>13. CallsInv(t)'
    BY <1>1, <1>9 DEF ThreadInv, CallsInv, w, v, Working
  <1>14. PathInv(t)'
    BY <1>4, <1>5, <1>6, <1>7, <1>8 DEF PathInv, w, v
  <1>15. NoteInv(t)'
    BY <1>1, <1>2, <1>5, <1>7, <1>9, <1>10, <1>11, OpeningCalls 
       DEF ThreadInv, NoteInv, w, v, stash
  <1>16. DecisionInv(t)'
    BY <1>1, <1>5, <1>9, <1>10 DEF ThreadInv, DecisionInv, w, v
  <1>17. QED 
    BY <1>12, <1>13, <1>14, <1>15, <1>16 DEF ThreadInv

(* The call that oamcrt is asked about has been logged; after it only the  *)
(* OAM is left.                                                            *)
LEMMA BeforeOamCrt ==
  ASSUME IInv, NEW t \in Threads, Asks(t, "oamcrt")
  PROVE  /\ Asked(t).fn # "Inquire" => 
              /\ work[t].by = "oamlog" /\ work[t].logged 
              /\ Asked(t).fn \in Registered /\ Tail(work[t].path) = <<"oam">>
  <1>1. TypeOK /\ ThreadInv(t) /\ Working(t) 
        /\ work[t].path # <<>> /\ Head(work[t].path) = "oamcrt"
    BY DEF IInv, Asks, NextService
  <1>2. Asked(t).fn \in Functions
    BY <1>1, AtWork
  <1>3. Head(<<"oam">>) = "oam"
    OBVIOUS
  <1>4. QED BY <1>1, <1>2, <1>3, Paths DEF ThreadInv, PathInv

LEMMA OamCrtStep ==
  ASSUME IInv, NEW t \in Threads, AskOamCrt(t)
  PROVE  ThreadInv(t)'
  <1> DEFINE w == work[t]
             v == work'[t]
             call == Asked(t)
  <1>1. TypeOK /\ ThreadInv(t) /\ Working(t) /\ Asks(t, "oamcrt")
    BY DEF IInv, AskOamCrt, Asks
  <1>2. w \in Work /\ call = Head(w.calls) /\ call.fn \in Functions
    BY <1>1, AtWork
  <1>3. call.fn \in {"CheckAuth", "CopyAllAuth", "RefreshCache"}
    BY DEF AskOamCrt
  <1>4. w.by = "oamlog" /\ w.logged /\ call.fn \in Registered /\ Tail(w.path) = <<"oam">>
    BY <1>1, <1>3, BeforeOamCrt
  (* The answer either passes the call on or refuses it.                   *)
  <1>5. ASSUME NEW answer \in Answers, Answered(t, "oamcrt", answer)
        PROVE  /\ v \in Work /\ v.user = w.user /\ v.name = w.name
               /\ v.creates = w.creates /\ v.calls = w.calls
               /\ v.by = "oamcrt" /\ v.answer = answer /\ v.logged
               /\ v.path = IF GoesOn(call.fn, answer) THEN <<"oam">> ELSE <<>>
               /\ Asked(t)' = Asked(t)
               /\ Opens(v) <=> Opens(w) 
               /\ CreatesByCommand(v) <=> CreatesByCommand(w)
               /\ CreatesNothing(v) <=> CreatesNothing(w)
               /\ Left(v) = Left(w)
    <2>1. /\ v \in Work /\ v.user = w.user /\ v.name = w.name
          /\ v.creates = w.creates /\ v.calls = w.calls
          /\ v.by = "oamcrt" /\ v.answer = answer /\ v.logged
          /\ v.path = IF GoesOn(call.fn, answer) THEN <<"oam">> ELSE <<>>
      BY <1>1, <1>4, <1>5, AnsweredIs DEF Services, Loggers
    <2>2. Asked(t)' = Asked(t)
      BY <1>2, <2>1 DEF Asked
    <2>3. QED BY <1>2, <2>1, <2>2, SameOperation
  <1>6. ASSUME NEW answer \in Answers, Answered(t, "oamcrt", answer),
               ~GoesOn(call.fn, answer) => answer = Refusal
        PROVE  CallsInv(t)' /\ PathInv(t)'
    <2>1. CallsInv(t)'
      BY <1>1, <1>5, <1>6 DEF ThreadInv, CallsInv, Working
    <2>2. PathInv(t)'
      BY <1>4, <1>5, <1>6 DEF PathInv
    <2>3. QED BY <2>1, <2>2
  <1>7. ASSUME NEW user \in Users \cup {Null}, StashIs(t, user)
        PROVE  StashInv(t)' /\ prepareToCopyUser'[t] = user
    <2>1. /\ prepareToCopy'[t] = (user # Null) /\ prepareToCopyUser'[t] = user
          /\ copies'[t] = copies[t] + (IF user # Null THEN 1 ELSE 0)
                                   - (IF prepareToCopyUser[t] # Null THEN 1 ELSE 0)
      BY <1>1, <1>7 DEF StashIs, TypeOK
    <2>2. copies[t] = IF prepareToCopyUser[t] = Null THEN 0 ELSE 1
      BY <1>1 DEF ThreadInv, StashInv
    <2>3. copies'[t] = IF user = Null THEN 0 ELSE 1
      BY <2>1, <2>2
    <2>4. QED BY <2>1, <2>3 DEF StashInv
  <1>8. <<"oam">> # <<>>
    OBVIOUS
  <1>9. CASE call.fn = "CheckAuth"
    <2> DEFINE answer == CheckAnswer(call, w.user)
               noted == IF OpensModel(call) THEN w.user ELSE Null
    <2>1. Answered(t, "oamcrt", answer) /\ StashIs(t, noted)
      BY <1>9 DEF AskOamCrt, OACheckAuth
    <2>2. noted \in Users \cup {Null}
      BY <1>2 DEF Work
    <2>3. /\ answer \in Answers
          /\ IF Refuses(call, w.user) 
             THEN answer = Refusal /\ ~GoesOn(call.fn, answer) ELSE GoesOn(call.fn, answer)
      BY <1>9, OamCrtAssumption DEF CheckAnswer, Refusal, GoOnWith, Answers, GoesOn, Specific
    <2> HIDE DEF answer
    <2>4. StashInv(t)' /\ CallsInv(t)' /\ PathInv(t)'
      BY <1>6, <1>7, <2>1, <2>2, <2>3
    <2>5. NoteInv(t)'
      <3> SUFFICES ASSUME Opens(v), (Left(v) = 4 /\ Passed(v)) 
                                    \/ (Left(v) = 3 /\ v.by \in {"none", "oamlog"})
                   PROVE  prepareToCopyUser'[t] = v.user
        BY DEF NoteInv
      <3>1. Opens(w) /\ Left(w) = 4
        BY <1>5, <2>1, <2>3
      <3>2. OpensModel(call)
        BY <1>2, <3>1, OpeningCalls DEF OpensModel, CheckAuth, Call
      <3>3. QED BY <1>5, <1>7, <2>1, <2>2, <2>3, <3>2
    <2>6. DecisionInv(t)'
      <3>1. CASE CreatesByCommand(w) /\ Passed(v)
        <4>1. ~Refuses(call, w.user)
          BY <1>5, <1>8, <2>1, <2>3, <3>1 DEF Passed
        <4>2. call = CheckAuth(w.name, "Q", "CREATE")
          BY <1>2, <3>1 DEF CreatesByCommand
        <4>3. w.name \notin NotAllowed
          BY <4>1, <4>2 DEF Refuses, permittedObject, CheckAuth, Call
        <4>4. QED BY <1>5, <2>1, <2>3, <4>3 DEF DecisionInv
      <3>2. CASE Opens(w) 
        <4>1. Left(w) \in {4, 5} /\ ~CreatesByCommand(w)
          BY <1>2, <1>9, <3>2, OpeningCalls
        <4>2. QED BY <1>5, <2>1, <2>3, <4>1 DEF DecisionInv
      <3>3. QED BY <1>5, <2>1, <2>3, <3>1, <3>2 DEF DecisionInv
    <2>7. QED BY <2>4, <2>5, <2>6 DEF ThreadInv
  <1>10. CASE call.fn = "CopyAllAuth"
    <2> DEFINE answer == CopyAnswer(t, call)
    <2>1. Answered(t, "oamcrt", answer) /\ StashIs(t, Null)
      BY <1>10 DEF AskOamCrt, OACopyAllAuth
    <2>2. /\ answer \in Answers
          /\ IF prepareToCopy[t] /\ ~permittedObject(call.name, prepareToCopyUser[t])
             THEN answer = Refusal /\ ~GoesOn(call.fn, answer) ELSE GoesOn(call.fn, answer)
      BY <1>10, OamCrtAssumption DEF CopyAnswer, Refusal, GoOnWith, Answers, GoesOn
    <2> HIDE DEF answer
    <2>3. StashInv(t)' /\ CallsInv(t)' /\ PathInv(t)'
      BY <1>6, <1>7, <2>1, <2>2
    <2>4. Opens(w) => Left(w) = 3 /\ call = OtherCall("CopyAllAuth", w.name)
      BY <1>2, <1>10, OpeningCalls
    <2>5. NoteInv(t)'
      BY <1>5, <2>1, <2>2, <2>4 DEF NoteInv
    <2>6. DecisionInv(t)'
      <3>1. ~CreatesByCommand(w)
        BY <1>2, <1>10 DEF CreatesByCommand, CheckAuth, Call
      <3>2. CASE Opens(w) /\ Passed(v)
        <4>1. prepareToCopyUser[t] = w.user /\ w.user \in Users
          BY <1>1, <1>2, <1>4, <2>4, <3>2 DEF ThreadInv, NoteInv, Work
        <4>2. prepareToCopy[t]
          BY <1>1, <4>1, OamCrtAssumption DEF ThreadInv, StashInv
        <4>3. permittedObject(call.name, prepareToCopyUser[t])
          BY <1>5, <1>8, <2>1, <2>2, <3>2, <4>2 DEF Passed
        <4>4. w.name \notin NotAllowed
          BY <2>4, <3>2, <4>3 DEF permittedObject, OtherCall, Call
        <4>5. QED BY <1>5, <2>1, <2>2, <4>4 DEF DecisionInv
      <3>3. QED BY <1>5, <2>1, <2>2, <2>4, <3>1, <3>2 DEF DecisionInv
    <2>7. QED BY <2>3, <2>5, <2>6 DEF ThreadInv
  <1>11. CASE call.fn = "RefreshCache"
    <2> DEFINE answer == RefreshAnswer
    <2>1. Answered(t, "oamcrt", answer) /\ UNCHANGED stash
      BY <1>11 DEF AskOamCrt
    <2>2. answer \in Answers /\ GoesOn(call.fn, answer)
      BY <1>11 DEF RefreshAnswer, GoOnWith, Answers, GoesOn
    <2> HIDE DEF answer
    <2>3. CallsInv(t)' /\ PathInv(t)'
      BY <1>6, <2>1, <2>2
    <2>4. StashInv(t)'
      BY <1>1, <2>1 DEF ThreadInv, StashInv, stash
    <2>5. ~Opens(w) /\ ~CreatesByCommand(w)
      <3>1. ~CreatesByCommand(w)
        BY <1>2, <1>11 DEF CreatesByCommand, CheckAuth, Call
      <3>2. ~Opens(w)
        BY <1>2, <1>11, OpeningCalls
      <3>3. QED BY <3>1, <3>2
    <2>6. NoteInv(t)' /\ DecisionInv(t)'
      BY <1>5, <2>1, <2>2, <2>5 DEF NoteInv, DecisionInv
    <2>7. QED BY <2>3, <2>4, <2>6 DEF ThreadInv
  <1>12. QED BY <1>3, <1>9, <1>10, <1>11

(* The call that the OAM is asked about has passed oamcrt, if that has the *)
(* function.                                                               *)
LEMMA OamStep ==
  ASSUME IInv, NEW t \in Threads, AskOam(t)
  PROVE  ThreadInv(t)'
  <1> DEFINE w == work[t]
             v == work'[t]
             fn == Asked(t).fn
  <1>1. TypeOK /\ ThreadInv(t) /\ Working(t) /\ w.path # <<>> /\ Head(w.path) = "oam"
    BY DEF IInv, AskOam, Asks, NextService
  <1>2. w \in Work /\ Asked(t) = Head(w.calls) /\ fn \in Functions
    BY <1>1, AtWork
  <1>3. fn # "Inquire" =>
          /\ w.path = <<"oam">> /\ w.logged
          /\ fn \in Registered => w.by = "oamcrt"
    BY <1>1, <1>2, Paths DEF ThreadInv, PathInv
  <1>4. Tail(<<"oam">>) = <<>>
    OBVIOUS
  <1>5. PICK answer \in {GoOnWith("OK", "NONE"), Refusal} : Answered(t, "oam", answer)
    BY DEF AskOam
  <1>6. answer \in Answers
    BY DEF GoOnWith, Refusal, Answers
  <1>7. /\ v \in Work /\ v.user = w.user /\ v.name = w.name /\ v.creates = w.creates
        /\ v.calls = w.calls /\ v.by = "oam"
        /\ w.logged => v.logged
        /\ w.path = <<"oam">> => v.path = <<>>
    BY <1>1, <1>4, <1>5, <1>6, AnsweredIs DEF AskOam, Services
  <1>8. Asked(t)' = Asked(t)
    BY <1>2, <1>7 DEF Asked
  <1>9. /\ Opens(v) <=> Opens(w) 
        /\ CreatesByCommand(v) <=> CreatesByCommand(w)
        /\ CreatesNothing(v) <=> CreatesNothing(w)
        /\ Left(v) = Left(w)
    BY <1>2, <1>7, SameOperation
  (* What could be decided has been.                                       *)
  <1>10. fn \in {"CheckAuth", "CopyAllAuth"} => Passed(w)
    BY <1>3 DEF Passed, Registered
  <1>11. CreatesByCommand(w) => fn = "CheckAuth"
    BY <1>2 DEF CreatesByCommand, CheckAuth, Call
  <1>12. Opens(w) /\ Left(w) \in {3, 4} => fn \in {"CheckAuth", "CopyAllAuth"}
    BY <1>2, OpeningCalls
  <1>13. UNCHANGED stash
    BY DEF AskOam
  <1> HIDE DEF w, v
  <1>14. StashInv(t)'
    BY <1>1, <1>13 DEF ThreadInv, StashInv, stash
  <1>15. CallsInv(t)'
    BY <1>1, <1>9 DEF ThreadInv, CallsInv, w, v, Working
  <1>16. PathInv(t)'
    BY <1>3, <1>7, <1>8 DEF PathInv, w, v
  <1>17. NoteInv(t)'
    BY <1>1, <1>7, <1>9, <1>10, <1>12, <1>13 DEF ThreadInv, NoteInv, w, v, stash
  <1>18. DecisionInv(t)'
    BY <1>1, <1>7, <1>9, <1>10, <1>11, <1>12 DEF ThreadInv, DecisionInv, w, v
  <1>19. QED 
    BY <1>14, <1>15, <1>16, <1>17, <1>18 DEF ThreadInv

(* What is granted has been granted by the OAM.                            *)
LEMMA GrantedByOam ==
  ASSUME IInv, NEW t \in Threads, Working(t), work[t].path = <<>>, Asked(t).fn # "Inquire"
  PROVE  work[t].logged /\ (work[t].by = "oam" \/ (work[t].by = "oamcrt" /\ work[t].answer = Refusal))
  <1>1. Asked(t).fn \in Functions /\ ThreadInv(t)
    BY AtWork DEF IInv
  <1>2. <<"oam">> # <<>>
    OBVIOUS
  <1>3. QED BY <1>1, <1>2, Paths DEF ThreadInv, PathInv

LEMMA ConcludeStep ==
  ASSUME IInv, NEW t \in Threads, Conclude(t) \/ Abandon(t)
  PROVE  /\ ThreadInv(t)'
         /\ work' \in [Threads -> Work \cup {NoWork}]
         /\ created' \subseteq Users \X Names /\ NotAllowedNeverCreated'
  <1> DEFINE w == work[t]
             v == work'[t]
  <1>1. TypeOK /\ ThreadInv(t) /\ Working(t) /\ w.path = <<>>
    BY DEF IInv, Conclude, Abandon
  <1>2. w \in Work /\ Asked(t) = Head(w.calls) /\ Asked(t) \in Calls
    BY <1>1, AtWork
  <1>3. UNCHANGED stash
    BY DEF Conclude, Abandon
  <1>4. Granted(t) /\ Asked(t).fn # "Inquire" => Passed(w)
    BY <1>1, GrantedByOam DEF Granted, Refusal, Passed
  (* The operation has ended.                                              *)
  <1>5. ASSUME work' = [work EXCEPT ![t] = NoWork]
        PROVE  ThreadInv(t)' /\ work' \in [Threads -> Work \cup {NoWork}]
    <2>1. work'[t] = NoWork /\ work' \in [Threads -> Work \cup {NoWork}]
      BY <1>1, <1>5 DEF TypeOK
    <2>2. StashInv(t)'
      BY <1>1, <1>3 DEF ThreadInv, StashInv, stash
    <2>3. ~Working(t)'
      BY <2>1 DEF Working
    <2>4. QED 
      BY <2>1, <2>2, <2>3 DEF ThreadInv, CallsInv, PathInv, NoteInv, DecisionInv
  <1>6. NotAllowedNeverCreated /\ created \subseteq Users \X Names
    BY <1>1 DEF IInv, TypeOK
  <1>7. CASE work' = [work EXCEPT ![t] = NoWork] /\ created' = created
    BY <1>5, <1>6, <1>7 DEF NotAllowedNeverCreated
  <1>8. CASE Granted(t) /\ Len(w.calls) = 1 /\ w.creates 
             /\ work' = [work EXCEPT ![t] = NoWork] 
             /\ created' = created \cup {<<w.user, w.name>>}
    <2>1. w.user \in Users /\ w.name \in Names
      BY <1>2 DEF Work
    <2>2. w.name \notin NotAllowed
      <3>1. CASE Opens(w)
        BY <1>1, <1>8, <3>1 DEF ThreadInv, DecisionInv, Left
      <3>2. CASE CreatesByCommand(w)
        <4>1. Asked(t).fn # "Inquire"
          BY <1>2, <3>2 DEF CreatesByCommand, CheckAuth, Call
        <4>2. QED BY <1>1, <1>4, <1>8, <3>2, <4>1 DEF ThreadInv, DecisionInv
      <3>3. QED BY <1>1, <1>8, <3>1, <3>2 DEF ThreadInv, CallsInv, CreatesNothing
    <2>3. NotAllowedNeverCreated'
      <3> SUFFICES ASSUME NEW c \in created' PROVE c[2] \notin NotAllowed
        BY DEF NotAllowedNeverCreated
      <3>1. CASE c \in created
        BY <1>6, <3>1 DEF NotAllowedNeverCreated
      <3>2. CASE c = <<w.user, w.name>>
        BY <2>2, <3>2
      <3>3. QED BY <1>8, <3>1, <3>2
    <2>4. QED BY <1>5, <1>6, <1>8, <2>1, <2>3
  (* It goes on with the next call.                                        *)
  <1>9. CASE Granted(t) /\ Len(w.calls) > 1 /\ created' = created
             /\ work' = [work EXCEPT ![t] = At(Tail(w.calls), w)]
    <2> DEFINE calls == Tail(w.calls)
    <2>1. Opens(w)
      <3>1. Left(w) > 1
        BY <1>9 DEF Left
      <3>2. QED BY <1>1, <1>2, <3>1, SingleCalls DEF ThreadInv, CallsInv
    <2>2. w.calls \in Seq(Calls) /\ w.name \in Names
      BY <1>2 DEF Work
    <2>3. calls \in Seq(Calls) /\ Len(calls) = Len(w.calls) - 1
          /\ \A i \in 1..Len(calls) : calls[i] = w.calls[i + 1]
      BY <1>9, <2>2
    <2>4. v = At(calls, w) /\ work' = [work EXCEPT ![t] = v]
      BY <1>1, <1>9 DEF TypeOK
    <2>5. /\ v \in Work /\ v.user = w.user /\ v.name = w.name /\ v.creates = w.creates
          /\ v.calls = calls /\ v.path = Path(Head(calls).fn) /\ v.by = "none"
      <3>1. Len(calls) >= 1
        BY <1>9, <2>2, <2>3
      <3> HIDE DEF w, v, calls
      <3>2. QED BY <1>2, <2>3, <2>4, <3>1, TakesUp
    <2> HIDE DEF calls
    <2>6. Left(v) = Left(w) - 1 /\ Left(w) \in 2..5
      BY <1>2, <1>9, <2>1, <2>3, <2>5, OpeningCalls DEF Left
    <2>7. Opens(v)
      <3> SUFFICES ASSUME NEW i \in 1..Left(v)
                   PROVE  v.calls[i] = OpeningModel(v.name)[5 - Left(v) + i]
        BY <2>1, <2>5, <2>6 DEF Opens
      <3>1. i + 1 \in 1..Left(w) /\ v.calls[i] = w.calls[i + 1]
        BY <2>3, <2>5, <2>6 DEF Left
      <3>2. w.calls[i + 1] = OpeningModel(w.name)[5 - Left(w) + (i + 1)]
        BY <2>1, <3>1 DEF Opens
      <3>3. 5 - Left(w) + (i + 1) = 5 - Left(v) + i
        BY <2>6
      <3>4. QED BY <2>5, <3>1, <3>2, <3>3
    <2>8. work' \in [Threads -> Work \cup {NoWork}]
      BY <1>1, <2>4, <2>5 DEF TypeOK
    <2>9. Passed(w) /\ ~Passed(v)
      BY <1>2, <1>4, <1>9, <2>1, <2>5, OpeningCalls DEF Passed
    <2>10. StashInv(t)'
      BY <1>1, <1>3 DEF ThreadInv, StashInv, stash
    <2>11. CallsInv(t)'
      BY <2>7 DEF CallsInv
    <2>12. PathInv(t)'
      BY <2>5 DEF PathInv, Asked
    <2>13. NoteInv(t)'
      BY <1>1, <1>3, <2>1, <2>5, <2>6, <2>9 DEF ThreadInv, NoteInv, stash
    <2>14. DecisionInv(t)'
      BY <1>1, <2>1, <2>5, <2>6, <2>9 DEF ThreadInv, DecisionInv
    <2>15. ThreadInv(t)'
      BY <2>10, <2>11, <2>12, <2>13, <2>14 DEF ThreadInv
    <2>16. QED BY <1>6, <1>9, <2>8, <2>15 DEF NotAllowedNeverCreated
  <1>10. QED
    BY <1>7, <1>8, <1>9 DEF Conclude, Abandon

LEMMA BeginStep ==
  ASSUME IInv, NEW t \in Threads, Begin(t)
  PROVE  ThreadInv(t)' /\ work' \in [Threads -> Work \cup {NoWork}]
  <1> DEFINE v == work'[t]
  <1>1. TypeOK /\ ThreadInv(t) /\ UNCHANGED stash
    BY DEF IInv, Begin
  <1>2. PICK user \in Users, name \in Names : \E calls \in Operations(name) :
          work' = [work EXCEPT ![t] = 
            At(calls, [user |-> user, name |-> name, creates |-> Creates(calls),
                       calls |-> calls, path |-> <<>>, logged |-> FALSE, 
                       by |-> "none", answer |-> Refusal])]
    BY DEF Begin
  <1>3. PICK calls \in Operations(name) :
          work' = [work EXCEPT ![t] = 
            At(calls, [user |-> user, name |-> name, creates |-> Creates(calls),
                       calls |-> calls, path |-> <<>>, logged |-> FALSE, 
                       by |-> "none", answer |-> Refusal])]
    BY <1>2
  <1> DEFINE w == [user |-> user, name |-> name, creates |-> Creates(calls),
                   calls |-> calls, path |-> <<>>, logged |-> FALSE, 
                   by |-> "none", answer |-> Refusal]
  <1>4. /\ calls \in Seq(Calls) /\ Len(calls) >= 1
        /\ \/ calls = OpeningModel(name) /\ Creates(calls)
           \/ calls = <<CheckAuth(name, "Q", "CREATE")>> /\ Creates(calls)
           \/ (\E call \in Calls : call.fn # "CopyAllAuth" /\ calls = <<call>>) /\ ~Creates(calls)
    BY OperationKinds
  <1>5. w \in Work /\ w.name = name /\ w.creates = Creates(calls)
    <2>1. Refusal \in Answers
      BY DEF Refusal, Answers
    <2>2. Creates(calls) \in BOOLEAN
      BY DEF Creates
    <2>3. <<>> \in Seq(Services)
      OBVIOUS
    <2> HIDE DEF Creates
    <2>4. QED BY <1>4, <2>1, <2>2, <2>3 DEF Work
  <1> HIDE DEF w
  <1>6. v = At(calls, w) /\ work' = [work EXCEPT ![t] = v]
    BY <1>1, <1>3 DEF TypeOK, w
  <1>7. /\ v \in Work /\ v.name = name /\ v.creates = Creates(calls)
        /\ v.calls = calls /\ v.path = Path(Head(calls).fn) /\ v.by = "none"
    BY <1>4, <1>5, <1>6, TakesUp
  <1>8. work' \in [Threads -> Work \cup {NoWork}]
    BY <1>1, <1>6, <1>7 DEF TypeOK
  <1>9. StashInv(t)'
    BY <1>1 DEF ThreadInv, StashInv, stash
  <1>10. Opens(v) => Left(v) = 5
    <2> SUFFICES ASSUME Opens(v) PROVE Left(v) = 5
      OBVIOUS
    <2>1. Creates(calls) /\ ~CreatesByCommand(v)
      BY <1>7, OpeningCalls DEF Opens
    <2>2. calls = OpeningModel(name)
      BY <1>4, <1>7, <2>1 DEF CreatesByCommand
    <2>3. QED BY <1>7, <2>2, CallsAreCalls DEF Left
  <1>11. CallsInv(t)'
    <2>1. CASE calls = OpeningModel(name) /\ Creates(calls)
      <3>1. Left(v) = 5
        BY <1>7, <2>1, CallsAreCalls DEF Left
      <3>2. \A i \in 1..5 : 5 - 5 + i = i
        OBVIOUS
      <3>3. Opens(v)
        BY <1>7, <2>1, <3>1, <3>2 DEF Opens
      <3>4. QED BY <3>3 DEF CallsInv
    <2>2. CASE calls = <<CheckAuth(name, "Q", "CREATE")>> /\ Creates(calls)
      BY <1>7, <2>2 DEF CallsInv, CreatesByCommand
    <2>3. CASE (\E call \in Calls : call.fn # "CopyAllAuth" /\ calls = <<call>>) /\ ~Creates(calls)
      BY <1>7, <2>3 DEF CallsInv, CreatesNothing
    <2>4. QED BY <1>4, <2>1, <2>2, <2>3
  <1>12. PathInv(t)'
    BY <1>7 DEF PathInv, Asked
  <1>13. NoteInv(t)' /\ DecisionInv(t)'
    BY <1>7, <1>10 DEF NoteInv, DecisionInv, Passed
  <1>14. QED 
    BY <1>8, <1>9, <1>11, <1>12, <1>13 DEF ThreadInv

(* The step of a thread leaves the others, and the services, as they are.  *)
ThreadStep(t) ==
  Begin(t) \/ AskOamLog(t) \/ AskOamCrt(t) \/ AskOam(t) \/ Conclude(t) \/ Abandon(t)

LEMMA OthersUntouched ==
  ASSUME TypeOK, NEW t \in Threads, ThreadStep(t), NEW u \in Threads \ {t}
  PROVE  /\ work'[u] = work[u] /\ prepareToCopy'[u] = prepareToCopy[u] 
         /\ prepareToCopyUser'[u] = prepareToCopyUser[u] /\ copies'[u] = copies[u]
  <1>1. CASE AskOamCrt(t)
    <2>1. work'[u] = work[u]
      BY <1>1 DEF AskOamCrt, Answered, TypeOK
    <2>2. UNCHANGED stash \/ \E user \in Users \cup {Null} : StashIs(t, user)
      <3>1. work[t].user \in Users
        BY <1>1 DEF TypeOK, AskOamCrt, Asks, Working, Work
      <3>2. QED BY <1>1, <3>1 DEF AskOamCrt, OACheckAuth, OACopyAllAuth
    <2>3. QED BY <2>1, <2>2 DEF StashIs, stash, TypeOK
  <1>2. CASE Begin(t)
    BY <1>2 DEF Begin, stash, TypeOK
  <1>3. CASE AskOamLog(t)
    BY <1>3 DEF AskOamLog, Answered, stash, TypeOK
  <1>4. CASE AskOam(t)
    BY <1>4 DEF AskOam, Answered, stash, TypeOK
  <1>5. CASE Conclude(t)
    BY <1>5 DEF Conclude, stash, TypeOK
  <1>6. CASE Abandon(t)
    BY <1>6 DEF Abandon, stash, TypeOK
  <1>7. QED BY <1>1, <1>2, <1>3, <1>4, <1>5, <1>6 DEF ThreadStep

LEMMA ThreadStepType ==
  ASSUME IInv, NEW t \in Threads, ThreadStep(t)
  PROVE  TypeOK' /\ NotAllowedNeverCreated'
  <1>1. TypeOK /\ NotAllowedNeverCreated
    BY DEF IInv
  <1>2. UNCHANGED process
    BY DEF ThreadStep, Begin, AskOamLog, AskOamCrt, AskOam, Conclude, Abandon
  <1>3. /\ created' \subseteq Users \X Names /\ NotAllowedNeverCreated'
    <2>1. CASE created' = created
      BY <1>1, <2>1 DEF TypeOK, NotAllowedNeverCreated
    <2>2. CASE Conclude(t) \/ Abandon(t)
      BY <2>2, ConcludeStep
    <2>3. QED BY <2>1, <2>2 DEF ThreadStep, Begin, AskOamLog, AskOamCrt, AskOam
  <1>4. work' \in [Threads -> Work \cup {NoWork}]
    <2>1. ASSUME NEW s \in Services, NEW answer \in Answers, 
                 Asks(t, s), Answered(t, s, answer)
          PROVE  work' \in [Threads -> Work \cup {NoWork}]
      BY <1>1, <2>1, AnsweredIs
    <2>2. CASE AskOamLog(t)
      <3>1. LogAnswer(Asked(t).fn) \in Answers
        BY DEF LogAnswer, LogRequest, LogCheckAuth, LogForAll, GoOnWith, Answers
      <3>2. QED BY <2>1, <2>2, <3>1 DEF AskOamLog, Services, Loggers
    <2>3. CASE AskOamCrt(t)
      <3>1. /\ CheckAnswer(Asked(t), work[t].user) \in Answers
            /\ CopyAnswer(t, Asked(t)) \in Answers /\ RefreshAnswer \in Answers
        BY DEF CheckAnswer, CopyAnswer, RefreshAnswer, Refusal, GoOnWith, Answers
      <3>2. QED BY <2>1, <2>3, <3>1 DEF AskOamCrt, Services, Loggers
    <2>4. CASE AskOam(t)
      <3>1. GoOnWith("OK", "NONE") \in Answers /\ Refusal \in Answers
        BY DEF GoOnWith, Refusal, Answers
      <3>2. QED BY <2>1, <2>4, <3>1 DEF AskOam, Services
    <2>5. QED BY <2>2, <2>3, <2>4, BeginStep, ConcludeStep DEF ThreadStep
  <1>5. /\ prepareToCopy' \in [Threads -> BOOLEAN]
        /\ prepareToCopyUser' \in [Threads -> Users \cup {Null}]
        /\ copies' \in [Threads -> Nat]
    <2>1. CASE UNCHANGED stash
      BY <1>1, <2>1 DEF stash, TypeOK
    <2>2. CASE AskOamCrt(t)
      <3>1. work[t].user \in Users
        BY <1>1, <2>2 DEF TypeOK, AskOamCrt, Asks, Working, Work
      <3>2. PICK user \in Users \cup {Null} : UNCHANGED stash \/ StashIs(t, user)
        BY <2>2, <3>1 DEF AskOamCrt, OACheckAuth, OACopyAllAuth
      <3>3. CASE StashIs(t, user)
        <4>1. copies'[t] \in {0, 1}
          BY <2>2, OamCrtStep DEF ThreadInv, StashInv
        <4>2. \A u \in Threads \ {t} : copies'[u] = copies[u]
          BY <1>1, <3>3 DEF StashIs, TypeOK
        <4>3. copies' \in [Threads -> Nat]
          BY <1>1, <3>3, <4>1 DEF StashIs, TypeOK
        <4>4. QED BY <1>1, <3>3, <4>3 DEF StashIs, TypeOK
      <3>4. QED BY <2>1, <3>2, <3>3
    <2>3. QED BY <2>1, <2>2 DEF ThreadStep, Begin, AskOamLog, AskOam, Conclude, Abandon
  <1>6. QED BY <1>1, <1>2, <1>3, <1>4, <1>5 DEF TypeOK, process

(* Services start and end around the work of the threads.                  *)
LEMMA ServiceStep ==
  ASSUME IInv, NEW s \in Loggers, NEW isPrimary \in BOOLEAN,
         MQStart(s, isPrimary) \/ OATerm(s, isPrimary)
  PROVE  IInv'
  <1>1. TypeOK /\ ServiceInv /\ NotAllowedNeverCreated /\ \A t \in Threads : ThreadInv(t)
    BY DEF IInv
  <1>2. UNCHANGED <<kind, work, created, stash>>
    BY DEF MQStart, OATerm
  <1>3. NotAllowedNeverCreated' /\ \A t \in Threads : ThreadInv(t)'
    BY <1>1, <1>2, Untouched DEF NotAllowedNeverCreated, stash
  <1>4. CASE MQStart(s, isPrimary)
    <2>1. TypeOK'
      BY <1>1, <1>2, <1>4 DEF TypeOK, MQStart, Stages, stash
    <2>2. ServiceInv'
      BY <1>1, <1>2, <1>4 DEF TypeOK, ServiceInv, Serving, Working, MQStart, Stages, Loggers
    <2>3. QED BY <1>3, <2>1, <2>2 DEF IInv
  <1>5. CASE OATerm(s, isPrimary)
    <2>1. TypeOK'
      BY <1>1, <1>2, <1>5 DEF TypeOK, OATerm, CloseLog, Stages, stash
    <2>2. ServiceInv'
      BY <1>1, <1>2, <1>5 DEF TypeOK, ServiceInv, Serving, AllIdle, Working, OATerm, 
         CloseLog, Stages, Loggers
    <2>3. QED BY <1>3, <2>1, <2>2 DEF IInv
  <1>6. QED BY <1>4, <1>5

LEMMA Inductive == IInv /\ [Next]_vars => IInv'
  <1> SUFFICES ASSUME IInv, [Next]_vars PROVE IInv'
    OBVIOUS
  <1>1. ASSUME NEW t \in Threads, ThreadStep(t) PROVE IInv'
    <2>1. TypeOK' /\ NotAllowedNeverCreated'
      BY <1>1, ThreadStepType
    <2>2. ThreadInv(t)'
      BY <1>1, BeginStep, OamLogStep, OamCrtStep, OamStep, ConcludeStep DEF ThreadStep
    <2>3. ASSUME NEW u \in Threads \ {t} PROVE ThreadInv(u)'
      BY <1>1, <2>3, OthersUntouched, Untouched DEF IInv
    <2>4. ServiceInv'
      <3>1. UNCHANGED process
        BY <1>1 DEF ThreadStep, Begin, AskOamLog, AskOamCrt, AskOam, Conclude, Abandon
      <3>2. Serving
        <4>1. Begin(t) => Serving
          BY DEF Begin
        <4>2. ~Begin(t) => Working(t)
          BY <1>1 DEF ThreadStep, AskOamLog, AskOamCrt, AskOam, Asks, Conclude, Abandon
        <4>3. QED BY <4>1, <4>2 DEF IInv, ServiceInv
      <3>3. QED BY <3>1, <3>2 DEF IInv, ServiceInv, Serving, process
    <2>5. QED BY <2>1, <2>2, <2>3, <2>4 DEF IInv
  <1>2. CASE UNCHANGED vars
    <2>1. UNCHANGED <<process, work, created, stash>>
      BY <1>2 DEF vars, process
    <2>2. \A t \in Threads : ThreadInv(t)'
      BY <2>1, Untouched DEF IInv, stash
    <2>3. TypeOK' /\ ServiceInv' /\ NotAllowedNeverCreated'
      BY <2>1 DEF IInv, TypeOK, ServiceInv, Serving, Working, NotAllowedNeverCreated, 
         process, stash
    <2>4. QED BY <2>2, <2>3 DEF IInv
  <1>3. QED
    BY <1>1, <1>2, ServiceStep DEF Next, ThreadStep

LEMMA Initial == Init => IInv
  <1> SUFFICES ASSUME Init PROVE IInv
    OBVIOUS
  <1>1. TypeOK
    BY DEF Init, StashInit, TypeOK, Stages
  <1>2. ServiceInv /\ NotAllowedNeverCreated
    BY DEF Init, ServiceInv, Working, NotAllowedNeverCreated, Loggers
  <1>3. ASSUME NEW t \in Threads PROVE ThreadInv(t)
    BY DEF Init, StashInit, ThreadInv, StashInv, CallsInv, PathInv, NoteInv, DecisionInv, Working
  <1>4. QED BY <1>1, <1>2, <1>3 DEF IInv

-----------------------------------------------------------------------------
(* For any threads, users and names the invariant holds: where every call  *)
(* is, what oamcrt has noted, and what has passed its decision.            *)
THEOREM Invariance == Spec => []IInv
  BY Initial, Inductive, PTL DEF Spec

(* No queue of a name that is not permitted is ever created, be it by a    *)
(* command or by opening a model queue.                                    *)
THEOREM NeverCreated == Spec => []NotAllowedNeverCreated
  <1>1. IInv => NotAllowedNeverCreated
    BY DEF IInv
  <1>2. QED BY <1>1, Invariance, PTL

(* OACopyAllAuth decides for the user who opens the model queue.           *)
THEOREM NoteOfThisOpen == Spec => []NoteIsOfThisOpen
  <1>1. IInv => NoteIsOfThisOpen
    <2> SUFFICES ASSUME IInv, NEW t \in Threads, 
                        Asks(t, "oamcrt"), Asked(t).fn = "CopyAllAuth"
                 PROVE  prepareToCopy[t] /\ prepareToCopyUser[t] = work[t].user
      BY DEF NoteIsOfThisOpen
    <2>1. Working(t) /\ ThreadInv(t) /\ work[t] \in Work /\ Asked(t) = Head(work[t].calls)
      BY AtWork DEF IInv, Asks
    <2>2. work[t].by = "oamlog"
      BY BeforeOamCrt
    <2>3. Opens(work[t])
      <3>1. ~CreatesByCommand(work[t])
        BY <2>1 DEF CreatesByCommand, CheckAuth, Call
      <3>2. ~CreatesNothing(work[t])
        <4>1. ASSUME NEW call \in Calls, call.fn # "CopyAllAuth", work[t].calls = <<call>>
              PROVE  FALSE
          BY <2>1, <4>1
        <4>2. QED BY <4>1 DEF CreatesNothing
      <3>3. QED BY <2>1, <3>1, <3>2 DEF ThreadInv, CallsInv
    <2>4. prepareToCopyUser[t] = work[t].user
      BY <2>1, <2>2, <2>3, OpeningCalls DEF ThreadInv, NoteInv
    <2>5. prepareToCopyUser[t] # Null
      BY <2>1, <2>4, OamCrtAssumption DEF Work
    <2>6. QED BY <2>1, <2>4, <2>5 DEF ThreadInv, StashInv
  <1>2. QED BY <1>1, Invariance, PTL

(* However long the threads go on, the notes do not pile up on the heap.   *)
THEOREM NoLostCopies == Spec => []CopiesAreNotes
  <1>1. IInv => CopiesAreNotes
    BY DEF IInv, ThreadInv, StashInv, CopiesAreNotes
  <1>2. QED BY <1>1, Invariance, PTL

(* What is granted is granted by the OAM.                                  *)
THEOREM GrantsAreOams == Spec => []OnlyOamGrants
  <1>1. IInv => OnlyOamGrants
    BY GrantedByOam DEF OnlyOamGrants
  <1>2. QED BY <1>1, Invariance, PTL

(* What any service has answered is in oamlog's log.                       *)
THEOREM AllLogged == Spec => []LoggedFirst
  <1>1. IInv => LoggedFirst
    BY DEF IInv, ThreadInv, PathInv, LoggedFirst
  <1>2. QED BY <1>1, Invariance, PTL
=============================================================================
