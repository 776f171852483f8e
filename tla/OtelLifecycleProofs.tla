------------------------- MODULE OtelLifecycleProofs -------------------------
(***************************************************************************)
(* Proofs about OtelLifecycle, for any finite set of connections: type     *)
(* correctness and the inductive invariant, what a zero count means, that  *)
(* a hook keeps its code, and that the library and the log file are shared *)
(* as SharedResource promises.                                             *)
(***************************************************************************)
EXTENDS OtelLifecycle, FiniteSetTheorems, TLAPS

USE DEF Section1, Section2, TearDown, Holding, Hooked, Uncounted, InExit, Places

(* The counted connections are finitely many, and none means a count of 0. *)
LEMMA CountedIsFinite ==
  /\ IsFiniteSet(Counted)
  /\ Cardinality(Counted) \in Nat
  /\ Cardinality(Counted) = 0 <=> Counted = {}
  <1>1. IsFiniteSet(Counted)
    <2>1. Counted \subseteq Conns
      BY DEF Counted
    <2>2. QED
      BY <2>1, ConnsAssumption, FS_Subset
  <1>2. QED
    BY <1>1, FS_CardinalityType, FS_EmptySet

(* A step that does not cross the line between counted and uncounted       *)
(* leaves the set of counted connections alone.                            *)
LEMMA CountedStays ==
  ASSUME TypeOK, NEW c \in Conns, NEW p \in Places,
         pc' = [pc EXCEPT ![c] = p],
         pc[c] \in Uncounted <=> p \in Uncounted
  PROVE  Counted' = Counted
  BY DEF Counted, TypeOK

(* initCount++ and initCount-- move one connection into and out of it.     *)
LEMMA CountedGrows ==
  ASSUME TypeOK, NEW c \in Conns, NEW p \in Places,
         pc' = [pc EXCEPT ![c] = p],
         pc[c] \in Uncounted, p \notin Uncounted
  PROVE  /\ c \notin Counted
         /\ Counted' = Counted \cup {c}
         /\ Cardinality(Counted') = Cardinality(Counted) + 1
  <1>1. c \notin Counted /\ Counted' = Counted \cup {c}
    BY DEF Counted, TypeOK
  <1>2. Cardinality(Counted \cup {c}) = Cardinality(Counted) + 1
    BY <1>1, CountedIsFinite, FS_AddElement
  <1>3. QED
    BY <1>1, <1>2

LEMMA CountedShrinks ==
  ASSUME TypeOK, NEW c \in Conns, NEW p \in Places,
         pc' = [pc EXCEPT ![c] = p],
         pc[c] \notin Uncounted, p \in Uncounted
  PROVE  /\ c \in Counted
         /\ Counted' = Counted \ {c}
         /\ Cardinality(Counted') = Cardinality(Counted) - 1
  <1>1. c \in Counted /\ Counted' = Counted \ {c}
    BY DEF Counted, TypeOK
  <1>2. Cardinality(Counted \ {c}) = Cardinality(Counted) - 1
    BY <1>1, CountedIsFinite, FS_RemoveElement
  <1>3. QED
    BY <1>1, <1>2

-----------------------------------------------------------------------------
(* TypeOK is preserved: the count goes down only for a counted connection. *)
LEMMA TypeStep == IInv /\ [Next]_vars => TypeOK'
  <1> SUFFICES ASSUME IInv, [Next]_vars PROVE TypeOK'
    OBVIOUS
  <1> USE DEF IInv, TypeOK, Environments
  <1>1. ASSUME NEW c \in Conns, Connect(c) PROVE TypeOK'
    BY <1>1 DEF Connect, Goto
  <1>2. ASSUME NEW c \in Conns, EnterFirst(c) PROVE TypeOK'
    BY <1>2 DEF EnterFirst, Goto, lock
  <1>3. ASSUME NEW c \in Conns, CountUp(c) PROVE TypeOK'
    BY <1>3 DEF CountUp, Goto
  <1>4. ASSUME NEW c \in Conns, OpenLog(c) PROVE TypeOK'
    BY <1>4 DEF OpenLog, Goto, unlock
  <1>5. ASSUME NEW c \in Conns, Decide(c) PROVE TypeOK'
    BY <1>5 DEF Decide, Goto
  <1>6. ASSUME NEW c \in Conns, EnterSecond(c) PROVE TypeOK'
    BY <1>6 DEF EnterSecond, Goto, lock
  <1>7. ASSUME NEW c \in Conns, LoadLibrary(c) PROVE TypeOK'
    BY <1>7 DEF LoadLibrary, Goto
  <1>8. ASSUME NEW c \in Conns, ResolveSymbols(c) PROVE TypeOK'
    BY <1>8 DEF ResolveSymbols, Goto
  <1>9. ASSUME NEW c \in Conns, InitLibrary(c) PROVE TypeOK'
    BY <1>9 DEF InitLibrary, Goto, mqotInit
  <1>10. ASSUME NEW c \in Conns, RegisterHooks(c) PROVE TypeOK'
    BY <1>10 DEF RegisterHooks, Goto, unlock
  <1>11. ASSUME NEW c \in Conns, CallHook(c) PROVE TypeOK'
    BY <1>11 DEF CallHook, Goto
  <1>12. ASSUME NEW c \in Conns, HookReturns(c) PROVE TypeOK'
    BY <1>12 DEF HookReturns, Goto
  <1>13. ASSUME NEW c \in Conns, DisconnectPlain(c) PROVE TypeOK'
    BY <1>13 DEF DisconnectPlain, Goto
  <1>14. ASSUME NEW c \in Conns, Terminate(c) PROVE TypeOK'
    BY <1>14 DEF Terminate, Goto
  <1>15. ASSUME NEW c \in Conns, EnterTerminate(c) PROVE TypeOK'
    BY <1>15 DEF EnterTerminate, Goto, lock
  <1>16. ASSUME NEW c \in Conns, CountDown(c) PROVE TypeOK'
    <2>1. c \in Counted /\ initCount >= 1
      <3>1. c \in Counted
        BY <1>16 DEF CountDown, Goto, Counted
      <3>2. QED
        BY <3>1, CountedIsFinite DEF CountInv
    <2>2. QED
      BY <1>16, <2>1 DEF CountDown, Goto, unlock
  <1>17. ASSUME NEW c \in Conns, TermLibrary(c) PROVE TypeOK'
    BY <1>17 DEF TermLibrary, Goto
  <1>18. ASSUME NEW c \in Conns, CloseLog(c) PROVE TypeOK'
    BY <1>18 DEF CloseLog, Goto
  <1>19. ASSUME NEW c \in Conns, UnloadLibrary(c) PROVE TypeOK'
    BY <1>19 DEF UnloadLibrary, Goto, unlock
  <1>20. CASE UNCHANGED vars
    BY <1>20 DEF vars
  <1>21. QED
    BY <1>1, <1>2, <1>3, <1>4, <1>5, <1>6, <1>7, <1>8, <1>9, <1>10,
       <1>11, <1>12, <1>13, <1>14, <1>15, <1>16, <1>17, <1>18, <1>19, <1>20
    DEF Next, ExitStep, AppStep

(* Only the three entries take the mutex, when it is free, and only its    *)
(* holder gives it back.                                                   *)
LEMMA MutexStep == IInv /\ [Next]_vars => MutexInv'
  <1> SUFFICES ASSUME IInv, [Next]_vars PROVE MutexInv'
    OBVIOUS
  <1> USE DEF IInv, TypeOK, MutexInv
  <1>1. ASSUME NEW c \in Conns, Connect(c) PROVE MutexInv'
    BY <1>1, ConnsAssumption DEF Connect, Goto
  <1>2. ASSUME NEW c \in Conns, EnterFirst(c) PROVE MutexInv'
    BY <1>2, ConnsAssumption DEF EnterFirst, Goto, lock
  <1>3. ASSUME NEW c \in Conns, CountUp(c) PROVE MutexInv'
    BY <1>3, ConnsAssumption DEF CountUp, Goto
  <1>4. ASSUME NEW c \in Conns, OpenLog(c) PROVE MutexInv'
    BY <1>4, ConnsAssumption DEF OpenLog, Goto, unlock
  <1>5. ASSUME NEW c \in Conns, Decide(c) PROVE MutexInv'
    BY <1>5, ConnsAssumption DEF Decide, Goto
  <1>6. ASSUME NEW c \in Conns, EnterSecond(c) PROVE MutexInv'
    BY <1>6, ConnsAssumption DEF EnterSecond, Goto, lock
  <1>7. ASSUME NEW c \in Conns, LoadLibrary(c) PROVE MutexInv'
    BY <1>7, ConnsAssumption DEF LoadLibrary, Goto
  <1>8. ASSUME NEW c \in Conns, ResolveSymbols(c) PROVE MutexInv'
    BY <1>8, ConnsAssumption DEF ResolveSymbols, Goto
  <1>9. ASSUME NEW c \in Conns, InitLibrary(c) PROVE MutexInv'
    BY <1>9, ConnsAssumption DEF InitLibrary, Goto, mqotInit
  <1>10. ASSUME NEW c \in Conns, RegisterHooks(c) PROVE MutexInv'
    BY <1>10, ConnsAssumption DEF RegisterHooks, Goto, unlock
  <1>11. ASSUME NEW c \in Conns, CallHook(c) PROVE MutexInv'
    BY <1>11, ConnsAssumption DEF CallHook, Goto
  <1>12. ASSUME NEW c \in Conns, HookReturns(c) PROVE MutexInv'
    BY <1>12, ConnsAssumption DEF HookReturns, Goto
  <1>13. ASSUME NEW c \in Conns, DisconnectPlain(c) PROVE MutexInv'
    BY <1>13, ConnsAssumption DEF DisconnectPlain, Goto
  <1>14. ASSUME NEW c \in Conns, Terminate(c) PROVE MutexInv'
    BY <1>14, ConnsAssumption DEF Terminate, Goto
  <1>15. ASSUME NEW c \in Conns, EnterTerminate(c) PROVE MutexInv'
    BY <1>15, ConnsAssumption DEF EnterTerminate, Goto, lock
  <1>16. ASSUME NEW c \in Conns, CountDown(c) PROVE MutexInv'
    BY <1>16, ConnsAssumption DEF CountDown, Goto, unlock
  <1>17. ASSUME NEW c \in Conns, TermLibrary(c) PROVE MutexInv'
    BY <1>17, ConnsAssumption DEF TermLibrary, Goto
  <1>18. ASSUME NEW c \in Conns, CloseLog(c) PROVE MutexInv'
    BY <1>18, ConnsAssumption DEF CloseLog, Goto
  <1>19. ASSUME NEW c \in Conns, UnloadLibrary(c) PROVE MutexInv'
    BY <1>19, ConnsAssumption DEF UnloadLibrary, Goto, unlock
  <1>20. CASE UNCHANGED vars
    BY <1>20 DEF vars
  <1>21. QED
    BY <1>1, <1>2, <1>3, <1>4, <1>5, <1>6, <1>7, <1>8, <1>9, <1>10,
       <1>11, <1>12, <1>13, <1>14, <1>15, <1>16, <1>17, <1>18, <1>19, <1>20
    DEF Next, ExitStep, AppStep

(* The pointers follow the handle: what changes either holds the mutex.    *)
LEMMA PointersStep == IInv /\ [Next]_vars => PointersInv'
  <1> SUFFICES ASSUME IInv, [Next]_vars PROVE PointersInv'
    OBVIOUS
  <1> USE DEF IInv, TypeOK, PointersInv, MutexInv
  <1>1. ASSUME NEW c \in Conns, Connect(c) PROVE PointersInv'
    BY <1>1 DEF Connect, Goto
  <1>2. ASSUME NEW c \in Conns, EnterFirst(c) PROVE PointersInv'
    BY <1>2 DEF EnterFirst, Goto, lock
  <1>3. ASSUME NEW c \in Conns, CountUp(c) PROVE PointersInv'
    BY <1>3 DEF CountUp, Goto
  <1>4. ASSUME NEW c \in Conns, OpenLog(c) PROVE PointersInv'
    BY <1>4 DEF OpenLog, Goto, unlock
  <1>5. ASSUME NEW c \in Conns, Decide(c) PROVE PointersInv'
    BY <1>5 DEF Decide, Goto
  <1>6. ASSUME NEW c \in Conns, EnterSecond(c) PROVE PointersInv'
    BY <1>6 DEF EnterSecond, Goto, lock
  <1>7. ASSUME NEW c \in Conns, LoadLibrary(c) PROVE PointersInv'
    BY <1>7 DEF LoadLibrary, Goto
  <1>8. ASSUME NEW c \in Conns, ResolveSymbols(c) PROVE PointersInv'
    BY <1>8 DEF ResolveSymbols, Goto
  <1>9. ASSUME NEW c \in Conns, InitLibrary(c) PROVE PointersInv'
    BY <1>9 DEF InitLibrary, Goto, mqotInit
  <1>10. ASSUME NEW c \in Conns, RegisterHooks(c) PROVE PointersInv'
    BY <1>10 DEF RegisterHooks, Goto, unlock
  <1>11. ASSUME NEW c \in Conns, CallHook(c) PROVE PointersInv'
    BY <1>11 DEF CallHook, Goto
  <1>12. ASSUME NEW c \in Conns, HookReturns(c) PROVE PointersInv'
    BY <1>12 DEF HookReturns, Goto
  <1>13. ASSUME NEW c \in Conns, DisconnectPlain(c) PROVE PointersInv'
    BY <1>13 DEF DisconnectPlain, Goto
  <1>14. ASSUME NEW c \in Conns, Terminate(c) PROVE PointersInv'
    BY <1>14 DEF Terminate, Goto
  <1>15. ASSUME NEW c \in Conns, EnterTerminate(c) PROVE PointersInv'
    BY <1>15 DEF EnterTerminate, Goto, lock
  <1>16. ASSUME NEW c \in Conns, CountDown(c) PROVE PointersInv'
    BY <1>16 DEF CountDown, Goto, unlock
  <1>17. ASSUME NEW c \in Conns, TermLibrary(c) PROVE PointersInv'
    BY <1>17 DEF TermLibrary, Goto
  <1>18. ASSUME NEW c \in Conns, CloseLog(c) PROVE PointersInv'
    BY <1>18 DEF CloseLog, Goto
  <1>19. ASSUME NEW c \in Conns, UnloadLibrary(c) PROVE PointersInv'
    BY <1>19 DEF UnloadLibrary, Goto, unlock
  <1>20. CASE UNCHANGED vars
    BY <1>20 DEF vars
  <1>21. QED
    BY <1>1, <1>2, <1>3, <1>4, <1>5, <1>6, <1>7, <1>8, <1>9, <1>10,
       <1>11, <1>12, <1>13, <1>14, <1>15, <1>16, <1>17, <1>18, <1>19, <1>20
    DEF Next, ExitStep, AppStep

(* mqotTerm runs on a live pointer whenever the flag is set.               *)
LEMMA InitialisedStep == IInv /\ [Next]_vars => InitialisedInv'
  <1> SUFFICES ASSUME IInv, [Next]_vars PROVE InitialisedInv'
    OBVIOUS
  <1> USE DEF IInv, TypeOK, PointersInv, MutexInv, InitialisedInv
  <1>1. ASSUME NEW c \in Conns, Connect(c) PROVE InitialisedInv'
    BY <1>1 DEF Connect, Goto
  <1>2. ASSUME NEW c \in Conns, EnterFirst(c) PROVE InitialisedInv'
    BY <1>2 DEF EnterFirst, Goto, lock
  <1>3. ASSUME NEW c \in Conns, CountUp(c) PROVE InitialisedInv'
    BY <1>3 DEF CountUp, Goto
  <1>4. ASSUME NEW c \in Conns, OpenLog(c) PROVE InitialisedInv'
    BY <1>4 DEF OpenLog, Goto, unlock
  <1>5. ASSUME NEW c \in Conns, Decide(c) PROVE InitialisedInv'
    BY <1>5 DEF Decide, Goto
  <1>6. ASSUME NEW c \in Conns, EnterSecond(c) PROVE InitialisedInv'
    BY <1>6 DEF EnterSecond, Goto, lock
  <1>7. ASSUME NEW c \in Conns, LoadLibrary(c) PROVE InitialisedInv'
    BY <1>7 DEF LoadLibrary, Goto
  <1>8. ASSUME NEW c \in Conns, ResolveSymbols(c) PROVE InitialisedInv'
    BY <1>8 DEF ResolveSymbols, Goto
  <1>9. ASSUME NEW c \in Conns, InitLibrary(c) PROVE InitialisedInv'
    BY <1>9 DEF InitLibrary, Goto, mqotInit
  <1>10. ASSUME NEW c \in Conns, RegisterHooks(c) PROVE InitialisedInv'
    BY <1>10 DEF RegisterHooks, Goto, unlock
  <1>11. ASSUME NEW c \in Conns, CallHook(c) PROVE InitialisedInv'
    BY <1>11 DEF CallHook, Goto
  <1>12. ASSUME NEW c \in Conns, HookReturns(c) PROVE InitialisedInv'
    BY <1>12 DEF HookReturns, Goto
  <1>13. ASSUME NEW c \in Conns, DisconnectPlain(c) PROVE InitialisedInv'
    BY <1>13 DEF DisconnectPlain, Goto
  <1>14. ASSUME NEW c \in Conns, Terminate(c) PROVE InitialisedInv'
    BY <1>14 DEF Terminate, Goto
  <1>15. ASSUME NEW c \in Conns, EnterTerminate(c) PROVE InitialisedInv'
    BY <1>15 DEF EnterTerminate, Goto, lock
  <1>16. ASSUME NEW c \in Conns, CountDown(c) PROVE InitialisedInv'
    BY <1>16 DEF CountDown, Goto, unlock
  <1>17. ASSUME NEW c \in Conns, TermLibrary(c) PROVE InitialisedInv'
    BY <1>17 DEF TermLibrary, Goto
  <1>18. ASSUME NEW c \in Conns, CloseLog(c) PROVE InitialisedInv'
    BY <1>18 DEF CloseLog, Goto
  <1>19. ASSUME NEW c \in Conns, UnloadLibrary(c) PROVE InitialisedInv'
    BY <1>19 DEF UnloadLibrary, Goto, unlock
  <1>20. CASE UNCHANGED vars
    BY <1>20 DEF vars
  <1>21. QED
    BY <1>1, <1>2, <1>3, <1>4, <1>5, <1>6, <1>7, <1>8, <1>9, <1>10,
       <1>11, <1>12, <1>13, <1>14, <1>15, <1>16, <1>17, <1>18, <1>19, <1>20
    DEF Next, ExitStep, AppStep

(* initCount follows the counted connections, one at a time.               *)
LEMMA CountStep == IInv /\ [Next]_vars => CountInv'
  <1> SUFFICES ASSUME IInv, [Next]_vars PROVE CountInv'
    OBVIOUS
  <1> USE DEF IInv, TypeOK, CountInv
  <1>1. ASSUME NEW c \in Conns, Connect(c) PROVE CountInv'
    <2>1. Counted' = Counted
      BY <1>1, CountedStays DEF Connect, Goto
    <2>2. QED
      BY <1>1, <2>1 DEF Connect, Goto
  <1>2. ASSUME NEW c \in Conns, EnterFirst(c) PROVE CountInv'
    <2>1. Counted' = Counted
      BY <1>2, CountedStays DEF EnterFirst, Goto, lock
    <2>2. QED
      BY <1>2, <2>1 DEF EnterFirst, Goto, lock
  <1>3. ASSUME NEW c \in Conns, CountUp(c) PROVE CountInv'
    <2>1. Cardinality(Counted') = Cardinality(Counted) + 1
      BY <1>3, CountedGrows DEF CountUp, Goto
    <2>2. \A d \in Conns : pc[d] \notin TearDown
      BY <1>3 DEF CountUp, Goto, MutexInv
    <2>3. QED
      BY <1>3, <2>1, <2>2 DEF CountUp, Goto
  <1>4. ASSUME NEW c \in Conns, OpenLog(c) PROVE CountInv'
    <2>1. Counted' = Counted
      BY <1>4, CountedStays DEF OpenLog, Goto, unlock
    <2>2. QED
      BY <1>4, <2>1 DEF OpenLog, Goto, unlock
  <1>5. ASSUME NEW c \in Conns, Decide(c) PROVE CountInv'
    <2>1. Counted' = Counted
      BY <1>5, CountedStays DEF Decide, Goto
    <2>2. QED
      BY <1>5, <2>1 DEF Decide, Goto
  <1>6. ASSUME NEW c \in Conns, EnterSecond(c) PROVE CountInv'
    <2>1. Counted' = Counted
      BY <1>6, CountedStays DEF EnterSecond, Goto, lock
    <2>2. QED
      BY <1>6, <2>1 DEF EnterSecond, Goto, lock
  <1>7. ASSUME NEW c \in Conns, LoadLibrary(c) PROVE CountInv'
    <2>1. Counted' = Counted
      BY <1>7, CountedStays DEF LoadLibrary, Goto
    <2>2. QED
      BY <1>7, <2>1 DEF LoadLibrary, Goto
  <1>8. ASSUME NEW c \in Conns, ResolveSymbols(c) PROVE CountInv'
    <2>1. Counted' = Counted
      BY <1>8, CountedStays DEF ResolveSymbols, Goto
    <2>2. QED
      BY <1>8, <2>1 DEF ResolveSymbols, Goto
  <1>9. ASSUME NEW c \in Conns, InitLibrary(c) PROVE CountInv'
    <2>1. Counted' = Counted
      BY <1>9, CountedStays DEF InitLibrary, Goto, mqotInit
    <2>2. QED
      BY <1>9, <2>1 DEF InitLibrary, Goto, mqotInit
  <1>10. ASSUME NEW c \in Conns, RegisterHooks(c) PROVE CountInv'
    <2>1. Counted' = Counted
      BY <1>10, CountedStays DEF RegisterHooks, Goto, unlock
    <2>2. QED
      BY <1>10, <2>1 DEF RegisterHooks, Goto, unlock
  <1>11. ASSUME NEW c \in Conns, CallHook(c) PROVE CountInv'
    <2>1. Counted' = Counted
      BY <1>11, CountedStays DEF CallHook, Goto
    <2>2. QED
      BY <1>11, <2>1 DEF CallHook, Goto
  <1>12. ASSUME NEW c \in Conns, HookReturns(c) PROVE CountInv'
    <2>1. Counted' = Counted
      BY <1>12, CountedStays DEF HookReturns, Goto
    <2>2. QED
      BY <1>12, <2>1 DEF HookReturns, Goto
  <1>13. ASSUME NEW c \in Conns, DisconnectPlain(c) PROVE CountInv'
    <2>1. Counted' = Counted
      BY <1>13, CountedStays DEF DisconnectPlain, Goto
    <2>2. QED
      BY <1>13, <2>1 DEF DisconnectPlain, Goto
  <1>14. ASSUME NEW c \in Conns, Terminate(c) PROVE CountInv'
    <2>1. Counted' = Counted
      BY <1>14, CountedStays DEF Terminate, Goto
    <2>2. QED
      BY <1>14, <2>1 DEF Terminate, Goto
  <1>15. ASSUME NEW c \in Conns, EnterTerminate(c) PROVE CountInv'
    <2>1. Counted' = Counted
      BY <1>15, CountedStays DEF EnterTerminate, Goto, lock
    <2>2. QED
      BY <1>15, <2>1 DEF EnterTerminate, Goto, lock
  <1>16. ASSUME NEW c \in Conns, CountDown(c) PROVE CountInv'
    <2>1. Cardinality(Counted') = Cardinality(Counted) - 1
      BY <1>16, CountedShrinks DEF CountDown, Goto
    <2>2. initCount' \in Nat
      BY <1>16, TypeStep DEF Next, ExitStep
    <2>3. \A d \in Conns : d # c => pc[d] \notin TearDown
      BY <1>16 DEF CountDown, Goto, MutexInv
    <2>4. QED
      BY <1>16, <2>1, <2>2, <2>3 DEF CountDown, Goto
  <1>17. ASSUME NEW c \in Conns, TermLibrary(c) PROVE CountInv'
    <2>1. Counted' = Counted
      BY <1>17, CountedStays DEF TermLibrary, Goto
    <2>2. QED
      BY <1>17, <2>1 DEF TermLibrary, Goto
  <1>18. ASSUME NEW c \in Conns, CloseLog(c) PROVE CountInv'
    <2>1. Counted' = Counted
      BY <1>18, CountedStays DEF CloseLog, Goto
    <2>2. QED
      BY <1>18, <2>1 DEF CloseLog, Goto
  <1>19. ASSUME NEW c \in Conns, UnloadLibrary(c) PROVE CountInv'
    <2>1. Counted' = Counted
      BY <1>19, CountedStays DEF UnloadLibrary, Goto, unlock
    <2>2. QED
      BY <1>19, <2>1 DEF UnloadLibrary, Goto, unlock, MutexInv
  <1>20. CASE UNCHANGED vars
    BY <1>20 DEF vars, Counted
  <1>21. QED
    BY <1>1, <1>2, <1>3, <1>4, <1>5, <1>6, <1>7, <1>8, <1>9, <1>10,
       <1>11, <1>12, <1>13, <1>14, <1>15, <1>16, <1>17, <1>18, <1>19, <1>20
    DEF Next, ExitStep, AppStep

(* What is held keeps its counted connection or goes to the tear-down.     *)
LEMMA HeldStep == IInv /\ [Next]_vars => HeldInv'
  <1> SUFFICES ASSUME IInv, [Next]_vars PROVE HeldInv'
    OBVIOUS
  <1> USE DEF IInv, TypeOK, MutexInv, HeldInv, Counted
  <1>1. ASSUME NEW c \in Conns, Connect(c) PROVE HeldInv'
    BY <1>1 DEF Connect, Goto
  <1>2. ASSUME NEW c \in Conns, EnterFirst(c) PROVE HeldInv'
    BY <1>2 DEF EnterFirst, Goto, lock
  <1>3. ASSUME NEW c \in Conns, CountUp(c) PROVE HeldInv'
    BY <1>3 DEF CountUp, Goto
  <1>4. ASSUME NEW c \in Conns, OpenLog(c) PROVE HeldInv'
    BY <1>4 DEF OpenLog, Goto, unlock
  <1>5. ASSUME NEW c \in Conns, Decide(c) PROVE HeldInv'
    BY <1>5 DEF Decide, Goto
  <1>6. ASSUME NEW c \in Conns, EnterSecond(c) PROVE HeldInv'
    BY <1>6 DEF EnterSecond, Goto, lock
  <1>7. ASSUME NEW c \in Conns, LoadLibrary(c) PROVE HeldInv'
    BY <1>7 DEF LoadLibrary, Goto
  <1>8. ASSUME NEW c \in Conns, ResolveSymbols(c) PROVE HeldInv'
    BY <1>8 DEF ResolveSymbols, Goto
  <1>9. ASSUME NEW c \in Conns, InitLibrary(c) PROVE HeldInv'
    BY <1>9 DEF InitLibrary, Goto, mqotInit
  <1>10. ASSUME NEW c \in Conns, RegisterHooks(c) PROVE HeldInv'
    BY <1>10 DEF RegisterHooks, Goto, unlock
  <1>11. ASSUME NEW c \in Conns, CallHook(c) PROVE HeldInv'
    BY <1>11 DEF CallHook, Goto
  <1>12. ASSUME NEW c \in Conns, HookReturns(c) PROVE HeldInv'
    BY <1>12 DEF HookReturns, Goto
  <1>13. ASSUME NEW c \in Conns, DisconnectPlain(c) PROVE HeldInv'
    BY <1>13 DEF DisconnectPlain, Goto
  <1>14. ASSUME NEW c \in Conns, Terminate(c) PROVE HeldInv'
    BY <1>14 DEF Terminate, Goto
  <1>15. ASSUME NEW c \in Conns, EnterTerminate(c) PROVE HeldInv'
    BY <1>15 DEF EnterTerminate, Goto, lock
  <1>16. ASSUME NEW c \in Conns, CountDown(c) PROVE HeldInv'
    <2>1. Counted' # {} \/ pc'[c] = "termlib"
      <3>1. CountInv' /\ IsFiniteSet(Counted')
        <4>1. CountInv'
          BY CountStep
        <4>2. Counted' = Counted \ {c}
          BY <1>16, CountedShrinks DEF CountDown, Goto
        <4>3. QED
          BY <4>1, <4>2, CountedIsFinite, FS_Subset
      <3>2. CASE initCount' > 0
        BY <3>1, <3>2, FS_EmptySet DEF CountInv
      <3>3. CASE initCount' <= 0
        BY <1>16, <3>3 DEF CountDown, Goto
      <3>4. QED
        BY <1>16, <3>2, <3>3 DEF CountDown
    <2>2. QED
      BY <1>16, <2>1 DEF CountDown, Goto
  <1>17. ASSUME NEW c \in Conns, TermLibrary(c) PROVE HeldInv'
    BY <1>17 DEF TermLibrary, Goto
  <1>18. ASSUME NEW c \in Conns, CloseLog(c) PROVE HeldInv'
    BY <1>18 DEF CloseLog, Goto
  <1>19. ASSUME NEW c \in Conns, UnloadLibrary(c) PROVE HeldInv'
    BY <1>19 DEF UnloadLibrary, Goto, unlock
  <1>20. CASE UNCHANGED vars
    BY <1>20 DEF vars
  <1>21. QED
    BY <1>1, <1>2, <1>3, <1>4, <1>5, <1>6, <1>7, <1>8, <1>9, <1>10,
       <1>11, <1>12, <1>13, <1>14, <1>15, <1>16, <1>17, <1>18, <1>19, <1>20
    DEF Next, ExitStep, AppStep

-----------------------------------------------------------------------------
(* The inductive invariant holds in every reachable state; with it the     *)
(* types, mutual exclusion of the critical sections, the exact meaning of  *)
(* initCount and the state of library, log and pointers.                   *)
THEOREM Invariance == Spec => []IInv
  <1>1. Init => IInv
    <2> SUFFICES ASSUME Init PROVE IInv
      OBVIOUS
    <2>1. TypeOK /\ MutexInv /\ PointersInv /\ InitialisedInv /\ HeldInv
      BY ConnsAssumption 
      DEF Init, TypeOK, MutexInv, PointersInv, InitialisedInv, HeldInv
    <2>2. Counted = {}
      BY DEF Init, Counted
    <2>3. CountInv
      BY <2>2, FS_EmptySet DEF Init, CountInv
    <2>4. QED
      BY <2>1, <2>3 DEF IInv
  <1>2. IInv /\ [Next]_vars => IInv'
    BY TypeStep, MutexStep, CountStep, HeldStep, PointersStep, InitialisedStep 
    DEF IInv
  <1>3. QED
    BY <1>1, <1>2, PTL DEF Spec

(* A count of zero with nobody in a critical section means that log,       *)
(* library and library state have been given back.                         *)
THEOREM CleanUp == Spec => []LastOutCleansUp
  <1>1. IInv => LastOutCleansUp
    <2> SUFFICES ASSUME IInv, initCount = 0, mutex = NoConn
                 PROVE  ~fp /\ ~hdl /\ ~initialised
      BY DEF LastOutCleansUp
    <2>1. Counted = {}
      BY CountedIsFinite DEF IInv, CountInv
    <2>2. \A c \in Conns : pc[c] \notin TearDown
      BY ConnsAssumption DEF IInv, MutexInv
    <2>3. QED
      BY <2>1, <2>2 DEF IInv, HeldInv, PointersInv, InitialisedInv
  <1>2. QED
    BY <1>1, Invariance, PTL

-----------------------------------------------------------------------------
(* Nobody is counted while Terminate tears the exit down.                  *)
LEMMA TearDownIsAlone ==
  ASSUME IInv, NEW c \in Conns, pc[c] \in TearDown
  PROVE  Counted = {}
  BY CountedIsFinite DEF IInv, CountInv

(* Code entered through a live pointer stays mapped until the hook returns.*)
THEOREM HookSafety == Spec => HookKeepsItsCode
  <1>1. ASSUME IInv, [Next]_vars, 
               NEW h \in Conns, pc[h] = "inhook", ot = "live"
        PROVE  ot' = "live"
    <2>1. ASSUME NEW c \in Conns, ResolveSymbols(c) PROVE ot' = "live"
      BY <2>1 DEF ResolveSymbols
    <2>2. ASSUME NEW c \in Conns, UnloadLibrary(c) PROVE FALSE
      <3>1. Counted = {}
        BY <1>1, <2>2, TearDownIsAlone DEF UnloadLibrary, Goto
      <3>2. h \in Counted
        BY <1>1 DEF Counted
      <3>3. QED
        BY <3>1, <3>2
    <2>3. ASSUME NEW c \in Conns, ExitStep(c) \/ AppStep(c), 
                 ~ResolveSymbols(c), ~UnloadLibrary(c)
          PROVE  UNCHANGED ot
      BY <2>3 DEF ExitStep, AppStep, Connect, EnterFirst, CountUp, OpenLog, 
        Decide, EnterSecond, LoadLibrary, InitLibrary, RegisterHooks, 
        CallHook, HookReturns, DisconnectPlain, Terminate, EnterTerminate, 
        CountDown, TermLibrary, CloseLog
    <2>4. CASE UNCHANGED vars
      BY <1>1, <2>4 DEF vars
    <2>5. QED
      BY <1>1, <2>1, <2>2, <2>3, <2>4 DEF Next
  <1>2. IInv /\ [Next]_vars 
          => [\A c \in Conns : pc[c] = "inhook" /\ ot = "live" => ot' = "live"]_vars
    BY <1>1
  <1>3. QED
    BY <1>2, Invariance, PTL DEF Spec, HookKeepsItsCode

-----------------------------------------------------------------------------
(* What a step does to the counted connections and to the two resources:   *)
(* it moves one connection in or out and leaves the resources alone, or it *)
(* leaves the connections alone and takes a resource for somebody or gives *)
(* it back for nobody.                                                     *)
Keeps(held, heldNext) ==
  \/ heldNext = held
  \/ heldNext = TRUE /\ Counted # {}
  \/ heldNext = FALSE /\ Counted = {}

Moves ==
  \/ \E c \in Conns : c \notin Counted /\ Counted' = Counted \cup {c} 
                     /\ UNCHANGED <<hdl, fp>>
  \/ \E c \in Conns : c \in Counted /\ Counted' = Counted \ {c} 
                     /\ UNCHANGED <<hdl, fp>>
  \/ Counted' = Counted /\ Keeps(hdl, hdl') /\ Keeps(fp, fp')

LEMMA StepsAreMoves == IInv /\ [Next]_vars => Moves
  <1> SUFFICES ASSUME IInv, [Next]_vars PROVE Moves
    OBVIOUS
  <1> USE DEF IInv
  <1>1. ASSUME NEW c \in Conns, CountUp(c) PROVE Moves
    BY <1>1, CountedGrows DEF CountUp, Goto, Moves
  <1>2. ASSUME NEW c \in Conns, CountDown(c) PROVE Moves
    BY <1>2, CountedShrinks DEF CountDown, Goto, Moves
  <1>3. ASSUME NEW c \in Conns, OpenLog(c) \/ LoadLibrary(c) PROVE Moves
    <2>1. Counted' = Counted
      BY <1>3, CountedStays DEF OpenLog, LoadLibrary, Goto
    <2>2. c \in Counted
      BY <1>3 DEF OpenLog, LoadLibrary, Goto, Counted
    <2>3. QED
      BY <1>3, <2>1, <2>2 DEF OpenLog, LoadLibrary, Goto, Moves, Keeps
  <1>4. ASSUME NEW c \in Conns, CloseLog(c) \/ UnloadLibrary(c) PROVE Moves
    <2>1. Counted' = Counted
      BY <1>4, CountedStays DEF CloseLog, UnloadLibrary, Goto
    <2>2. Counted = {}
      BY <1>4, TearDownIsAlone DEF CloseLog, UnloadLibrary, Goto
    <2>3. QED
      BY <1>4, <2>1, <2>2 DEF CloseLog, UnloadLibrary, Goto, Moves, Keeps
  <1>5. ASSUME NEW c \in Conns, 
               \/ Connect(c) \/ EnterFirst(c) \/ Decide(c) \/ EnterSecond(c)
               \/ ResolveSymbols(c) \/ InitLibrary(c) \/ RegisterHooks(c)
               \/ CallHook(c) \/ HookReturns(c) \/ DisconnectPlain(c)
               \/ Terminate(c) \/ EnterTerminate(c) \/ TermLibrary(c)
        PROVE  Moves
    <2>1. Counted' = Counted
      BY <1>5, CountedStays DEF Connect, EnterFirst, Decide, EnterSecond, 
        ResolveSymbols, InitLibrary, RegisterHooks, CallHook, HookReturns, 
        DisconnectPlain, Terminate, EnterTerminate, TermLibrary, Goto
    <2>2. UNCHANGED <<hdl, fp>>
      BY <1>5 DEF Connect, EnterFirst, Decide, EnterSecond, 
        ResolveSymbols, InitLibrary, RegisterHooks, CallHook, HookReturns, 
        DisconnectPlain, Terminate, EnterTerminate, TermLibrary
    <2>3. QED
      BY <2>1, <2>2 DEF Moves, Keeps
  <1>6. CASE UNCHANGED vars
    BY <1>6 DEF vars, Counted, Moves, Keeps
  <1>7. QED
    BY <1>1, <1>2, <1>3, <1>4, <1>5, <1>6 DEF Next, ExitStep, AppStep

(* The loaded library is shared as SharedResource promises: no dlclose     *)
(* while a connection is counted, no dlopen for nobody.                    *)
THEOREM LibraryRefinement == Spec => LibraryIsShared
  <1>1. Init => Library!Init
    BY DEF Init, Library!Init, Counted
  <1>2. IInv /\ [Next]_vars => [Library!Next]_<<Counted, hdl>>
    <2> SUFFICES ASSUME IInv, [Next]_vars 
                 PROVE  Library!Next \/ UNCHANGED <<Counted, hdl>>
      OBVIOUS
    <2>1. Moves
      BY StepsAreMoves
    <2>2. QED
      BY <2>1 DEF Moves, Keeps, Library!Next, Library!Join, Library!Leave, 
        Library!Acquire, Library!Release
  <1>3. QED
    BY <1>1, <1>2, Invariance, PTL DEF Spec, LibraryIsShared, Library!Spec

(* So is the open log file.                                                *)
THEOREM LogRefinement == Spec => LogIsShared
  <1>1. Init => Log!Init
    BY DEF Init, Log!Init, Counted
  <1>2. IInv /\ [Next]_vars => [Log!Next]_<<Counted, fp>>
    <2> SUFFICES ASSUME IInv, [Next]_vars 
                 PROVE  Log!Next \/ UNCHANGED <<Counted, fp>>
      OBVIOUS
    <2>1. Moves
      BY StepsAreMoves
    <2>2. QED
      BY <2>1 DEF Moves, Keeps, Log!Next, Log!Join, Log!Leave, 
        Log!Acquire, Log!Release
  <1>3. QED
    BY <1>1, <1>2, Invariance, PTL DEF Spec, LogIsShared, Log!Spec
=============================================================================
