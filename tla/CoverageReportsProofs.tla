------------------------ MODULE CoverageReportsProofs ------------------------
(***************************************************************************)
(* Proofs about CoverageReports, for every number of threads and methods.  *)
(***************************************************************************)
EXTENDS CoverageReports, TLAPS

(* Lemmas on the data the types are made of.                               *)

(* A history stays one when a record is added to it. *)
LEMMA HistoryType ==
  ASSUME TypeOK, NEW t \in Threads, NEW m \in Nat
  PROVE  /\ NewHistory(t, m) \in Histories
         /\ \A h \in Histories : Extended(h, t, m) \in Histories
<1>1. ran[t] \in Seq(SUBSET Nat)
  BY DEF TypeOK
<1>2. <<Len(ran[t]), m>> \in Records
  BY <1>1 DEF Records
<1>3. QED
  BY <1>2 DEF NewHistory, Extended, Histories

(* The record of what ran keeps its type. *)
LEMMA RanType ==
  ASSUME TypeOK, NEW t \in Threads, NEW m \in Nat, Ran(t, m)
  PROVE  ran' \in [Threads -> Seq(SUBSET Nat)]
<1>1. ran[t] \in Seq(SUBSET Nat)
  BY DEF TypeOK
<1>2. Append(ran[t], {m}) \in Seq(SUBSET Nat)
  BY <1>1
<1>3. [ran[t] EXCEPT ![Len(ran[t])] = ran[t][Len(ran[t])] \cup {m}] \in Seq(SUBSET Nat)
  <2> DEFINE s == ran[t]
             u == [s EXCEPT ![Len(s)] = s[Len(s)] \cup {m}]
  <2>1. s \in [1..Len(s) -> SUBSET Nat] /\ Len(s) \in Nat
    BY <1>1
  <2>2. u \in [1..Len(s) -> SUBSET Nat]
    BY <2>1
  <2>3. QED
    BY <2>1, <2>2
<1>4. QED
  BY <1>2, <1>3 DEF TypeOK, Ran

(* A turn of the loop over the collected methods keeps the type of its locals. *)
LEMMA ExaminedType ==
  ASSUME NEW local \in Serializing, NEW found \in BOOLEAN
  PROVE  Examined(local, found) \in Serializing
BY DEF Examined, Racing, Serializing

(* A turn made during an insertion makes the scan torn, for good. *)
LEMMA ExaminedTorn ==
  ASSUME NEW local, NEW found
  PROVE  Examined(local, found).torn = (local.torn \/ Racing)
<1> DEFINE torn == local.torn \/ Racing
<1> HIDE DEF torn
<1>1. Examined(local, found) =
        [next    |-> local.next + 1,
         methods |-> IF found THEN local.methods \cup {local.next} ELSE local.methods,
         torn    |-> torn,
         mapped  |-> local.mapped]
  BY Zenon DEF Examined, torn
<1>2. Examined(local, found).torn = torn
  BY <1>1
<1>3. QED
  BY <1>2 DEF torn

-----------------------------------------------------------------------------
(* Types.  Every step keeps them: one step per action, and under it the    *)
(* variables the action changes.                                           *)
LEMMA TypeStep ==
  ASSUME TypeOK, [Next]_vars
  PROVE  TypeOK'
<1> USE DEF TypeOK, Step, At, Goto, trackerVars, methodVars, visitedVars,
            reportVars, localVars, ghostVars
<1>1. ASSUME NEW t \in Threads, NEW id \in MapIds, SetCurrentThreadId(t, id)
      PROVE  TypeOK'
  <2>1. threadIdMapping' \in [Threads -> Int \cup {None}]
    BY ReportsAssumption, <1>1 DEF SetCurrentThreadId
  <2>2. QED
    BY <1>1, <2>1 DEF SetCurrentThreadId
<1>2. ASSUME NEW t \in Threads, CollectMethod(t)
      PROVE  TypeOK'
  <2>1. collectedMethods' \in Nat
    BY <1>2 DEF CollectMethod
  <2>2. QED
    BY <1>2, <2>1 DEF CollectMethod
<1>3. ASSUME NEW t \in Threads, NEW m \in MethodIds, EnterMain(t, m)
      PROVE  TypeOK'
  <2>1. pc' \in [Threads -> Labels]
    BY <1>3 DEF EnterMain, Labels
  <2>2. probe' \in [Threads -> Probes]
    BY <1>3 DEF EnterMain, Probes, CallProbe, MethodIds
  <2>3. ran' \in [Threads -> Seq(SUBSET Nat)]
    BY RanType, <1>3 DEF EnterMain, MethodIds
  <2>4. depth' \in [Threads -> Int]
    BY <1>3 DEF EnterMain
  <2>5. QED
    BY <1>3, <2>1, <2>2, <2>3, <2>4 DEF EnterMain
<1>4. ASSUME NEW t \in Threads, NEW m \in MethodIds, Cover(t, m)
      PROVE  TypeOK'
  <2>1. pc' \in [Threads -> Labels]
    BY <1>4 DEF Cover, Labels
  <2>2. probe' \in [Threads -> Probes]
    BY <1>4 DEF Cover, Probes, CallProbe, MethodIds
  <2>3. ran' \in [Threads -> Seq(SUBSET Nat)]
    BY RanType, <1>4 DEF Cover, MethodIds
  <2>4. QED
    BY <1>4, <2>1, <2>2, <2>3 DEF Cover
<1>5. ASSUME NEW t \in Threads, NEW m \in MethodIds, LeaveMain(t, m)
      PROVE  TypeOK'
  <2>1. pc' \in [Threads -> Labels]
    BY <1>5 DEF LeaveMain, Labels
  <2>2. probe' \in [Threads -> Probes]
    BY <1>5 DEF LeaveMain, Probes, CallProbe, MethodIds
  <2>3. ran' \in [Threads -> Seq(SUBSET Nat)]
    BY RanType, <1>5 DEF LeaveMain, MethodIds
  <2>4. depth' \in [Threads -> Int]
    BY <1>5 DEF LeaveMain
  <2>5. QED
    BY <1>5, <2>1, <2>2, <2>3, <2>4 DEF LeaveMain
<1>6. ASSUME NEW t \in Threads, GetHistory(t)
      PROVE  TypeOK'
  <2>1. pc' \in [Threads -> Labels]
    BY <1>6 DEF GetHistory, Labels
  <2>2. QED
    BY <1>6, <2>1 DEF GetHistory
<1>7. ASSUME NEW t \in Threads, TrackCurrentThread(t)
      PROVE  TypeOK'
  <2>1. pc' \in [Threads -> Labels]
    BY <1>7 DEF TrackCurrentThread, Labels
  <2>2. stackBalances' \in [Threads -> Int \cup {None}]
    BY <1>7 DEF TrackCurrentThread, StackBalance, Balance, Tracked
  <2>3. QED
    BY <1>7, <2>1, <2>2 DEF TrackCurrentThread, StackBalance
<1>8. ASSUME NEW t \in Threads, StackBalanceUp(t)
      PROVE  TypeOK'
  <2>1. pc' \in [Threads -> Labels]
    BY <1>8 DEF StackBalanceUp, Labels
  <2>2. stackBalances' \in [Threads -> Int \cup {None}]
    BY <1>8 DEF StackBalanceUp, StackBalance, Balance, Tracked
  <2>3. QED
    BY <1>8, <2>1, <2>2 DEF StackBalanceUp, StackBalance
<1>9. ASSUME NEW t \in Threads, StackBalanceDown(t)
      PROVE  TypeOK'
  <2>1. pc' \in [Threads -> Labels]
    BY <1>9 DEF StackBalanceDown, Labels
  <2>2. stackBalances' \in [Threads -> Int \cup {None}]
    BY <1>9 DEF StackBalanceDown, StackBalance, Balance, Tracked
  <2>3. depth' \in [Threads -> Int]
    BY <1>9 DEF StackBalanceDown
  <2>4. QED
    BY <1>9, <2>1, <2>2, <2>3 DEF StackBalanceDown, StackBalance
<1>10. ASSUME NEW t \in Threads, AddEnterMain(t)
      PROVE  TypeOK'
  <2>1. pc' \in [Threads -> Labels]
    BY ZenonT(60), <1>10 DEF AddEnterMain, Labels
  <2>2. probe[t].method \in Nat
    BY <1>10 DEF AddEnterMain, Probes
  <2>3. NewHistory(t, probe[t].method) \in Histories
    BY HistoryType, <2>2, <1>10 DEF AddEnterMain
  <2>4. trackedCoverage' \in [Threads -> Histories \cup {None}]
    BY <2>3, <1>10 DEF AddEnterMain
  <2>5. QED
    BY <1>10, <2>1, <2>2, <2>3, <2>4 DEF AddEnterMain
<1>11. ASSUME NEW t \in Threads, AddCoverage(t)
      PROVE  TypeOK'
  <2>1. probe[t].method \in Nat /\ probe[t].after \in Labels
    BY <1>11 DEF AddCoverage, Probes, Labels
  <2>2. pc' \in [Threads -> Labels]
    BY <2>1, <1>11 DEF AddCoverage
  <2>3. trackedCoverage[t] # None => Extended(trackedCoverage[t], t, probe[t].method) \in Histories
    BY HistoryType, <2>1, <1>11 DEF AddCoverage
  <2>4. trackedCoverage' \in [Threads -> Histories \cup {None}]
    BY <2>3, <1>11 DEF AddCoverage
  <2>5. QED
    BY <1>11, <2>1, <2>2, <2>3, <2>4 DEF AddCoverage
<1>12. ASSUME NEW t \in Threads, LoadCoverage(t)
      PROVE  TypeOK'
  <2>1. pc' \in [Threads -> Labels]
    BY ZenonT(60), <1>12 DEF LoadCoverage, Labels
  <2>2. trackedCoverage[t] # None => [id |-> 0, history |-> trackedCoverage[t]] \in Finishing
    BY <1>12 DEF LoadCoverage, Finishing
  <2>3. finishing' \in [Threads -> Finishing]
    BY <2>2, <1>12 DEF LoadCoverage
  <2>4. QED
    BY <1>12, <2>1, <2>2, <2>3 DEF LoadCoverage
<1>13. ASSUME NEW t \in Threads, HasMapping(t)
      PROVE  TypeOK'
  <2>1. pc' \in [Threads -> Labels]
    BY <1>13 DEF HasMapping, Labels
  <2>2. QED
    BY <1>13, <2>1 DEF HasMapping
<1>14. ASSUME NEW t \in Threads, LoadMapping(t)
      PROVE  TypeOK'
  <2>1. pc' \in [Threads -> Labels]
    BY <1>14 DEF LoadMapping, Labels
  <2>2. LoadedId(t) \in Int
    BY <1>14 DEF LoadMapping, LoadedId
  <2>3. threadIdMapping' \in [Threads -> Int \cup {None}]
    BY <2>2, <1>14 DEF LoadMapping
  <2>4. [finishing[t] EXCEPT !.id = LoadedId(t)] \in Finishing
    BY <2>2, <1>14 DEF LoadMapping, Finishing
  <2>5. finishing' \in [Threads -> Finishing]
    BY <2>4, <1>14 DEF LoadMapping
  <2>6. QED
    BY <1>14, <2>1, <2>2, <2>3, <2>4, <2>5 DEF LoadMapping
<1>15. ASSUME NEW t \in Threads, LockVisited(t)
      PROVE  TypeOK'
  <2>1. pc' \in [Threads -> Labels]
    BY <1>15 DEF LockVisited, Labels
  <2>2. QED
    BY <1>15, <2>1 DEF LockVisited
<1>16. ASSUME NEW t \in Threads, InsertVisited(t)
      PROVE  TypeOK'
  <2>1. pc' \in [Threads -> Labels]
    BY <1>16 DEF InsertVisited, Labels
  <2>2. visitedMethods' \in SUBSET Nat
    BY <1>16 DEF InsertVisited, Finishing, Histories
  <2>3. QED
    BY <1>16, <2>1, <2>2 DEF InsertVisited
<1>17. ASSUME NEW t \in Threads, RemoveCoverage(t)
      PROVE  TypeOK'
  <2>1. pc' \in [Threads -> Labels]
    BY <1>17 DEF RemoveCoverage, Labels
  <2>2. trackedCoverage' \in [Threads -> Histories \cup {None}]
    BY <1>17 DEF RemoveCoverage
  <2>3. QED
    BY <1>17, <2>1, <2>2 DEF RemoveCoverage
<1>18. ASSUME NEW t \in Threads, PushReport(t)
      PROVE  TypeOK'
  <2>1. pc' \in [Threads -> Labels]
    BY <1>18 DEF PushReport, Labels
  <2>2. serializedCoverage' \in Seq(Reports)
    BY SMTT(40), <1>18 DEF PushReport, Reports, Finishing, Histories
  <2>3. serializedCoverageThreadIds' \in SUBSET Int
    BY <1>18 DEF PushReport, Finishing
  <2>4. published' \in [Threads -> Nat]
    BY <1>18 DEF PushReport
  <2>5. QED
    BY <1>18, <2>1, <2>2, <2>3, <2>4 DEF PushReport
<1>19. ASSUME NEW t \in Threads, RemoveBalance(t)
      PROVE  TypeOK'
  <2>1. pc' \in [Threads -> Labels]
    BY <1>19 DEF RemoveBalance, Labels
  <2>2. stackBalances' \in [Threads -> Int \cup {None}]
    BY <1>19 DEF RemoveBalance, StackBalance, Balance, Tracked
  <2>3. QED
    BY <1>19, <2>1, <2>2 DEF RemoveBalance, StackBalance
<1>20. ASSUME NEW t \in Threads, RemoveMapping(t)
      PROVE  TypeOK'
  <2>1. pc' \in [Threads -> Labels]
    BY <1>20 DEF RemoveMapping, Labels
  <2>2. threadIdMapping' \in [Threads -> Int \cup {None}]
    BY <1>20 DEF RemoveMapping
  <2>3. depth' \in [Threads -> Int]
    BY <1>20 DEF RemoveMapping
  <2>4. QED
    BY <1>20, <2>1, <2>2, <2>3 DEF RemoveMapping
<1>21. ASSUME NEW t \in Threads, LockCollected(t)
      PROVE  TypeOK'
  <2>1. pc' \in [Threads -> Labels]
    BY <1>21 DEF LockCollected, Labels
  <2>2. QED
    BY <1>21, <2>1 DEF LockCollected
<1>22. ASSUME NEW t \in Threads, LockSerialized(t)
      PROVE  TypeOK'
  <2>1. pc' \in [Threads -> Labels]
    BY <1>22 DEF LockSerialized, Labels
  <2>2. serializing' \in [Threads -> Serializing]
    BY <1>22 DEF LockSerialized, Serializing
  <2>3. QED
    BY <1>22, <2>1, <2>2 DEF LockSerialized
<1>23. ASSUME NEW t \in Threads, SerializeMethod(t)
      PROVE  TypeOK'
  <2>1. PICK found \in BOOLEAN : serializing' = [serializing EXCEPT ![t] = Examined(serializing[t], found)]
    BY <1>23 DEF SerializeMethod
  <2>2. serializing' \in [Threads -> Serializing]
    BY ExaminedType, <2>1, <1>23 DEF SerializeMethod
  <2>3. QED
    BY <1>23, <2>1, <2>2 DEF SerializeMethod
<1>24. ASSUME NEW t \in Threads, EndOfMethods(t)
      PROVE  TypeOK'
  <2>1. pc' \in [Threads -> Labels]
    BY <1>24 DEF EndOfMethods, Labels
  <2>2. QED
    BY <1>24, <2>1 DEF EndOfMethods
<1>25. ASSUME NEW t \in Threads, ReadMapping(t)
      PROVE  TypeOK'
  <2>1. pc' \in [Threads -> Labels]
    BY <1>25 DEF ReadMapping, Labels
  <2>2. MappedIds \subseteq Int
    BY <1>25 DEF ReadMapping, MappedIds
  <2>3. [serializing[t] EXCEPT !.mapped = MappedIds] \in Serializing
    BY <2>2, <1>25 DEF ReadMapping, Serializing
  <2>4. serializing' \in [Threads -> Serializing]
    BY <2>3, <1>25 DEF ReadMapping
  <2>5. QED
    BY <1>25, <2>1, <2>2, <2>3, <2>4 DEF ReadMapping
<1>26. ASSUME NEW t \in Threads, NEW id \in MissingIds(t), EmptyReport(t, id)
      PROVE  TypeOK'
  <2>1. serializedCoverage' \in Seq(Reports)
    BY <1>26 DEF EmptyReport, Reports, MissingIds, Serializing
  <2>2. serializedCoverageThreadIds' \in SUBSET Int
    BY <1>26 DEF EmptyReport, MissingIds, Serializing
  <2>3. QED
    BY <1>26, <2>1, <2>2 DEF EmptyReport
<1>27. ASSUME NEW t \in Threads, SerializeReports(t)
      PROVE  TypeOK'
  <2>1. pc' \in [Threads -> Labels]
    BY <1>27 DEF SerializeReports, Labels
  <2>2. histories' \in Seq(ClientHistories)
    BY <1>27 DEF SerializeReports, DeliveredHistory, Serializing, ClientHistories
  <2>3. trackedCoverage' \in [Threads -> Histories \cup {None}]
    BY <1>27 DEF SerializeReports
  <2>4. serializedCoverage' \in Seq(Reports)
    BY <1>27 DEF SerializeReports
  <2>5. collectedMethodsMutex' = None /\ serializedCoverageMutex' = None
    BY <1>27 DEF SerializeReports
  <2>6. UNCHANGED <<trackerVars, collectedMethods, visitedVars, serializedCoverageThreadIds,
                    localVars, crashed, depth, ran, published>>
    BY <1>27 DEF SerializeReports
  <2>7. QED
    BY <2>1, <2>2, <2>3, <2>4, <2>5, <2>6
<1>28. ASSUME NEW t \in Threads, ClearCoverage(t)
      PROVE  TypeOK'
  <2>1. pc' \in [Threads -> Labels]
    BY <1>28 DEF ClearCoverage, Labels
  <2>2. QED
    BY <1>28, <2>1 DEF ClearCoverage
<1>29. ASSUME NEW t \in Threads, ClearMapping(t)
      PROVE  TypeOK'
  <2>1. pc' \in [Threads -> Labels]
    BY <1>29 DEF ClearMapping, Labels
  <2>2. QED
    BY <1>29, <2>1 DEF ClearMapping
<1>30. ASSUME NEW t \in Threads, ClearBalances(t)
      PROVE  TypeOK'
  <2>1. pc' \in [Threads -> Labels]
    BY <1>30 DEF ClearBalances, Labels
  <2>2. QED
    BY <1>30, <2>1 DEF ClearBalances
<1>31. CASE UNCHANGED vars
  BY <1>31 DEF vars
<1>32. QED
  BY <1>1, <1>2, <1>3, <1>4, <1>5, <1>6, <1>7, <1>8, <1>9, <1>10, <1>11, <1>12,
     <1>13, <1>14, <1>15, <1>16, <1>17, <1>18, <1>19, <1>20, <1>21, <1>22, <1>23,
     <1>24, <1>25, <1>26, <1>27, <1>28, <1>29, <1>30, <1>31
     DEF Next, Request, Work, ProbeStep, FinishStep, SerializeStep

(* The initial values have their types. *)
LEMMA TypeInit == Init => TypeOK
<1> SUFFICES ASSUME Init
             PROVE  TypeOK
  OBVIOUS
<1> USE DEF Init
<1>1. pc \in [Threads -> Labels]
  BY DEF Labels
<1>2. probe \in [Threads -> Probes]
  BY DEF Probes
<1>3. finishing \in [Threads -> Finishing]
  BY DEF Finishing, NoHistory, Histories
<1>4. serializing \in [Threads -> Serializing]
  BY DEF Serializing
<1>5. /\ serializedCoverage \in Seq(Reports) /\ histories \in Seq(ClientHistories)
      /\ ran \in [Threads -> Seq(SUBSET Nat)]
  OBVIOUS
<1>6. /\ threadIdMapping \in [Threads -> Int \cup {None}]
      /\ stackBalances \in [Threads -> Int \cup {None}]
      /\ trackedCoverage \in [Threads -> Histories \cup {None}]
      /\ depth \in [Threads -> Int] /\ published \in [Threads -> Nat]
  OBVIOUS
<1>7. QED
  BY <1>1, <1>2, <1>3, <1>4, <1>5, <1>6 DEF TypeOK

(* TypeOK holds in every reachable state: the entries of the storages, the *)
(* locals of every callback and the reports have their types, crashed or   *)
(* not.                                                                    *)
THEOREM TypeCorrect == Spec => []TypeOK
<1>1. TypeOK /\ [Next]_vars => TypeOK'
  BY TypeStep
<1>2. QED
  BY TypeInit, <1>1, PTL DEF Spec

-----------------------------------------------------------------------------
(* The method table of a history: the parts of DictionaryInv, one by one.  *)

(* Every step keeps MutexesHeld: a mutex is held where the code is inside  *)
(* the block it guards.                                                    *)
LEMMA MutexStep ==
  ASSUME TypeOK, MutexesHeld, [Next]_vars
  PROVE  MutexesHeld'
<1> USE ReportsAssumption DEF Step, At, Goto, trackerVars, methodVars, visitedVars,
            reportVars, localVars, ghostVars
<1>a. pc \in [Threads -> Labels] /\ None \notin Threads
  BY DEF TypeOK
<1>1. ASSUME NEW t \in Threads, Request(t)
      PROVE  MutexesHeld'
  BY <1>a, <1>1 DEF Request, SetCurrentThreadId, CollectMethod, EnterMain, Cover, LeaveMain, GetHistory,MutexesHeld
<1>2. ASSUME NEW t \in Threads, ProbeStep(t)
      PROVE  MutexesHeld'
  <2>1. probe[t].after \in {"idle", "down"}
    BY DEF TypeOK, Probes
  <2> QED BY <1>a,<2>1, <1>2 DEF ProbeStep, TrackCurrentThread, StackBalanceUp, StackBalanceDown,
     AddEnterMain, AddCoverage, StackBalance, MutexesHeld
<1>3. ASSUME NEW t \in Threads, FinishStep(t)
      PROVE  MutexesHeld'
  BY <1>a, <1>3 DEF FinishStep, LoadCoverage, HasMapping, LoadMapping, LockVisited, InsertVisited,
    RemoveCoverage, PushReport, RemoveBalance, RemoveMapping, StackBalance, MutexesHeld
<1>4. ASSUME NEW t \in Threads, SerializeStep(t)
      PROVE  MutexesHeld'
  <2>1. CASE LockCollected(t) \/ LockSerialized(t) \/ EndOfMethods(t) \/ SerializeReports(t)
    BY <1>a, <2>1 DEF LockCollected, LockSerialized, EndOfMethods, SerializeReports, MutexesHeld
  <2>2. CASE SerializeMethod(t) \/ ReadMapping(t) \/ (\E id \in MissingIds(t) : EmptyReport(t, id))
    BY <1>a, <2>2 DEF SerializeMethod, ReadMapping, EmptyReport, MutexesHeld
  <2>3. CASE ClearCoverage(t) \/ ClearMapping(t) \/ ClearBalances(t)
    BY <1>a, <2>3 DEF ClearCoverage, ClearMapping, ClearBalances, MutexesHeld
  <2>4. QED
    BY <1>4, <2>1, <2>2, <2>3 DEF SerializeStep
<1>5. CASE UNCHANGED vars
  BY <1>5 DEF vars,MutexesHeld
<1>6. QED
  BY <1>1, <1>2, <1>3, <1>4, <1>5 DEF Next, Work, MutexesHeld

(* Methods are collected and never forgotten. *)
LEMMA MethodIdsStep ==
  ASSUME TypeOK, [Next]_vars
  PROVE  MethodIds \subseteq MethodIds'
<1>0. collectedMethods \in Nat
  BY DEF TypeOK
<1>1. collectedMethods' \in {collectedMethods, collectedMethods + 1}
  <2>1. ASSUME NEW t \in Threads, Request(t)
        PROVE  collectedMethods' \in {collectedMethods, collectedMethods + 1}
    BY <2>1 DEF Request, SetCurrentThreadId, CollectMethod, EnterMain, Cover, LeaveMain,
                GetHistory, methodVars
  <2>2. ASSUME NEW t \in Threads, ProbeStep(t)
        PROVE  collectedMethods' = collectedMethods
    BY <2>2 DEF ProbeStep, TrackCurrentThread, StackBalanceUp, StackBalanceDown,
                AddEnterMain, AddCoverage, StackBalance, methodVars
  <2>3. ASSUME NEW t \in Threads, FinishStep(t)
        PROVE  collectedMethods' = collectedMethods
    BY <2>3 DEF FinishStep, LoadCoverage, HasMapping, LoadMapping, LockVisited,
                InsertVisited, RemoveCoverage, PushReport, RemoveBalance, RemoveMapping,
                StackBalance, methodVars
  <2>4. ASSUME NEW t \in Threads, SerializeStep(t)
        PROVE  collectedMethods' = collectedMethods
    BY <2>4 DEF SerializeStep, LockCollected, LockSerialized, SerializeMethod,
                EndOfMethods, ReadMapping, EmptyReport, SerializeReports, ClearCoverage,
                ClearMapping, ClearBalances, methodVars
  <2>5. QED
    BY <2>1, <2>2, <2>3, <2>4 DEF Next, Work, vars
<1>2. MethodIds \subseteq MethodIds'
  <2>1. CASE collectedMethods' = collectedMethods
    BY <2>1 DEF MethodIds
  <2>2. CASE collectedMethods' = collectedMethods + 1
    BY <1>0, <2>2 DEF MethodIds
  <2>3. QED
    BY <1>1, <2>1, <2>2
<1>3. QED
  BY <1>2

(* addCoverage marks the method of the record it adds.                     *)
LEMMA ClosedHistory ==
  ASSUME TypeOK, NEW t \in Threads, NEW m \in MethodIds
  PROVE  /\ Closed(NewHistory(t, m), MethodIds)
         /\ \A h \in Histories :
              Closed(h, MethodIds) => Closed(Extended(h, t, m), MethodIds)
BY DEF Closed, NewHistory, Extended, MethodsOf

(* Every step keeps HistoriesClosed: the records of a history mention      *)
(* methods that are collected and marked in the history.                   *)
LEMMA HistoriesStep ==
  ASSUME TypeOK, HistoriesClosed, [Next]_vars
  PROVE  HistoriesClosed'
<1> USE DEF Step, At, Goto, trackerVars, methodVars, visitedVars,
            reportVars, localVars, ghostVars
<1> DEFINE P(t) == pc[t] \in {"track", "up", "enterMain", "append"} => probe[t].method \in MethodIds
           C(t) == trackedCoverage[t] # None => Closed(trackedCoverage[t], MethodIds)
           F(t) == Closed(finishing[t].history, MethodIds)
<1>1. \A t \in Threads : P(t)'
  <2>1. MethodIds \subseteq MethodIds'
    BY MethodIdsStep
  <2>2. ASSUME NEW t \in Threads, Request(t)
        PROVE  \A u \in Threads : P(u)'
    <3>1. ASSUME NEW m \in MethodIds, EnterMain(t, m) \/ Cover(t, m) \/ LeaveMain(t, m)
          PROVE  \A u \in Threads : P(u)'
      <4>1. MethodIds' = MethodIds
        BY <3>1 DEF EnterMain, Cover, LeaveMain, MethodIds
      <4>2. \A u \in Threads : probe'[u].method = IF u = t THEN m ELSE probe[u].method
        BY <3>1 DEF EnterMain, Cover, LeaveMain, CallProbe, TypeOK
      <4>3. \A u \in Threads : u # t => pc'[u] = pc[u]
        BY <3>1 DEF EnterMain, Cover, LeaveMain, TypeOK
      <4>4. QED
        BY <4>1, <4>2, <4>3 DEF HistoriesClosed
    <3>2. QED
      BY <2>1, <2>2, <3>1 DEF Request, SetCurrentThreadId, CollectMethod,
         GetHistory, HistoriesClosed, TypeOK
  <2>3. ASSUME NEW t \in Threads, ProbeStep(t)
        PROVE  \A u \in Threads : P(u)'
    BY <2>1, <2>3 DEF ProbeStep, TrackCurrentThread, StackBalanceUp, StackBalanceDown,
                AddEnterMain, AddCoverage, StackBalance, HistoriesClosed, TypeOK, Probes
  <2>4. ASSUME NEW t \in Threads, FinishStep(t)
        PROVE  \A u \in Threads : P(u)'
    <3>1. CASE LoadCoverage(t)
      BY <2>1, <3>1 DEF LoadCoverage, HistoriesClosed, TypeOK
    <3>2. CASE HasMapping(t) \/ LoadMapping(t) \/ LockVisited(t)
      BY <2>1, <3>2 DEF HasMapping, LoadMapping, LockVisited, HistoriesClosed, TypeOK
    <3>3. CASE InsertVisited(t) \/ RemoveCoverage(t) \/ PushReport(t)
      BY <2>1, <3>3 DEF InsertVisited, RemoveCoverage, PushReport, HistoriesClosed, TypeOK
    <3>4. CASE RemoveBalance(t) \/ RemoveMapping(t)
      BY <2>1, <3>4 DEF RemoveBalance, RemoveMapping, StackBalance, HistoriesClosed, TypeOK
    <3>5. QED
      BY <2>4, <3>1, <3>2, <3>3, <3>4 DEF FinishStep
  <2>5. ASSUME NEW t \in Threads, SerializeStep(t)
        PROVE  \A u \in Threads : P(u)'
    <3>1. CASE LockCollected(t) \/ LockSerialized(t) \/ EndOfMethods(t) \/ SerializeReports(t)
      BY <2>1, <3>1 DEF LockCollected, LockSerialized, EndOfMethods, SerializeReports,
                  HistoriesClosed, TypeOK
    <3>2. CASE SerializeMethod(t) \/ ReadMapping(t) \/ (\E id \in MissingIds(t) : EmptyReport(t, id))
      BY <2>1, <3>2 DEF SerializeMethod, ReadMapping, EmptyReport, HistoriesClosed, TypeOK
    <3>3. CASE ClearCoverage(t) \/ ClearMapping(t) \/ ClearBalances(t)
      BY <2>1, <3>3 DEF ClearCoverage, ClearMapping, ClearBalances, HistoriesClosed, TypeOK
    <3>4. QED
      BY <2>5, <3>1, <3>2, <3>3 DEF SerializeStep
  <2>6. QED
    BY <2>1, <2>2, <2>3, <2>4, <2>5 DEF Next, Work, vars, HistoriesClosed
<1>2. \A t \in Threads : C(t)'
  <2>1. \A h : Closed(h, MethodIds) => Closed(h, MethodIds')
    BY MethodIdsStep DEF Closed
  <2>2. ASSUME NEW t \in Threads, AddEnterMain(t) \/ AddCoverage(t)
        PROVE  \A u \in Threads : C(u)'
    <3>1. MethodIds' = MethodIds
      BY <2>2 DEF AddEnterMain, AddCoverage, MethodIds
    <3>2. probe[t].method \in MethodIds
      BY <2>2 DEF AddEnterMain, AddCoverage, HistoriesClosed
    <3>3. trackedCoverage[t] # None => trackedCoverage[t] \in Histories
      BY DEF TypeOK
    <3>4. trackedCoverage'[t] # None => Closed(trackedCoverage'[t], MethodIds)
      BY <2>2, <3>2, <3>3, ClosedHistory DEF AddEnterMain, AddCoverage, HistoriesClosed, TypeOK
    <3>5. \A u \in Threads : u # t => trackedCoverage'[u] = trackedCoverage[u]
      BY <2>2 DEF AddEnterMain, AddCoverage, TypeOK
    <3>6. QED
      BY <3>1, <3>4, <3>5 DEF HistoriesClosed
  <2>3. ASSUME NEW t \in Threads,
               RemoveCoverage(t) \/ SerializeReports(t) \/ ClearCoverage(t)
        PROVE  \A u \in Threads : C(u)'
    <3>1. \A u \in Threads : trackedCoverage'[u] \in {None, trackedCoverage[u]}
      BY <2>3 DEF RemoveCoverage, SerializeReports, ClearCoverage, TypeOK
    <3>2. QED
      BY <2>1, <3>1 DEF HistoriesClosed
  <2>4. ASSUME trackedCoverage' = trackedCoverage
        PROVE  \A u \in Threads : C(u)'
    BY <2>1, <2>4 DEF HistoriesClosed
  <2>5. ASSUME NEW t \in Threads, Request(t)
        PROVE  trackedCoverage' = trackedCoverage
    BY <2>5 DEF Request, SetCurrentThreadId, CollectMethod, EnterMain, Cover, LeaveMain,
                GetHistory
  <2>6. ASSUME NEW t \in Threads, ProbeStep(t)
        PROVE  \/ AddEnterMain(t) \/ AddCoverage(t)
               \/ trackedCoverage' = trackedCoverage
    BY <2>6 DEF ProbeStep, TrackCurrentThread, StackBalanceUp, StackBalanceDown, StackBalance
  <2>7. ASSUME NEW t \in Threads, FinishStep(t)
        PROVE  RemoveCoverage(t) \/ trackedCoverage' = trackedCoverage
    BY <2>7 DEF FinishStep, LoadCoverage, HasMapping, LoadMapping, LockVisited,
                InsertVisited, PushReport, RemoveBalance, RemoveMapping, StackBalance
  <2>8. ASSUME NEW t \in Threads, SerializeStep(t)
        PROVE  \/ SerializeReports(t) \/ ClearCoverage(t)
               \/ trackedCoverage' = trackedCoverage
    BY <2>8 DEF SerializeStep, LockCollected, LockSerialized, SerializeMethod, EndOfMethods,
                ReadMapping, EmptyReport, ClearMapping, ClearBalances
  <2>9. QED
    BY <2>2, <2>3, <2>4, <2>5, <2>6, <2>7, <2>8 DEF Next, Work, vars
<1>3. \A t \in Threads : F(t)'
  <2>1. \A h : Closed(h, MethodIds) => Closed(h, MethodIds')
    BY MethodIdsStep DEF Closed
  <2>2. ASSUME NEW t \in Threads, LoadCoverage(t)
        PROVE  \A u \in Threads :
                 \/ finishing'[u].history = finishing[u].history
                 \/ /\ trackedCoverage[u] # None
                    /\ finishing'[u].history = trackedCoverage[u]
    <3>1. CASE trackedCoverage[t] = None
      BY <2>2, <3>1 DEF LoadCoverage
    <3>2. CASE trackedCoverage[t] # None
      <4>1. finishing' = [finishing EXCEPT ![t] = [id |-> 0, history |-> trackedCoverage[t]]]
        BY <2>2, <3>2 DEF LoadCoverage
      <4>2. finishing \in [Threads -> Finishing]
        BY DEF TypeOK
      <4>3. QED
        BY <3>2, <4>1, <4>2
    <3>3. QED
      BY <3>1, <3>2
  <2>3. ASSUME NEW t \in Threads, LoadMapping(t)
        PROVE  \A u \in Threads : finishing'[u].history = finishing[u].history
    BY <2>3 DEF LoadMapping, TypeOK, Finishing
  <2>4. ASSUME NEW t \in Threads, Request(t)
        PROVE  finishing' = finishing
    BY <2>4 DEF Request, SetCurrentThreadId, CollectMethod, EnterMain, Cover, LeaveMain,
                GetHistory
  <2>5. ASSUME NEW t \in Threads, ProbeStep(t)
        PROVE  finishing' = finishing
    BY <2>5 DEF ProbeStep, TrackCurrentThread, StackBalanceUp, StackBalanceDown,
                AddEnterMain, AddCoverage, StackBalance
  <2>6. ASSUME NEW t \in Threads, FinishStep(t)
        PROVE  LoadCoverage(t) \/ LoadMapping(t) \/ finishing' = finishing
    BY <2>6 DEF FinishStep, HasMapping, LockVisited, InsertVisited, RemoveCoverage,
                PushReport, RemoveBalance, RemoveMapping, StackBalance
  <2>7. ASSUME NEW t \in Threads, SerializeStep(t)
        PROVE  finishing' = finishing
    BY <2>7 DEF SerializeStep, LockCollected, LockSerialized, SerializeMethod, EndOfMethods,
                ReadMapping, EmptyReport, SerializeReports, ClearCoverage, ClearMapping,
                ClearBalances
  <2>8. \A u \in Threads :
                 \/ finishing'[u].history = finishing[u].history
                 \/ /\ trackedCoverage[u] # None
                    /\ finishing'[u].history = trackedCoverage[u]
    BY <2>2, <2>3, <2>4, <2>5, <2>6, <2>7 DEF Next, Work, vars
  <2>9. QED
    BY <2>1, <2>8 DEF HistoriesClosed
<1>4. QED
  BY <1>1, <1>2, <1>3 DEF HistoriesClosed

(* Which steps change the waiting reports and the delivered histories. *)
LEMMA ReportsFrame ==
  ASSUME [Next]_vars
  PROVE  \/ UNCHANGED <<serializedCoverage, histories, published>>
         \/ \E t \in Threads : PushReport(t) \/ SerializeReports(t)
         \/ \E t \in Threads : \E id \in MissingIds(t) : EmptyReport(t, id)
<1> USE DEF reportVars, ghostVars
<1>1. ASSUME NEW t \in Threads, Request(t)
      PROVE  UNCHANGED <<serializedCoverage, histories, published>>
  BY <1>1 DEF Request, SetCurrentThreadId, CollectMethod, EnterMain, Cover, LeaveMain,
              GetHistory
<1>2. ASSUME NEW t \in Threads, ProbeStep(t)
      PROVE  UNCHANGED <<serializedCoverage, histories, published>>
  BY <1>2 DEF ProbeStep, TrackCurrentThread, StackBalanceUp, StackBalanceDown,
              AddEnterMain, AddCoverage, StackBalance
<1>3. ASSUME NEW t \in Threads, FinishStep(t)
      PROVE  PushReport(t) \/ UNCHANGED <<serializedCoverage, histories, published>>
  BY <1>3 DEF FinishStep, LoadCoverage, HasMapping, LoadMapping, LockVisited, InsertVisited,
              RemoveCoverage, RemoveBalance, RemoveMapping, StackBalance
<1>4. ASSUME NEW t \in Threads, SerializeStep(t)
      PROVE  \/ UNCHANGED <<serializedCoverage, histories, published>>
             \/ SerializeReports(t)
             \/ \E id \in MissingIds(t) : EmptyReport(t, id)
  BY <1>4 DEF SerializeStep, LockCollected, LockSerialized, SerializeMethod, EndOfMethods,
              ReadMapping, ClearCoverage, ClearMapping, ClearBalances
<1>5. QED
  BY <1>1, <1>2, <1>3, <1>4 DEF Next, Work, vars

(* The methods of waiting reports are added with a report and go with all. *)
LEMMA WaitingStep ==
  ASSUME TypeOK, NEW t \in Threads
  PROVE  /\ serializedCoverage' = serializedCoverage => WaitingMethods' = WaitingMethods
         /\ PushReport(t) =>
              WaitingMethods' \subseteq WaitingMethods \cup MethodsOf(finishing[t].history.records)
         /\ \A id \in MissingIds(t) : EmptyReport(t, id) => WaitingMethods' \subseteq WaitingMethods
         /\ SerializeReports(t) => WaitingMethods' = {}
<1>1. serializedCoverage' = serializedCoverage => WaitingMethods' = WaitingMethods
  BY DEF WaitingMethods
<1>2. ASSUME NEW r, r \in Reports, serializedCoverage' = Append(serializedCoverage, r)
      PROVE  WaitingMethods' \subseteq WaitingMethods \cup MethodsOf(r.records)
  <2>1. serializedCoverage \in Seq(Reports)
    BY DEF TypeOK
  <2>2. \A i \in 1..Len(serializedCoverage') :
          \/ i \in 1..Len(serializedCoverage) /\ serializedCoverage'[i] = serializedCoverage[i]
          \/ serializedCoverage'[i] = r
    BY <1>2, <2>1
  <2>3. QED
    BY <2>2 DEF WaitingMethods
<1>3. ASSUME PushReport(t)
      PROVE  WaitingMethods' \subseteq WaitingMethods \cup MethodsOf(finishing[t].history.records)
  <2> DEFINE r == [id |-> finishing[t].id, thread |-> t, serial |-> published[t] + 1,
                   records |-> finishing[t].history.records]
  <2>1. r \in Reports
    <3>1. finishing[t] \in Finishing /\ published[t] \in Nat
      BY DEF TypeOK
    <3>2. finishing[t].history.records \in SUBSET Records /\ finishing[t].id \in Int
      BY <3>1 DEF Finishing, Histories
    <3>3. QED
      BY <3>1, <3>2 DEF Reports
  <2>2. serializedCoverage' = Append(serializedCoverage, r)
    BY <1>3 DEF PushReport
  <2>3. QED
    BY <1>2, <2>1, <2>2
<1>4. ASSUME NEW id \in MissingIds(t), EmptyReport(t, id)
      PROVE  WaitingMethods' \subseteq WaitingMethods
  <2> DEFINE r == [id |-> id, thread |-> t, serial |-> 0, records |-> {}]
  <2>1. r \in Reports
    BY DEF TypeOK, Reports, MissingIds, Serializing
  <2>2. serializedCoverage' = Append(serializedCoverage, r)
    BY <1>4 DEF EmptyReport
  <2>3. QED
    BY <1>2, <2>1, <2>2 DEF MethodsOf
<1>5. SerializeReports(t) => WaitingMethods' = {}
  BY DEF SerializeReports, WaitingMethods
<1>6. QED
  BY <1>1, <1>3, <1>4, <1>5

(* Every step keeps VisitedBeforePushed: invocationFinished marks the       *)
(* methods before it pushes the report.                                    *)
LEMMA VisitedStep ==
  ASSUME TypeOK, HistoriesClosed, VisitedBeforePushed, [Next]_vars
  PROVE  VisitedBeforePushed'
<1> USE DEF Step, At, Goto, trackerVars, methodVars, visitedVars,
            reportVars, localVars, ghostVars
<1> DEFINE V(t) == pc[t] \in {"removeCoverage", "push"} =>
                     finishing[t].history.visitedMethods \subseteq visitedMethods
<1>1. \/ UNCHANGED visitedMethods
      \/ \E t \in Threads : InsertVisited(t)
  <2>1. ASSUME NEW t \in Threads, Request(t)
        PROVE  UNCHANGED visitedMethods
    BY <2>1 DEF Request, SetCurrentThreadId, CollectMethod, EnterMain, Cover, LeaveMain,
                GetHistory
  <2>2. ASSUME NEW t \in Threads, ProbeStep(t)
        PROVE  UNCHANGED visitedMethods
    BY <2>2 DEF ProbeStep, TrackCurrentThread, StackBalanceUp, StackBalanceDown,
                AddEnterMain, AddCoverage, StackBalance
  <2>3. ASSUME NEW t \in Threads, FinishStep(t)
        PROVE  InsertVisited(t) \/ UNCHANGED visitedMethods
    BY <2>3 DEF FinishStep, LoadCoverage, HasMapping, LoadMapping, LockVisited,
                RemoveCoverage, PushReport, RemoveBalance, RemoveMapping, StackBalance
  <2>4. ASSUME NEW t \in Threads, SerializeStep(t)
        PROVE  UNCHANGED visitedMethods
    BY <2>4 DEF SerializeStep, LockCollected, LockSerialized, SerializeMethod, EndOfMethods,
                ReadMapping, EmptyReport, SerializeReports, ClearCoverage, ClearMapping,
                ClearBalances
  <2>5. QED
    BY <2>1, <2>2, <2>3, <2>4 DEF Next, Work, vars
<1>2. visitedMethods \subseteq visitedMethods'
  BY <1>1 DEF InsertVisited
<1>3. visitedMethods' \subseteq MethodIds'
  <2>1. ASSUME NEW t \in Threads, InsertVisited(t)
        PROVE  visitedMethods' \subseteq MethodIds
    BY <2>1 DEF InsertVisited, HistoriesClosed, Closed, VisitedBeforePushed
  <2>2. QED
    BY <1>1, <2>1, MethodIdsStep DEF VisitedBeforePushed
<1>4. WaitingMethods' \subseteq visitedMethods'
  <2>1. ASSUME NEW t \in Threads, PushReport(t)
        PROVE  WaitingMethods' \subseteq visitedMethods
    BY <2>1, WaitingStep DEF PushReport, HistoriesClosed, Closed, VisitedBeforePushed
  <2>2. ASSUME NEW t \in Threads, NEW id \in MissingIds(t), EmptyReport(t, id)
        PROVE  WaitingMethods' \subseteq visitedMethods
    BY <2>2, WaitingStep DEF VisitedBeforePushed
  <2>3. ASSUME NEW t \in Threads, SerializeReports(t)
        PROVE  WaitingMethods' \subseteq visitedMethods
    BY <2>3, WaitingStep
  <2>4. ASSUME UNCHANGED serializedCoverage
        PROVE  WaitingMethods' \subseteq visitedMethods
    BY <2>4 DEF WaitingMethods, VisitedBeforePushed
  <2>5. QED
    BY <1>2, <2>1, <2>2, <2>3, <2>4, ReportsFrame
<1>5. \A u \in Threads : V(u)'
  <2>1. ASSUME NEW t \in Threads, Request(t)
        PROVE  \A u \in Threads : V(u)'
    BY <1>2, <2>1 DEF Request, SetCurrentThreadId, CollectMethod, EnterMain, Cover, LeaveMain,
                GetHistory, VisitedBeforePushed, TypeOK
  <2>2. ASSUME NEW t \in Threads, ProbeStep(t)
        PROVE  \A u \in Threads : V(u)'
    <3>1. probe[t].after \in {"idle", "down"}
      BY DEF TypeOK, Probes
    <3>2. QED
      BY <1>2, <2>2, <3>1 DEF ProbeStep, TrackCurrentThread, StackBalanceUp, StackBalanceDown,
                AddEnterMain, AddCoverage, StackBalance, VisitedBeforePushed, TypeOK
  <2>3. ASSUME NEW t \in Threads, FinishStep(t)
        PROVE  \A u \in Threads : V(u)'
    <3>1. CASE LoadCoverage(t)
      BY <1>2, <3>1 DEF LoadCoverage, VisitedBeforePushed, TypeOK
    <3>2. CASE HasMapping(t) \/ LoadMapping(t) \/ LockVisited(t)
      BY <1>2, <3>2 DEF HasMapping, LoadMapping, LockVisited, VisitedBeforePushed, TypeOK
    <3>3. CASE InsertVisited(t)
      BY <1>2, <3>3 DEF InsertVisited, VisitedBeforePushed, TypeOK
    <3>4. CASE RemoveCoverage(t) \/ PushReport(t)
      BY <1>2, <3>4 DEF RemoveCoverage, PushReport, VisitedBeforePushed, TypeOK
    <3>5. CASE RemoveBalance(t) \/ RemoveMapping(t)
      BY <1>2, <3>5 DEF RemoveBalance, RemoveMapping, StackBalance, VisitedBeforePushed, TypeOK
    <3>6. QED
      BY <2>3, <3>1, <3>2, <3>3, <3>4, <3>5 DEF FinishStep
  <2>4. ASSUME NEW t \in Threads, SerializeStep(t)
        PROVE  \A u \in Threads : V(u)'
    <3>1. CASE LockCollected(t) \/ LockSerialized(t) \/ EndOfMethods(t) \/ SerializeReports(t)
      BY <1>2, <3>1 DEF LockCollected, LockSerialized, EndOfMethods, SerializeReports,
                  VisitedBeforePushed, TypeOK
    <3>2. CASE SerializeMethod(t) \/ ReadMapping(t) \/ (\E id \in MissingIds(t) : EmptyReport(t, id))
      BY <1>2, <3>2 DEF SerializeMethod, ReadMapping, EmptyReport, VisitedBeforePushed, TypeOK
    <3>3. CASE ClearCoverage(t) \/ ClearMapping(t) \/ ClearBalances(t)
      BY <1>2, <3>3 DEF ClearCoverage, ClearMapping, ClearBalances, VisitedBeforePushed, TypeOK
    <3>4. QED
      BY <2>4, <3>1, <3>2, <3>3 DEF SerializeStep
  <2>5. QED
    BY <2>1, <2>2, <2>3, <2>4 DEF Next, Work, vars, VisitedBeforePushed
<1>6. QED
  BY <1>3, <1>4, <1>5 DEF VisitedBeforePushed

(* Every step keeps ScanIsComplete: no report is pushed behind the loop of *)
(* serializeCoverageReport over the collected methods.                     *)
LEMMA ScanStep ==
  ASSUME TypeOK, MutexesHeld, VisitedBeforePushed, ScanIsComplete, [Next]_vars
  PROVE  ScanIsComplete'
<1> USE DEF Step, At, Goto, trackerVars, methodVars, visitedVars,
            reportVars, localVars, ghostVars
<1> DEFINE Found(u) == pc[u] \in {"methods", "mapping", "report"} /\ ~serializing[u].torn =>
                         \A m \in WaitingMethods :
                           m < serializing[u].next => m \in serializing[u].methods
           Ended(u) == pc[u] \in {"mapping", "report"} => serializing[u].next = collectedMethods
<1>1. ASSUME NEW u \in Threads
      PROVE  Found(u) /\ Ended(u)
  BY DEF ScanIsComplete
<1>2. ASSUME NEW t \in Threads, Request(t) \/ ProbeStep(t)
      PROVE  \A u \in Threads : Found(u)' /\ Ended(u)'
  <2>1. WaitingMethods' = WaitingMethods /\ serializing' = serializing
    BY <1>2 DEF Request, SetCurrentThreadId, CollectMethod, EnterMain, Cover, LeaveMain,
                GetHistory, ProbeStep, TrackCurrentThread, StackBalanceUp, StackBalanceDown,
                AddEnterMain, AddCoverage, StackBalance, WaitingMethods
  <2>2. \A u \in Threads : pc'[u] \in {"methods", "mapping", "report"} => pc[u] = pc'[u]
    <3>1. probe[t].after \in {"idle", "down"}
      BY DEF TypeOK, Probes
    <3>2. QED
      BY <1>2, <3>1 DEF Request, SetCurrentThreadId, CollectMethod, EnterMain, Cover, LeaveMain,
                GetHistory, ProbeStep, TrackCurrentThread, StackBalanceUp, StackBalanceDown,
                AddEnterMain, AddCoverage, StackBalance, TypeOK
  <2>3. \A u \in Threads : pc[u] \in {"mapping", "report"} => collectedMethods' = collectedMethods
    BY <1>2, ReportsAssumption DEF Request, SetCurrentThreadId, CollectMethod, EnterMain, Cover, LeaveMain,
                GetHistory, ProbeStep, TrackCurrentThread, StackBalanceUp, StackBalanceDown,
                AddEnterMain, AddCoverage, StackBalance, MutexesHeld
  <2>4. QED
    BY <1>1, <2>1, <2>2, <2>3
<1>3. ASSUME NEW t \in Threads, FinishStep(t)
      PROVE  \A u \in Threads : Found(u)' /\ Ended(u)'
  <2>1. serializing' = serializing /\ collectedMethods' = collectedMethods
    BY <1>3 DEF FinishStep, LoadCoverage, HasMapping, LoadMapping, LockVisited,
                InsertVisited, RemoveCoverage, PushReport, RemoveBalance, RemoveMapping,
                StackBalance
  <2>2. \A u \in Threads : pc'[u] \in {"methods", "mapping", "report"} => pc[u] = pc'[u]
    BY <1>3 DEF FinishStep, LoadCoverage, HasMapping, LoadMapping, LockVisited,
                InsertVisited, RemoveCoverage, PushReport, RemoveBalance, RemoveMapping,
                StackBalance, TypeOK
  <2>3. \/ WaitingMethods' = WaitingMethods
        \/ \A u \in Threads : pc[u] \notin {"methods", "mapping", "report"}
    BY <1>3, ReportsAssumption
       DEF FinishStep, LoadCoverage, HasMapping, LoadMapping, LockVisited,
           InsertVisited, RemoveCoverage, PushReport, RemoveBalance, RemoveMapping,
           StackBalance, MutexesHeld, WaitingMethods
  <2>4. QED
    BY <1>1, <2>1, <2>2, <2>3
<1>4. ASSUME NEW t \in Threads, SerializeStep(t)
      PROVE  \A u \in Threads : Found(u)' /\ Ended(u)'
  <2>1. collectedMethods' = collectedMethods
    BY <1>4 DEF SerializeStep, LockCollected, LockSerialized, SerializeMethod, EndOfMethods,
                ReadMapping, EmptyReport, SerializeReports, ClearCoverage, ClearMapping,
                ClearBalances
  <2>2. WaitingMethods' \subseteq WaitingMethods
    BY <1>4, WaitingStep
       DEF SerializeStep, LockCollected, LockSerialized, SerializeMethod, EndOfMethods,
           ReadMapping, ClearCoverage, ClearMapping, ClearBalances
  <2>3. \A u \in Threads : u # t => pc'[u] = pc[u] /\ serializing'[u] = serializing[u]
    BY <1>4 DEF SerializeStep, LockCollected, LockSerialized, SerializeMethod, EndOfMethods,
                ReadMapping, EmptyReport, SerializeReports, ClearCoverage, ClearMapping,
                ClearBalances, TypeOK
  <2>4. Found(t)' /\ Ended(t)'
    <3>1. CASE LockSerialized(t)
      <4>1. pc'[t] = "methods" /\ serializing'[t].next = 0
        BY <3>1 DEF LockSerialized, TypeOK
      <4>2. \A m \in WaitingMethods' : m \in Nat
        BY <2>2 DEF VisitedBeforePushed, TypeOK
      <4>3. QED
        BY <4>1, <4>2
    <3>2. CASE SerializeMethod(t)
      <4>1. PICK found \in BOOLEAN :
              /\ Racing \/ (found <=> serializing[t].next \in visitedMethods)
              /\ serializing' = [serializing EXCEPT ![t] = Examined(serializing[t], found)]
        BY <3>2 DEF SerializeMethod
      <4>2. pc'[t] = "methods" /\ pc[t] = "methods" /\ WaitingMethods' = WaitingMethods
        BY <3>2 DEF SerializeMethod, WaitingMethods
      <4>3. serializing'[t] = Examined(serializing[t], found)
        BY <4>1 DEF TypeOK
      <4>4. serializing[t].next \in Nat
        BY DEF TypeOK, Serializing
      <4>5. \A m \in WaitingMethods : m \in Nat /\ m \in visitedMethods
        BY DEF VisitedBeforePushed, TypeOK
      <4>6. ASSUME ~serializing'[t].torn, NEW m \in WaitingMethods, m < serializing'[t].next
            PROVE  m \in serializing'[t].methods
        <5>1. ~serializing[t].torn /\ ~Racing
          BY <4>3, <4>6, ExaminedTorn
        <5>2. m < serializing[t].next \/ m = serializing[t].next
          BY <4>3, <4>4, <4>5, <4>6 DEF Examined
        <5>3. QED
          BY <1>1, <4>1, <4>2, <4>3, <4>5, <5>1, <5>2 DEF Examined
      <4>7. QED
        BY <4>2, <4>6
    <3>3. CASE EndOfMethods(t)
      BY <1>1, <2>1, <2>2, <3>3 DEF EndOfMethods, TypeOK
    <3>4. CASE ReadMapping(t)
      <4>1. pc[t] = "mapping" /\ pc'[t] = "report"
        BY <3>4 DEF ReadMapping, TypeOK
      <4>2. /\ serializing'[t].next = serializing[t].next
            /\ serializing'[t].methods = serializing[t].methods
            /\ serializing'[t].torn = serializing[t].torn
        BY <3>4 DEF ReadMapping, TypeOK, Serializing
      <4>3. QED
        BY <1>1, <2>1, <2>2, <4>1, <4>2
    <3>5. CASE \E id \in MissingIds(t) : EmptyReport(t, id)
      BY <1>1, <2>1, <2>2, <3>5 DEF EmptyReport
    <3>6. CASE \/ LockCollected(t) \/ SerializeReports(t)
               \/ ClearCoverage(t) \/ ClearMapping(t) \/ ClearBalances(t)
      BY <3>6 DEF LockCollected, SerializeReports, ClearCoverage, ClearMapping,
                  ClearBalances, TypeOK
    <3>7. QED
      BY <1>4, <3>1, <3>2, <3>3, <3>4, <3>5, <3>6 DEF SerializeStep
  <2>5. QED
    BY <1>1, <2>1, <2>2, <2>3, <2>4
<1>5. CASE UNCHANGED vars
  BY <1>1, <1>5 DEF vars, ScanIsComplete, WaitingMethods
<1>6. QED
  BY <1>2, <1>3, <1>4, <1>5 DEF Next, Work, ScanIsComplete

(* A history is delivered with the methods of its reports. *)
LEMMA ClosedStep ==
  ASSUME TypeOK, VisitedBeforePushed, ScanIsComplete, DictionaryClosed, [Next]_vars
  PROVE  DictionaryClosed'
<1>1. CASE histories' = histories
  BY <1>1 DEF DictionaryClosed
<1>2. ASSUME NEW t \in Threads, SerializeReports(t)
      PROVE  DictionaryClosed'
  <2> DEFINE new == [methods |-> serializing[t].methods, reports |-> serializedCoverage,
                     torn |-> serializing[t].torn, mapped |-> serializing[t].mapped]
  <2>1. histories' = Append(histories, new)
    BY <1>2 DEF SerializeReports, DeliveredHistory
  <2>2. ~new.torn => \A i \in 1..Len(new.reports) :
                       MethodsOf(new.reports[i].records) \subseteq new.methods
    <3>1. pc[t] = "report"
      BY <1>2 DEF SerializeReports, Step, At
    <3>2. WaitingMethods \subseteq 0..(serializing[t].next - 1)
      BY <3>1 DEF VisitedBeforePushed, ScanIsComplete, MethodIds
    <3>3. ~serializing[t].torn => WaitingMethods \subseteq serializing[t].methods
      <4>1. serializing[t].next \in Nat
        BY DEF TypeOK, Serializing
      <4>2. QED
        BY <3>1, <3>2, <4>1 DEF ScanIsComplete
    <3>4. QED
      BY <3>3 DEF WaitingMethods
  <2>3. \A h \in 1..Len(histories') :
          \/ h \in 1..Len(histories) /\ histories'[h] = histories[h]
          \/ histories'[h] = new
    BY SMTT(40), <2>1 DEF TypeOK
  <2>4. QED
    BY <2>2, <2>3 DEF DictionaryClosed
<1>3. QED
  BY <1>1, <1>2, ReportsFrame DEF PushReport, EmptyReport, ghostVars

(* The strengthened invariant holds, and with it the method table of every *)
(* delivered history resolves the records of its reports: for any number   *)
(* of threads, methods and requests, when no scan of the visited methods   *)
(* raced with an insertion.                                                *)
LEMMA DictionaryInvCorrect == Spec => []DictionaryInv
<1>1. Init => DictionaryInv
  BY ReportsAssumption
     DEF Init, DictionaryInv, MutexesHeld, HistoriesClosed, Closed, NoHistory, MethodsOf,
         VisitedBeforePushed, WaitingMethods, ScanIsComplete, DictionaryClosed
<1>2. TypeOK /\ DictionaryInv /\ [Next]_vars => DictionaryInv'
  BY MutexStep, HistoriesStep, VisitedStep, ScanStep, ClosedStep DEF DictionaryInv
<1>3. QED
  BY TypeCorrect, <1>1, <1>2, PTL DEF Spec

(* GetHistory's table of methods resolves the records of its reports.      *)
THEOREM DictionaryCorrect == Spec => []DictionaryClosed
<1>1. DictionaryInv => DictionaryClosed
  BY DEF DictionaryInv
<1>2. QED
  BY DictionaryInvCorrect, <1>1, PTL
-----------------------------------------------------------------------------
(* Exact reports.  Without Concurrent a report says what its invocation    *)
(* ran, because what clears the storages of all threads meets no thread    *)
(* between its first coverage point and its report.                        *)

(* The records of an invocation, by its number and the methods it ran. *)
Tagged(n, methods) == {<<n, m>> : m \in methods}

(* The records of the last invocation of a thread. *)
Latest(t) == Tagged(Len(ran[t]), ran[t][Len(ran[t])])

(* Outside main: nothing is stored for the thread, all it ran is reported. *)
Between(t) ==
  /\ depth[t] = 0 /\ published[t] = Len(ran[t])
  /\ stackBalances[t] = None /\ trackedCoverage[t] = None

(* In main: the last invocation, and no other, is still to be reported.     *)
Unreported(t) == depth[t] > 0 /\ Len(ran[t]) = published[t] + 1

Recorded(t) == trackedCoverage[t] # None /\ trackedCoverage[t].records = Latest(t)

(* The invocation began, and its first record is still to be made. *)
Begun(t) ==
  /\ Unreported(t) /\ depth[t] = 1
  /\ trackedCoverage[t] = None /\ ran[t][Len(ran[t])] = {probe[t].method}

(* The history was loaded to be reported. *)
Ending(t) ==
  /\ Unreported(t) /\ depth[t] = 1 /\ stackBalances[t] = 0
  /\ finishing[t].history.records = Latest(t)

(* What is known of a thread, by where it is in its callback. *)
ThreadExact(t) ==
  /\ (Collecting(t) \/ (pc[t] = "idle" /\ depth[t] = 0)) => Between(t)
  /\ (pc[t] = "idle" /\ depth[t] # 0) =>
       Unreported(t) /\ stackBalances[t] = depth[t] /\ Recorded(t)
  /\ pc[t] = "track"     => Begun(t) /\ stackBalances[t] = None
  /\ pc[t] = "up"        => Begun(t) /\ stackBalances[t] = 0
  /\ pc[t] = "enterMain" => Begun(t) /\ stackBalances[t] = 1
  /\ pc[t] = "recursive" => Unreported(t) /\ stackBalances[t] = depth[t] - 1 /\ depth[t] > 1 /\ Recorded(t)
  /\ pc[t] = "append" =>
       /\ Unreported(t) /\ stackBalances[t] = depth[t] /\ trackedCoverage[t] # None
       /\ trackedCoverage[t].records \cup {<<Len(ran[t]), probe[t].method>>} = Latest(t)
  /\ pc[t] = "down" => Unreported(t) /\ stackBalances[t] = depth[t] /\ Recorded(t)
  /\ pc[t] = "finish" => Unreported(t) /\ depth[t] = 1 /\ stackBalances[t] = 0 /\ Recorded(t)
  /\ pc[t] \in {"hasMapping", "loadMapping", "lockVisited", "insertVisited",
                "removeCoverage"} => Ending(t)
  /\ pc[t] = "push" => Ending(t) /\ trackedCoverage[t] = None
  /\ pc[t] \in {"untrack", "unmap"} =>
       /\ depth[t] = 1 /\ published[t] = Len(ran[t]) /\ trackedCoverage[t] = None
       /\ stackBalances[t] = IF pc[t] = "untrack" THEN 0 ELSE None

(* While a history is requested, no other thread is in a callback or main. *)
AloneCollecting ==
  \A t \in Threads : Collecting(t) =>
    \A u \in Threads \ {t} : pc[u] = "idle" /\ depth[u] = 0

(* A report names an invocation that ended, and says what it ran.          *)
Exact(report, ended, ranBy) ==
  report.serial > 0 =>
    /\ report.serial \in 1..ended[report.thread]
    /\ report.records = Tagged(report.serial, ranBy[report.thread][report.serial])

AllExact(reports, ended, ranBy) ==
  \A i \in 1..Len(reports) : Exact(reports[i], ended, ranBy)

ReportsExact ==
  /\ AllExact(serializedCoverage, published, ran)
  /\ \A h \in 1..Len(histories) : AllExact(histories[h].reports, published, ran)

ExactInv ==
  /\ ~crashed /\ AloneCollecting /\ ReportsExact
  /\ \A t \in Threads : ThreadExact(t)

(* Lemmas on tagged records and on what an invocation ran. *)

(* The first record of an invocation, and one record more. *)
LEMMA TaggedOne ==
  ASSUME NEW n, NEW m
  PROVE  Tagged(n, {m}) = {<<n, m>>}
BY DEF Tagged

LEMMA TaggedMore ==
  ASSUME NEW n, NEW S, NEW m
  PROVE  Tagged(n, S \cup {m}) = Tagged(n, S) \cup {<<n, m>>}
BY DEF Tagged

(* A coverage point outside main begins an invocation. *)
LEMMA RanBegins ==
  ASSUME TypeOK, NEW t \in Threads, NEW m \in Nat, Ran(t, m), depth[t] = 0
  PROVE  /\ Len(ran'[t]) = Len(ran[t]) + 1
         /\ ran'[t][Len(ran[t]) + 1] = {m}
         /\ \A i \in 1..Len(ran[t]) : ran'[t][i] = ran[t][i]
<1>1. ran \in [Threads -> Seq(SUBSET Nat)] /\ ran[t] \in Seq(SUBSET Nat)
  BY DEF TypeOK
<1>2. ran' = [ran EXCEPT ![t] = Append(ran[t], {m})]
  BY DEF Ran
<1>3. ran'[t] = Append(ran[t], {m})
  BY <1>1, <1>2
<1>4. QED
  BY <1>1, <1>3

(* A coverage point in main adds to the last invocation. *)
LEMMA RanContinues ==
  ASSUME TypeOK, NEW t \in Threads, NEW m \in Nat, Ran(t, m), depth[t] # 0, Len(ran[t]) > 0
  PROVE  /\ Len(ran'[t]) = Len(ran[t])
         /\ ran'[t][Len(ran[t])] = ran[t][Len(ran[t])] \cup {m}
         /\ \A i \in 1..(Len(ran[t]) - 1) : ran'[t][i] = ran[t][i]
<1> DEFINE s == ran[t]
           n == Len(s)
<1>1. ran \in [Threads -> Seq(SUBSET Nat)] /\ s \in Seq(SUBSET Nat)
  BY DEF TypeOK
<1>2. ran'[t] = [s EXCEPT ![n] = s[n] \cup {m}]
  <2>1. ran' = [ran EXCEPT ![t] = [s EXCEPT ![n] = s[n] \cup {m}]]
    BY DEF Ran
  <2>2. QED
    BY <1>1, <2>1
<1>3. n \in Nat /\ n > 0 /\ DOMAIN s = 1..n
  BY <1>1
<1> HIDE DEF s
<1>4. /\ DOMAIN ran'[t] = 1..n
      /\ ran'[t][n] = s[n] \cup {m}
      /\ \A i \in 1..(n - 1) : ran'[t][i] = s[i]
  BY <1>2, <1>3
<1>5. Len(ran'[t]) = n
  <2>1. ran'[t] \in Seq(SUBSET Nat)
    BY RanType DEF TypeOK
  <2>2. QED
    BY <1>3, <1>4, <2>1
<1>6. QED
  BY <1>4, <1>5 DEF s

(* The coverage points of a thread leave what other threads ran. *)
LEMMA RanOfOthers ==
  ASSUME TypeOK, NEW t \in Threads, NEW m, Ran(t, m), NEW u \in Threads, u # t
  PROVE  ran'[u] = ran[u]
BY DEF Ran, TypeOK

(* The variables a step of another thread leaves alone. *)
Kept(u) ==
  /\ pc'[u] = pc[u] /\ probe'[u] = probe[u] /\ finishing'[u] = finishing[u]
  /\ depth'[u] = depth[u] /\ stackBalances'[u] = stackBalances[u]
  /\ trackedCoverage'[u] = trackedCoverage[u]
  /\ ran'[u] = ran[u] /\ published'[u] = published[u]

(* A step of one thread leaves the rest of ThreadExact to the others: the  *)
(* steps that clear the storages of all threads find them empty.           *)
LEMMA OthersKept ==
  ASSUME TypeOK, AloneCollecting, \A v \in Threads : ThreadExact(v),
         NEW t \in Threads, Request(t) \/ Work(t),
         NEW u \in Threads, u # t
  PROVE  Kept(u)
<1> USE DEF TypeOK, Step, At, Goto, trackerVars, methodVars, visitedVars,
            reportVars, localVars, ghostVars
<1>1. ASSUME NEW id \in MapIds, SetCurrentThreadId(t, id)
      PROVE  Kept(u)
  BY <1>1 DEF SetCurrentThreadId, Kept
<1>2. CASE CollectMethod(t)
  BY <1>2 DEF CollectMethod, Kept
<1>3. ASSUME NEW m \in MethodIds, EnterMain(t, m) \/ Cover(t, m) \/ LeaveMain(t, m)
      PROVE  Kept(u)
  <2>1. ran'[u] = ran[u]
    BY <1>3, RanOfOthers DEF EnterMain, Cover, LeaveMain
  <2>2. CASE EnterMain(t, m)
    BY <2>1, <2>2 DEF EnterMain, Kept, CallProbe
  <2>3. CASE Cover(t, m)
    BY <2>1, <2>3 DEF Cover, Kept, CallProbe
  <2>4. CASE LeaveMain(t, m)
    BY <2>1, <2>4 DEF LeaveMain, Kept, CallProbe
  <2>5. QED
    BY <1>3, <2>2, <2>3, <2>4
<1>4. CASE GetHistory(t)
  BY <1>4 DEF GetHistory, Kept
<1>5. CASE ProbeStep(t)
  <2>1. CASE TrackCurrentThread(t)
    BY <2>1 DEF TrackCurrentThread, StackBalance, Kept
  <2>2. CASE StackBalanceUp(t)
    BY <2>2 DEF StackBalanceUp, StackBalance, Kept
  <2>3. CASE StackBalanceDown(t)
    BY <2>3 DEF StackBalanceDown, StackBalance, Kept
  <2>4. CASE AddEnterMain(t)
    BY <2>4 DEF AddEnterMain, Kept
  <2>5. CASE AddCoverage(t)
    BY <2>5 DEF AddCoverage, Kept
  <2>6. QED
    BY <1>5, <2>1, <2>2, <2>3, <2>4, <2>5 DEF ProbeStep
<1>6. CASE FinishStep(t)
  <2>1. CASE LoadCoverage(t)
    BY <2>1 DEF LoadCoverage, Kept
  <2>2. CASE HasMapping(t) \/ LockVisited(t) \/ InsertVisited(t)
    BY <2>2 DEF HasMapping, LockVisited, InsertVisited, Kept
  <2>3. CASE LoadMapping(t)
    BY <2>3 DEF LoadMapping, Kept
  <2>4. CASE RemoveCoverage(t)
    BY <2>4 DEF RemoveCoverage, Kept
  <2>5. CASE PushReport(t)
    BY <2>5 DEF PushReport, Kept
  <2>6. CASE RemoveBalance(t)
    BY <2>6 DEF RemoveBalance, StackBalance, Kept
  <2>7. CASE RemoveMapping(t)
    BY <2>7 DEF RemoveMapping, Kept
  <2>8. QED
    BY <1>6, <2>1, <2>2, <2>3, <2>4, <2>5, <2>6, <2>7 DEF FinishStep
<1>7. CASE SerializeStep(t)
  <2>1. Collecting(t)
    BY <1>7 DEF SerializeStep, Collecting, LockCollected, LockSerialized, SerializeMethod,
                EndOfMethods, ReadMapping, EmptyReport, SerializeReports, ClearCoverage,
                ClearMapping, ClearBalances
  <2>2. pc[u] = "idle" /\ depth[u] = 0
    BY <2>1 DEF AloneCollecting
  <2>3. stackBalances[u] = None /\ trackedCoverage[u] = None
    BY <2>2 DEF ThreadExact, Between
  <2>4. CASE LockCollected(t) \/ EndOfMethods(t)
    BY <2>4 DEF LockCollected, EndOfMethods, Kept
  <2>5. CASE LockSerialized(t) \/ ReadMapping(t)
    BY <2>5 DEF LockSerialized, ReadMapping, Kept
  <2>6. CASE SerializeMethod(t)
    BY <2>6 DEF SerializeMethod, Kept
  <2>7. ASSUME NEW id \in MissingIds(t), EmptyReport(t, id)
        PROVE  Kept(u)
    BY <2>7 DEF EmptyReport, Kept
  <2>8. CASE SerializeReports(t)
    BY <2>3, <2>8 DEF SerializeReports, Kept
  <2>9. CASE ClearCoverage(t)
    BY <2>3, <2>9 DEF ClearCoverage, Kept
  <2>10. CASE ClearMapping(t)
    BY <2>10 DEF ClearMapping, Kept
  <2>11. CASE ClearBalances(t)
    BY <2>3, <2>11 DEF ClearBalances, Kept
  <2>12. QED
    BY <1>7, <2>4, <2>5, <2>6, <2>7, <2>8, <2>9, <2>10, <2>11 DEF SerializeStep
<1>8. QED
  BY <1>1, <1>2, <1>3, <1>4, <1>5, <1>6, <1>7 DEF Request, Work

(* What is known of a thread depends on those variables only. *)
LEMMA KeptExact ==
  ASSUME NEW u, Kept(u), ThreadExact(u)
  PROVE  ThreadExact(u)'
<1> USE DEF Kept
<1>1. Latest(u)' = Latest(u)
  BY DEF Latest
<1>2. /\ Collecting(u)' = Collecting(u) /\ Between(u)' = Between(u)
      /\ Unreported(u)' = Unreported(u) /\ Recorded(u)' = Recorded(u)
      /\ Begun(u)' = Begun(u) /\ Ending(u)' = Ending(u)
  BY <1>1 DEF Collecting, Between, Unreported, Recorded, Begun, Ending
<1>3. QED
  BY <1>1, <1>2 DEF ThreadExact

(* What a step makes of ThreadExact for its own thread: one lemma for the  *)
(* requests, one for each of the three sequences of steps.                 *)
LEMMA RequestExact ==
  ASSUME TypeOK, AloneCollecting, ~Concurrent,
         NEW t \in Threads, ThreadExact(t), Request(t)
  PROVE  ThreadExact(t)'
<1> USE DEF Step, At, Goto, trackerVars, methodVars, visitedVars,
            reportVars, localVars, ghostVars
<1>a. /\ depth[t] \in Int /\ published[t] \in Nat /\ None \notin Int
      /\ ran[t] \in Seq(SUBSET Nat) /\ Len(ran[t]) \in Nat
  BY ReportsAssumption DEF TypeOK
<1>1. ASSUME NEW id \in MapIds, SetCurrentThreadId(t, id)
      PROVE  ThreadExact(t)'
  <2>1. Kept(t)
    BY <1>1 DEF SetCurrentThreadId, Kept
  <2>2. QED
    BY <2>1, KeptExact
<1>2. CASE CollectMethod(t)
  <2>1. Kept(t)
    BY <1>2 DEF CollectMethod, Kept
  <2>2. QED
    BY <2>1, KeptExact
<1>3. ASSUME NEW m \in MethodIds, EnterMain(t, m)
      PROVE  ThreadExact(t)'
  <2>1. pc[t] = "idle" /\ probe'[t].method = m /\ m \in Nat
    BY <1>3 DEF EnterMain, CallProbe, TypeOK, MethodIds
  <2>2. /\ depth'[t] = depth[t] + 1 /\ stackBalances'[t] = stackBalances[t]
        /\ trackedCoverage'[t] = trackedCoverage[t] /\ published'[t] = published[t]
    BY <1>3 DEF EnterMain, TypeOK
  <2>3. CASE depth[t] = 0
    <3>1. Between(t)
      BY <2>1, <2>3 DEF ThreadExact
    <3>2. pc'[t] = "track"
      BY <1>3, <3>1 DEF EnterMain, Tracked, Between, TypeOK
    <3>3. Ran(t, m)
      BY <1>3, <2>3 DEF EnterMain
    <3>4. Len(ran'[t]) = Len(ran[t]) + 1 /\ ran'[t][Len(ran'[t])] = {m}
      BY <2>1, <2>3, <3>3, RanBegins
    <3>5. Begun(t)' /\ stackBalances'[t] = None
      BY <1>a, <2>1, <2>2, <3>1, <3>4 DEF Begun, Between, Unreported
    <3>6. QED
      BY <3>2, <3>5 DEF ThreadExact, Collecting
  <2>4. CASE depth[t] # 0
    <3>1. Unreported(t) /\ stackBalances[t] = depth[t] /\ Recorded(t)
      BY <2>1, <2>4 DEF ThreadExact
    <3>2. pc'[t] = "recursive"
      BY <1>3, <1>a, <3>1 DEF EnterMain, Tracked, TypeOK
    <3>3. ran' = ran
      BY <1>3, <2>4 DEF EnterMain
    <3>4. Unreported(t)' /\ depth'[t] > 1 /\ stackBalances'[t] = depth'[t] - 1
      BY <1>a, <2>2, <3>1, <3>3 DEF Unreported
    <3>5. Recorded(t)'
      BY <2>2, <3>1, <3>3 DEF Recorded, Latest
    <3>6. QED
      BY <3>2, <3>4, <3>5 DEF ThreadExact, Collecting
  <2>5. QED
    BY <2>3, <2>4
<1>4. ASSUME NEW m \in MethodIds, Cover(t, m) \/ LeaveMain(t, m)
      PROVE  ThreadExact(t)'
  <2>1. /\ pc[t] = "idle" /\ probe'[t].method = m /\ m \in Nat
        /\ depth[t] > 0 /\ depth[t] # 0 /\ Ran(t, m)
    BY <1>4, <1>a DEF Cover, LeaveMain, CallProbe, TypeOK, MethodIds
  <2>2. Unreported(t) /\ stackBalances[t] = depth[t] /\ Recorded(t)
    BY <2>1 DEF ThreadExact
  <2>3. Tracked(t)
    BY <1>a, <2>2 DEF Tracked
  <2>4. /\ pc'[t] = "append" /\ depth'[t] = depth[t]
        /\ stackBalances'[t] = stackBalances[t]
        /\ trackedCoverage'[t] = trackedCoverage[t] /\ published'[t] = published[t]
    BY <1>4, <2>3 DEF Cover, LeaveMain, TypeOK
  <2>5. Len(ran[t]) > 0
    BY <1>a, <2>2 DEF Unreported
  <2>6. /\ Len(ran'[t]) = Len(ran[t])
        /\ ran'[t][Len(ran[t])] = ran[t][Len(ran[t])] \cup {m}
    BY <2>1, <2>5, RanContinues
  <2>7. Latest(t)' = Latest(t) \cup {<<Len(ran[t]), m>>}
    <3>1. Latest(t)' = Tagged(Len(ran[t]), ran[t][Len(ran[t])] \cup {m})
      BY <2>6 DEF Latest
    <3>2. QED
      BY <3>1, TaggedMore DEF Latest
  <2>8. /\ trackedCoverage'[t] # None /\ Unreported(t)'
        /\ stackBalances'[t] = depth'[t]
    BY <2>2, <2>4, <2>6 DEF Recorded, Unreported
  <2>9. trackedCoverage'[t].records \cup {<<Len(ran'[t]), probe'[t].method>>} = Latest(t)'
    BY <2>1, <2>2, <2>4, <2>6, <2>7 DEF Recorded
  <2>10. QED
    BY <2>4, <2>8, <2>9 DEF ThreadExact, Collecting
<1>5. CASE GetHistory(t)
  <2>1. pc[t] = "idle" /\ depth[t] = 0 /\ pc'[t] = "lockCollected"
    BY <1>5 DEF GetHistory, TypeOK
  <2>2. Between(t)
    BY <2>1 DEF ThreadExact
  <2>3. Between(t)'
    BY <1>5, <2>2 DEF GetHistory, Between
  <2>4. QED
    BY <2>1, <2>3 DEF ThreadExact, Collecting
<1>6. QED
  BY <1>1, <1>2, <1>3, <1>4, <1>5 DEF Request

LEMMA ProbeExact ==
  ASSUME TypeOK, NEW t \in Threads, ThreadExact(t), ProbeStep(t)
  PROVE  ThreadExact(t)' /\ crashed' = crashed
<1> USE DEF Step, At, Goto, trackerVars, methodVars, visitedVars,
            reportVars, localVars, ghostVars
<1>a. /\ depth[t] \in Int /\ published[t] \in Nat /\ None \notin Int
      /\ ran[t] \in Seq(SUBSET Nat) /\ Len(ran[t]) \in Nat
  BY ReportsAssumption DEF TypeOK
<1>1. CASE TrackCurrentThread(t)
  <2>1. pc[t] = "track" /\ pc'[t] = "up" /\ stackBalances'[t] = 0
    BY <1>1 DEF TrackCurrentThread, StackBalance, TypeOK
  <2>2. Begun(t)
    BY <2>1 DEF ThreadExact
  <2>3. Begun(t)'
    BY <1>1, <2>2 DEF TrackCurrentThread, StackBalance, Begun, Unreported
  <2>4. crashed' = crashed
    BY <1>1 DEF TrackCurrentThread, StackBalance
  <2>5. QED
    BY <2>1, <2>3, <2>4 DEF ThreadExact, Collecting
<1>2. CASE StackBalanceUp(t)
  <2>1. UNCHANGED <<depth, ran, published, trackedCoverage, probe, crashed>>
    BY <1>2 DEF StackBalanceUp, StackBalance
  <2>2. CASE pc[t] = "up"
    <3>1. Begun(t) /\ stackBalances[t] = 0 /\ pc'[t] = "enterMain"
      BY <1>2, <2>2 DEF StackBalanceUp, ThreadExact, TypeOK
    <3>2. stackBalances'[t] = 1
      BY <1>2, <1>a, <3>1 DEF StackBalanceUp, StackBalance, Balance, Tracked, TypeOK
    <3>3. Begun(t)'
      BY <2>1, <3>1 DEF Begun, Unreported
    <3>4. QED
      BY <2>1, <3>1, <3>2, <3>3 DEF ThreadExact, Collecting
  <2>3. CASE pc[t] = "recursive"
    <3>1. /\ Unreported(t) /\ stackBalances[t] = depth[t] - 1 /\ depth[t] > 1 /\ Recorded(t)
          /\ pc'[t] = "idle"
      BY <1>2, <2>3 DEF StackBalanceUp, ThreadExact, TypeOK
    <3>2. stackBalances'[t] = depth'[t] /\ depth'[t] # 0
      BY <1>2, <1>a, <2>1, <3>1 DEF StackBalanceUp, StackBalance, Balance, Tracked, TypeOK
    <3>3. Unreported(t)' /\ Recorded(t)'
      BY <2>1, <3>1 DEF Unreported, Recorded, Latest
    <3>4. QED
      BY <2>1, <3>1, <3>2, <3>3 DEF ThreadExact, Collecting
  <2>4. QED
    BY <1>2, <2>2, <2>3 DEF StackBalanceUp
<1>3. CASE StackBalanceDown(t)
  <2>1. UNCHANGED <<ran, published, trackedCoverage, crashed>> /\ pc[t] = "down"
    BY <1>3 DEF StackBalanceDown, StackBalance
  <2>2. Unreported(t) /\ stackBalances[t] = depth[t] /\ Recorded(t)
    BY <2>1 DEF ThreadExact
  <2>3. Balance(t) = depth[t] /\ stackBalances'[t] = depth[t] - 1 /\ depth[t] > 0
    BY <1>3, <1>a, <2>2 DEF StackBalanceDown, StackBalance, Balance, Tracked, TypeOK, Unreported
  <2>4. Recorded(t)'
    BY <2>1, <2>2 DEF Recorded, Latest
  <2>5. CASE depth[t] = 1
    <3>1. pc'[t] = "finish" /\ depth' = depth
      BY <1>3, <2>3, <2>5 DEF StackBalanceDown, TypeOK
    <3>2. Unreported(t)' /\ stackBalances'[t] = 0 /\ depth'[t] = 1
      BY <2>1, <2>2, <2>3, <2>5, <3>1 DEF Unreported
    <3>3. QED
      BY <2>1, <2>4, <3>1, <3>2 DEF ThreadExact, Collecting
  <2>6. CASE depth[t] # 1
    <3>1. pc'[t] = "idle" /\ depth'[t] = depth[t] - 1
      BY <1>3, <2>3, <2>6 DEF StackBalanceDown, TypeOK
    <3>2. Unreported(t)' /\ stackBalances'[t] = depth'[t] /\ depth'[t] # 0
      BY <1>a, <2>1, <2>2, <2>3, <2>6, <3>1 DEF Unreported
    <3>3. QED
      BY <2>1, <2>4, <3>1, <3>2 DEF ThreadExact, Collecting
  <2>7. QED
    BY <2>5, <2>6
<1>4. CASE AddEnterMain(t)
  <2>1. pc[t] = "enterMain" /\ UNCHANGED <<depth, ran, published, stackBalances, crashed>>
    BY <1>4 DEF AddEnterMain
  <2>2. Begun(t) /\ stackBalances[t] = 1
    BY <2>1 DEF ThreadExact
  <2>3. /\ trackedCoverage'[t] = NewHistory(t, probe[t].method)
        /\ pc'[t] = "idle"
    BY <1>4, <2>2 DEF AddEnterMain, Begun, TypeOK
  <2>4. trackedCoverage'[t].records = {<<Len(ran[t]), probe[t].method>>}
    BY <2>3 DEF NewHistory
  <2>5. trackedCoverage'[t].records = Latest(t)'
    <3>1. Latest(t)' = Tagged(Len(ran[t]), {probe[t].method})
      BY <2>1, <2>2 DEF Latest, Begun
    <3>2. QED
      BY <2>4, <3>1, TaggedOne
  <2>6. trackedCoverage'[t] # None
    <3>1. probe[t].method \in Nat
      BY DEF TypeOK, Probes
    <3>2. NewHistory(t, probe[t].method) \in Histories
      BY <3>1, HistoryType
    <3>3. QED
      BY <2>3, <3>2, ReportsAssumption
  <2>7. Unreported(t)' /\ stackBalances'[t] = depth'[t] /\ depth'[t] # 0
    BY <2>1, <2>2 DEF Begun, Unreported
  <2>8. QED
    BY <2>1, <2>3, <2>5, <2>6, <2>7 DEF ThreadExact, Collecting, Recorded
<1>5. CASE AddCoverage(t)
  <2>1. pc[t] = "append" /\ UNCHANGED <<depth, ran, published, stackBalances>>
    BY <1>5 DEF AddCoverage
  <2>2. /\ Unreported(t) /\ stackBalances[t] = depth[t] /\ trackedCoverage[t] # None
        /\ trackedCoverage[t].records \cup {<<Len(ran[t]), probe[t].method>>} = Latest(t)
    BY <2>1 DEF ThreadExact
  <2>3. /\ trackedCoverage'[t] = Extended(trackedCoverage[t], t, probe[t].method)
        /\ pc'[t] = probe[t].after /\ crashed' = crashed
    BY <1>5, <2>2 DEF AddCoverage, TypeOK
  <2>4. trackedCoverage'[t].records = Latest(t)
    BY <2>2, <2>3 DEF Extended
  <2>5. pc'[t] \in {"idle", "down"}
    BY <2>3 DEF TypeOK, Probes
  <2>6. trackedCoverage'[t] # None
    <3>1. trackedCoverage[t] \in Histories /\ probe[t].method \in Nat
      BY <2>2 DEF TypeOK, Probes
    <3>2. trackedCoverage'[t] \in Histories
      BY <2>3, <3>1, HistoryType
    <3>3. QED
      BY <3>2, ReportsAssumption
  <2>7. Recorded(t)'
    BY <2>1, <2>4, <2>6 DEF Recorded, Latest
  <2>8. Unreported(t)' /\ stackBalances'[t] = depth'[t] /\ depth'[t] # 0
    BY <2>1, <2>2 DEF Unreported
  <2>9. QED
    BY <2>3, <2>5, <2>7, <2>8 DEF ThreadExact, Collecting
<1>6. QED
  BY <1>1, <1>2, <1>3, <1>4, <1>5 DEF ProbeStep

LEMMA FinishExact ==
  ASSUME TypeOK, NEW t \in Threads, ThreadExact(t), FinishStep(t)
  PROVE  ThreadExact(t)' /\ crashed' = crashed
<1> USE DEF Step, At, Goto, trackerVars, methodVars, visitedVars,
            reportVars, localVars, ghostVars
<1>a. published[t] \in Nat /\ ran[t] \in Seq(SUBSET Nat) /\ Len(ran[t]) \in Nat
  BY DEF TypeOK
<1>1. CASE LoadCoverage(t)
  <2>1. pc[t] = "finish" /\ UNCHANGED <<depth, ran, published, stackBalances>>
    BY <1>1 DEF LoadCoverage
  <2>2. Unreported(t) /\ depth[t] = 1 /\ stackBalances[t] = 0 /\ Recorded(t)
    BY <2>1 DEF ThreadExact
  <2>3. /\ pc'[t] = "hasMapping" /\ crashed' = crashed
        /\ finishing'[t].history = trackedCoverage[t]
    BY <1>1, <2>2 DEF LoadCoverage, Recorded, TypeOK
  <2>4. Ending(t)'
    BY <2>1, <2>2, <2>3 DEF Ending, Recorded, Unreported, Latest
  <2>5. QED
    BY <2>3, <2>4 DEF ThreadExact, Collecting
<1>2. CASE \/ HasMapping(t) \/ LoadMapping(t) \/ LockVisited(t) \/ InsertVisited(t)
           \/ RemoveCoverage(t)
  <2>1. /\ pc[t] \in {"hasMapping", "loadMapping", "lockVisited", "insertVisited",
                      "removeCoverage"}
        /\ UNCHANGED <<depth, ran, published, stackBalances, crashed>>
    BY <1>2 DEF HasMapping, LoadMapping, LockVisited, InsertVisited, RemoveCoverage
  <2>2. Ending(t)
    BY <2>1 DEF ThreadExact
  <2>3. finishing'[t].history = finishing[t].history
    <3>1. CASE LoadMapping(t)
      BY <3>1 DEF LoadMapping, TypeOK, Finishing
    <3>2. CASE HasMapping(t) \/ LockVisited(t) \/ InsertVisited(t) \/ RemoveCoverage(t)
      BY <3>2 DEF HasMapping, LockVisited, InsertVisited, RemoveCoverage
    <3>3. QED
      BY <1>2, <3>1, <3>2
  <2>4. Ending(t)'
    BY <2>1, <2>2, <2>3 DEF Ending, Unreported, Latest
  <2>5. \/ pc'[t] \in {"loadMapping", "lockVisited", "insertVisited", "removeCoverage"}
        \/ pc'[t] = "push" /\ trackedCoverage'[t] = None
    BY <1>2 DEF HasMapping, LoadMapping, LockVisited, InsertVisited, RemoveCoverage, TypeOK
  <2>6. QED
    BY <2>1, <2>4, <2>5 DEF ThreadExact, Collecting
<1>3. CASE PushReport(t)
  <2>1. /\ pc[t] = "push" /\ pc'[t] = "untrack" /\ published'[t] = published[t] + 1
        /\ UNCHANGED <<depth, ran, stackBalances, trackedCoverage, crashed>>
    BY <1>3 DEF PushReport, TypeOK
  <2>2. Ending(t) /\ trackedCoverage[t] = None
    BY <2>1 DEF ThreadExact
  <2>3. /\ depth'[t] = 1 /\ published'[t] = Len(ran'[t])
        /\ trackedCoverage'[t] = None /\ stackBalances'[t] = 0
    BY <2>1, <2>2 DEF Ending, Unreported
  <2>4. QED
    BY <2>1, <2>3 DEF ThreadExact, Collecting
<1>4. CASE RemoveBalance(t)
  <2>1. /\ pc[t] = "untrack" /\ pc'[t] = "unmap" /\ stackBalances'[t] = None
        /\ UNCHANGED <<depth, ran, published, trackedCoverage, crashed>>
    BY <1>4 DEF RemoveBalance, StackBalance, TypeOK
  <2>2. depth[t] = 1 /\ published[t] = Len(ran[t]) /\ trackedCoverage[t] = None
    BY <2>1 DEF ThreadExact
  <2>3. QED
    BY <2>1, <2>2 DEF ThreadExact, Collecting
<1>5. CASE RemoveMapping(t)
  <2>1. /\ pc[t] = "unmap" /\ pc'[t] = "idle" /\ depth'[t] = depth[t] - 1
        /\ UNCHANGED <<stackBalances, ran, published, trackedCoverage, crashed>>
    BY <1>5 DEF RemoveMapping, TypeOK
  <2>2. /\ depth[t] = 1 /\ published[t] = Len(ran[t]) /\ trackedCoverage[t] = None
        /\ stackBalances[t] = None
    BY <2>1 DEF ThreadExact
  <2>3. Between(t)' /\ depth'[t] = 0
    BY <2>1, <2>2 DEF Between
  <2>4. QED
    BY <2>1, <2>3 DEF ThreadExact, Collecting
<1>6. QED
  BY <1>1, <1>2, <1>3, <1>4, <1>5 DEF FinishStep

LEMMA SerializeExact ==
  ASSUME TypeOK, NEW t \in Threads, ThreadExact(t), SerializeStep(t)
  PROVE  ThreadExact(t)' /\ crashed' = crashed
<1> USE DEF Step, At, Goto, trackerVars, methodVars, visitedVars,
            reportVars, localVars, ghostVars
<1>1. Collecting(t)
  BY DEF SerializeStep, Collecting, LockCollected, LockSerialized, SerializeMethod,
         EndOfMethods, ReadMapping, EmptyReport, SerializeReports, ClearCoverage,
         ClearMapping, ClearBalances
<1>2. Between(t)
  BY <1>1 DEF ThreadExact
<1>3. UNCHANGED <<depth, ran, published, crashed>>
  BY DEF SerializeStep, LockCollected, LockSerialized, SerializeMethod, EndOfMethods,
         ReadMapping, EmptyReport, SerializeReports, ClearCoverage, ClearMapping,
         ClearBalances
<1>4. stackBalances'[t] = stackBalances[t] \/ stackBalances'[t] = None
  BY DEF SerializeStep, LockCollected, LockSerialized, SerializeMethod, EndOfMethods,
         ReadMapping, EmptyReport, SerializeReports, ClearCoverage, ClearMapping,
         ClearBalances
<1>5. trackedCoverage'[t] = trackedCoverage[t] \/ trackedCoverage'[t] = None
  BY DEF SerializeStep, LockCollected, LockSerialized, SerializeMethod, EndOfMethods,
         ReadMapping, EmptyReport, SerializeReports, ClearCoverage, ClearMapping,
         ClearBalances
<1>6. Between(t)' /\ depth'[t] = 0
  BY <1>2, <1>3, <1>4, <1>5 DEF Between
<1>7. Collecting(t)' \/ pc'[t] = "idle"
  BY <1>1 DEF TypeOK, Collecting, SerializeStep, LockCollected, LockSerialized,
         SerializeMethod, EndOfMethods, ReadMapping, EmptyReport, SerializeReports,
         ClearCoverage, ClearMapping, ClearBalances
<1>8. QED
  BY <1>3, <1>6, <1>7 DEF ThreadExact, Collecting

(* While a history is requested no other thread begins anything. *)
LEMMA AloneStep ==
  ASSUME TypeOK, AloneCollecting, ~Concurrent, NEW t \in Threads, Request(t) \/ Work(t),
         \A u \in Threads \ {t} : Kept(u)
  PROVE  AloneCollecting'
<1> USE DEF Step, At, Goto
<1>1. SUFFICES ASSUME NEW v \in Threads, Collecting(v)', NEW u \in Threads, u # v
               PROVE  pc'[u] = "idle" /\ depth'[u] = 0
  BY DEF AloneCollecting
<1>2. CASE v = t
  <2>1. pc[u] = "idle" /\ depth[u] = 0
    <3>1. CASE Collecting(t)
      BY <1>1, <1>2, <3>1 DEF AloneCollecting
    <3>2. CASE ~Collecting(t)
      <4>1. ~Work(t)
        <5>1. ~ProbeStep(t)
          <6>1. ~AddCoverage(t)
            <7>1. probe[t].after \in {"idle", "down"} /\ pc \in [Threads -> Labels]
              BY DEF TypeOK, Probes
            <7>2. ASSUME AddCoverage(t)
                  PROVE  pc'[t] \in {"append", "idle", "down"}
              BY <7>1, <7>2 DEF AddCoverage
            <7>3. QED
              BY <1>1, <1>2, <7>2 DEF Collecting
          <6>2. ~TrackCurrentThread(t) /\ ~StackBalanceUp(t) /\ ~StackBalanceDown(t)
            BY <1>1, <1>2 DEF Collecting, TypeOK, TrackCurrentThread, StackBalanceUp,
               StackBalanceDown
          <6>3. ~AddEnterMain(t)
            BY <1>1, <1>2 DEF Collecting, TypeOK, AddEnterMain
          <6>4. QED
            BY <6>1, <6>2, <6>3 DEF ProbeStep
        <5>2. ~FinishStep(t)
          BY <1>1, <1>2 DEF FinishStep, Collecting, TypeOK, LoadCoverage, HasMapping,
             LoadMapping, LockVisited, InsertVisited, RemoveCoverage, PushReport,
             RemoveBalance, RemoveMapping
        <5>3. ~SerializeStep(t)
          BY <3>2 DEF SerializeStep, Collecting, LockCollected, LockSerialized,
             SerializeMethod, EndOfMethods, ReadMapping, EmptyReport, SerializeReports,
             ClearCoverage, ClearMapping, ClearBalances
        <5>4. QED
          BY <5>1, <5>2, <5>3 DEF Work
      <4>2. GetHistory(t)
        BY <1>1, <1>2, <3>2, <4>1 DEF Request, SetCurrentThreadId, CollectMethod, EnterMain,
           Cover, LeaveMain, Collecting, TypeOK
      <4>3. QED
        BY <4>2 DEF GetHistory, MayCollect
    <3>3. QED
      BY <3>1, <3>2
  <2>2. QED
    BY <1>1, <1>2, <2>1 DEF Kept
<1>3. CASE v # t
  <2>1. Collecting(v)
    BY <1>1, <1>3 DEF Kept, Collecting
  <2>2. pc[u] = "idle" /\ depth[u] = 0 /\ pc[t] = "idle" /\ depth[t] = 0
    BY <1>1, <1>3, <2>1 DEF AloneCollecting
  <2>3. CASE u # t
    BY <2>2, <2>3 DEF Kept
  <2>4. CASE u = t
    <3>1. ~Work(t)
      BY <2>2 DEF Work, ProbeStep, FinishStep, SerializeStep,
           TrackCurrentThread, StackBalanceUp, StackBalanceDown, AddEnterMain, AddCoverage,
           LoadCoverage, HasMapping, LoadMapping, LockVisited, InsertVisited,
           RemoveCoverage, PushReport, RemoveBalance, RemoveMapping, LockCollected,
           LockSerialized, SerializeMethod, EndOfMethods, ReadMapping, EmptyReport,
           SerializeReports, ClearCoverage, ClearMapping, ClearBalances
    <3>2. ~GetHistory(t)
      BY <1>3, <2>1, <2>2 DEF GetHistory, MayCollect, Collecting
    <3>3. \A m \in MethodIds : ~EnterMain(t, m) /\ ~Cover(t, m) /\ ~LeaveMain(t, m)
      BY <2>1, <2>2 DEF EnterMain, Cover, LeaveMain, MayRunMain
    <3>4. (\E id \in MapIds : SetCurrentThreadId(t, id)) \/ CollectMethod(t)
      BY <3>1, <3>2, <3>3 DEF Request
    <3>5. pc' = pc /\ depth' = depth
      BY <3>4 DEF SetCurrentThreadId, CollectMethod, ghostVars
    <3>6. QED
      BY <2>2, <2>4, <3>5
  <2>5. QED
    BY <2>3, <2>4
<1>4. QED
  BY <1>2, <1>3

(* An invocation that was reported is not written to any more. *)
LEMMA RanKept ==
  ASSUME TypeOK, \A v \in Threads : ThreadExact(v),
         NEW t \in Threads, Request(t) \/ Work(t),
         \A u \in Threads \ {t} : Kept(u),
         NEW u \in Threads
  PROVE  /\ published'[u] >= published[u]
         /\ \A i \in 1..published[u] : ran'[u][i] = ran[u][i]
<1> USE DEF Step, At, Goto, trackerVars, methodVars, visitedVars,
            reportVars, localVars, ghostVars
<1>a. published[u] \in Nat /\ ran[u] \in Seq(SUBSET Nat) /\ Len(ran[u]) \in Nat
  BY DEF TypeOK
<1>1. CASE u # t
  BY <1>a, <1>1 DEF Kept
<1>2. CASE u = t
  <2>1. ASSUME NEW m \in MethodIds, EnterMain(t, m) \/ Cover(t, m) \/ LeaveMain(t, m)
        PROVE  /\ published' = published
               /\ \A i \in 1..published[t] : ran'[t][i] = ran[t][i]
    <3>1. published' = published /\ pc[t] = "idle" /\ m \in Nat
      BY <2>1 DEF EnterMain, Cover, LeaveMain, MethodIds, TypeOK
    <3>2. CASE depth[t] = 0
      <4>1. Ran(t, m)
        BY <2>1, <3>2 DEF EnterMain, Cover, LeaveMain
      <4>2. \A i \in 1..Len(ran[t]) : ran'[t][i] = ran[t][i]
        BY <3>1, <3>2, <4>1, RanBegins
      <4>3. published[t] = Len(ran[t])
        BY <3>1, <3>2 DEF ThreadExact, Between
      <4>4. QED
        BY <3>1, <4>2, <4>3
    <3>3. CASE depth[t] # 0
      <4>1. Len(ran[t]) = published[t] + 1
        BY <3>1, <3>3 DEF ThreadExact, Unreported
      <4>2. CASE Ran(t, m)
        <5>1. \A i \in 1..(Len(ran[t]) - 1) : ran'[t][i] = ran[t][i]
          BY <1>a, <1>2, <3>1, <3>3, <4>1, <4>2, RanContinues
        <5>2. QED
          BY <1>a, <1>2, <3>1, <4>1, <5>1
      <4>3. CASE ran' = ran
        BY <3>1, <4>3
      <4>4. QED
        BY <2>1, <3>3, <4>2, <4>3 DEF EnterMain, Cover, LeaveMain
    <3>4. QED
      BY <3>2, <3>3
  <2>2. ASSUME NEW id \in MapIds, SetCurrentThreadId(t, id)
        PROVE  UNCHANGED <<ran, published>>
    BY <2>2 DEF SetCurrentThreadId
  <2>3. CollectMethod(t) \/ GetHistory(t) => UNCHANGED <<ran, published>>
    BY DEF CollectMethod, GetHistory
  <2>4. ProbeStep(t) => UNCHANGED <<ran, published>>
    BY DEF ProbeStep, TrackCurrentThread, StackBalanceUp, StackBalanceDown, AddEnterMain,
           AddCoverage, StackBalance
  <2>5. FinishStep(t) => ran' = ran /\ (published' = published \/ PushReport(t))
    BY DEF FinishStep, LoadCoverage, HasMapping, LoadMapping, LockVisited, InsertVisited,
           RemoveCoverage, PushReport, RemoveBalance, RemoveMapping, StackBalance
  <2>6. PushReport(t) => published'[t] = published[t] + 1
    BY DEF PushReport, TypeOK
  <2>7. SerializeStep(t) => UNCHANGED <<ran, published>>
    BY DEF SerializeStep, LockCollected, LockSerialized, SerializeMethod, EndOfMethods,
           ReadMapping, EmptyReport, SerializeReports, ClearCoverage, ClearMapping,
           ClearBalances
  <2>8. \/ \E m \in MethodIds : EnterMain(t, m) \/ Cover(t, m) \/ LeaveMain(t, m)
        \/ UNCHANGED <<ran, published>>
        \/ ran' = ran /\ PushReport(t)
    BY <2>2, <2>3, <2>4, <2>5, <2>7 DEF Request, Work
  <2>9. QED
    BY <1>a, <1>2, <2>1, <2>6, <2>8
<1>3. QED
  BY <1>1, <1>2

(* So what reports said stays exact. *)
LEMMA ReportsKept ==
  ASSUME TypeOK, TypeOK', \A v \in Threads : ThreadExact(v),
         NEW t \in Threads, Request(t) \/ Work(t),
         \A u \in Threads \ {t} : Kept(u),
         NEW reports \in Seq(Reports), AllExact(reports, published, ran)
  PROVE  AllExact(reports, published', ran')
<1>1. SUFFICES ASSUME NEW i \in 1..Len(reports)
               PROVE  Exact(reports[i], published', ran')
  BY DEF AllExact
<1> DEFINE r == reports[i]
<1>2. r \in Reports /\ Exact(r, published, ran)
  BY DEF AllExact
<1> HIDE DEF r
<1>3. r.serial \in Nat /\ r.thread \in Threads
  BY <1>2 DEF Reports
<1>4. published[r.thread] \in Nat /\ published'[r.thread] \in Nat
  BY <1>3 DEF TypeOK
<1>5. /\ published'[r.thread] >= published[r.thread]
      /\ \A k \in 1..published[r.thread] : ran'[r.thread][k] = ran[r.thread][k]
  BY <1>3, RanKept
<1>6. ASSUME r.serial > 0
      PROVE  /\ r.serial \in 1..published'[r.thread]
             /\ ran'[r.thread][r.serial] = ran[r.thread][r.serial]
  BY <1>2, <1>3, <1>4, <1>5, <1>6 DEF Exact
<1>7. Exact(r, published', ran')
  BY <1>2, <1>6 DEF Exact
<1>8. QED
  BY <1>7 DEF r

(* A report more. *)
LEMMA AllExactAppend ==
  ASSUME NEW reports \in Seq(Reports), NEW r \in Reports, NEW ended, NEW ranBy,
         AllExact(reports, ended, ranBy), Exact(r, ended, ranBy)
  PROVE  AllExact(Append(reports, r), ended, ranBy)
<1>1. \A i \in 1..Len(Append(reports, r)) :
        \/ i \in 1..Len(reports) /\ Append(reports, r)[i] = reports[i]
        \/ Append(reports, r)[i] = r
  OBVIOUS
<1>2. QED
  BY <1>1 DEF AllExact

(* Every step keeps the reports exact: a new one is the report of the last *)
(* invocation of its thread, a delivered one has waited before.            *)
LEMMA ReportsStep ==
  ASSUME TypeOK, TypeOK', \A v \in Threads : ThreadExact(v), ReportsExact,
         NEW t \in Threads, Request(t) \/ Work(t),
         \A u \in Threads \ {t} : Kept(u)
  PROVE  ReportsExact'
<1>1. serializedCoverage \in Seq(Reports) /\ histories \in Seq(ClientHistories)
  BY DEF TypeOK
<1>2. AllExact(serializedCoverage, published', ran')
  BY <1>1, ReportsKept DEF ReportsExact
<1>3. ASSUME NEW h \in 1..Len(histories)
      PROVE  AllExact(histories[h].reports, published', ran')
  <2>1. histories[h].reports \in Seq(Reports)
    <3>1. histories[h] \in ClientHistories
      BY <1>1
    <3>2. QED
      BY <3>1 DEF ClientHistories
  <2>2. AllExact(histories[h].reports, published, ran)
    BY DEF ReportsExact
  <2>3. QED
    BY <2>1, <2>2, ReportsKept
<1>4. \/ UNCHANGED <<serializedCoverage, histories, published>>
      \/ PushReport(t) \/ SerializeReports(t)
      \/ \E id \in MissingIds(t) : EmptyReport(t, id)
  <2> USE DEF Step, At, Goto, reportVars, ghostVars
  <2>1. Request(t) => UNCHANGED <<serializedCoverage, histories, published>>
    BY DEF Request, SetCurrentThreadId, CollectMethod, EnterMain, Cover, LeaveMain,
           GetHistory
  <2>2. ProbeStep(t) => UNCHANGED <<serializedCoverage, histories, published>>
    BY DEF ProbeStep, TrackCurrentThread, StackBalanceUp, StackBalanceDown,
           AddEnterMain, AddCoverage, StackBalance
  <2>3. FinishStep(t) => PushReport(t) \/ UNCHANGED <<serializedCoverage, histories, published>>
    BY DEF FinishStep, LoadCoverage, HasMapping, LoadMapping, LockVisited, InsertVisited,
           RemoveCoverage, RemoveBalance, RemoveMapping, StackBalance
  <2>4. SerializeStep(t) =>
          \/ UNCHANGED <<serializedCoverage, histories, published>>
          \/ SerializeReports(t) \/ \E id \in MissingIds(t) : EmptyReport(t, id)
    BY DEF SerializeStep, LockCollected, LockSerialized, SerializeMethod, EndOfMethods,
           ReadMapping, ClearCoverage, ClearMapping, ClearBalances
  <2>5. QED
    BY <2>1, <2>2, <2>3, <2>4 DEF Work
<1>5. CASE UNCHANGED <<serializedCoverage, histories, published>>
  <2>1. AllExact(serializedCoverage', published', ran')
    BY <1>2, <1>5
  <2>2. \A h \in 1..Len(histories') : AllExact(histories'[h].reports, published', ran')
    BY <1>3, <1>5
  <2>3. QED
    BY <2>1, <2>2 DEF ReportsExact
<1>6. ASSUME NEW r \in Reports, Exact(r, published', ran'),
             serializedCoverage' = Append(serializedCoverage, r), histories' = histories
      PROVE  ReportsExact'
  <2>1. AllExact(serializedCoverage', published', ran')
    BY <1>1, <1>2, <1>6, AllExactAppend
  <2>2. \A h \in 1..Len(histories') : AllExact(histories'[h].reports, published', ran')
    BY <1>3, <1>6
  <2>3. QED
    BY <2>1, <2>2 DEF ReportsExact
<1>7. CASE PushReport(t)
  <2> DEFINE r == [id |-> finishing[t].id, thread |-> t, serial |-> published[t] + 1,
                   records |-> finishing[t].history.records]
  <2>1. finishing[t] \in Finishing /\ published[t] \in Nat /\ Len(ran[t]) \in Nat
    BY DEF TypeOK
  <2>2. r \in Reports
    BY <2>1 DEF Reports, Finishing, Histories
  <2>3. Ending(t)
    BY <1>7 DEF PushReport, Step, At, ThreadExact
  <2>4. published'[t] = published[t] + 1 /\ ran' = ran
    BY <1>7 DEF PushReport, TypeOK
  <2>5. /\ r.serial \in 1..published'[r.thread]
        /\ r.records = Tagged(r.serial, ran'[r.thread][r.serial])
    BY <2>1, <2>3, <2>4 DEF Ending, Unreported, Latest
  <2>6. Exact(r, published', ran')
    BY <2>5 DEF Exact
  <2>7. serializedCoverage' = Append(serializedCoverage, r) /\ histories' = histories
    BY <1>7 DEF PushReport
  <2>8. QED
    BY <1>6, <2>2, <2>6, <2>7
<1>8. ASSUME NEW id \in MissingIds(t), EmptyReport(t, id)
      PROVE  ReportsExact'
  <2> DEFINE r == [id |-> id, thread |-> t, serial |-> 0, records |-> {}]
  <2>1. r \in Reports
    BY DEF TypeOK, Reports, MissingIds, Serializing
  <2>2. Exact(r, published', ran')
    BY DEF Exact
  <2>3. serializedCoverage' = Append(serializedCoverage, r) /\ histories' = histories
    BY <1>8 DEF EmptyReport, ghostVars
  <2>4. QED
    BY <1>6, <2>1, <2>2, <2>3
<1>9. CASE SerializeReports(t)
  <2>1. serializedCoverage' = <<>> /\ histories' = Append(histories, DeliveredHistory(t))
    BY <1>9 DEF SerializeReports
  <2>2. AllExact(serializedCoverage', published', ran')
    BY <2>1 DEF AllExact
  <2>3. \A h \in 1..Len(histories') :
          \/ h \in 1..Len(histories) /\ histories'[h] = histories[h]
          \/ histories'[h] = DeliveredHistory(t)
    BY <1>1, <2>1
  <2>4. DeliveredHistory(t).reports = serializedCoverage
    BY DEF DeliveredHistory
  <2>5. \A h \in 1..Len(histories') : AllExact(histories'[h].reports, published', ran')
    BY <1>2, <1>3, <2>3, <2>4
  <2>6. QED
    BY <2>2, <2>5 DEF ReportsExact
<1>10. QED
  BY <1>4, <1>5, <1>7, <1>8, <1>9

(* Every step keeps ExactInv, when requests meet no invocation. *)
LEMMA ExactStep ==
  ASSUME TypeOK, ExactInv, ~Concurrent, [Next]_vars
  PROVE  ExactInv'
<1>1. TypeOK'
  BY TypeStep
<1>2. ASSUME NEW t \in Threads, Request(t) \/ Work(t)
      PROVE  ExactInv'
  <2>1. ASSUME NEW u \in Threads, u # t
        PROVE  Kept(u) /\ ThreadExact(u)'
    <3>1. Kept(u)
      BY <1>2, <2>1, OthersKept DEF ExactInv
    <3>2. QED
      BY <3>1, KeptExact DEF ExactInv
  <2>2. ThreadExact(t)' /\ crashed' = crashed
    <3>1. CASE Request(t)
      <4>1. ThreadExact(t)'
        BY <3>1, RequestExact DEF ExactInv
      <4>2. crashed' = crashed
        BY <3>1 DEF Request, SetCurrentThreadId, CollectMethod, EnterMain, Cover, LeaveMain,
                    GetHistory
      <4>3. QED
        BY <4>1, <4>2
    <3>2. CASE ProbeStep(t)
      BY <3>2, ProbeExact DEF ExactInv
    <3>3. CASE FinishStep(t)
      BY <3>3, FinishExact DEF ExactInv
    <3>4. CASE SerializeStep(t)
      BY <3>4, SerializeExact DEF ExactInv
    <3>5. QED
      BY <1>2, <3>1, <3>2, <3>3, <3>4 DEF Work
  <2>3. AloneCollecting'
    BY <1>2, <2>1, AloneStep DEF ExactInv
  <2>4. ReportsExact'
    BY <1>1, <1>2, <2>1, ReportsStep DEF ExactInv
  <2>5. QED
    BY <2>1, <2>2, <2>3, <2>4 DEF ExactInv
<1>3. CASE UNCHANGED vars
  <2>1. \A u \in Threads : Kept(u)
    BY <1>3 DEF vars, Kept
  <2>2. \A u \in Threads : ThreadExact(u)'
    BY <2>1, KeptExact DEF ExactInv
  <2>3. AloneCollecting' /\ ReportsExact' /\ ~crashed'
    BY <1>3 DEF vars, ExactInv, AloneCollecting, Collecting, ReportsExact
  <2>4. QED
    BY <2>2, <2>3 DEF ExactInv
<1>4. QED
  BY <1>2, <1>3 DEF Next

LEMMA ExactInit == Init => ExactInv
<1>1. SUFFICES ASSUME Init
               PROVE  ExactInv
  OBVIOUS
<1>2. ASSUME NEW t \in Threads
      PROVE  pc[t] = "idle" /\ depth[t] = 0 /\ Between(t)
  BY <1>1 DEF Init, Between
<1>3. \A t \in Threads : ThreadExact(t)
  BY <1>2 DEF ThreadExact, Collecting
<1>4. AloneCollecting /\ ~crashed
  BY <1>1, <1>2 DEF Init, AloneCollecting, Collecting
<1>5. ReportsExact
  BY <1>1 DEF Init, ReportsExact, AllExact
<1>6. QED
  BY <1>3, <1>4, <1>5 DEF ExactInv

(* When histories are requested between invocations, the n-th report of a  *)
(* thread says what its n-th invocation ran, no more and no less, every    *)
(* invocation that ended has its report, and no null history is used: for  *)
(* every number of threads, methods, nested frames and requests.           *)
THEOREM ReportsAreExactCorrect == ~Concurrent => (Spec => []ReportsAreExact)
<1>1. SUFFICES ASSUME ~Concurrent
               PROVE  Spec => []ReportsAreExact
  OBVIOUS
<1>2. Init => ExactInv
  BY ExactInit
<1>3. TypeOK /\ ExactInv /\ [Next]_vars => ExactInv'
  BY <1>1, ExactStep
<1>4. TypeOK /\ ExactInv => ReportsAreExact
  <2>1. SUFFICES ASSUME TypeOK, ExactInv
                 PROVE  ReportsAreExact
    OBVIOUS
  <2>2. ASSUME NEW t \in Threads, depth[t] = 0
        PROVE  published[t] = Len(ran[t])
    <3>1. ThreadExact(t)
      BY <2>1 DEF ExactInv
    <3>2. ~Unreported(t) /\ depth[t] # 1
      BY <2>2 DEF Unreported
    <3>3. pc[t] \in {"idle"} \/ Collecting(t)
      BY <2>1, <3>1, <3>2 DEF TypeOK, Labels, ThreadExact, Begun, Ending, Collecting
    <3>4. Between(t)
      BY <2>2, <3>1, <3>3 DEF ThreadExact
    <3>5. QED
      BY <3>4 DEF Between
  <2>3. ASSUME NEW h \in 1..Len(histories), NEW i \in 1..Len(histories[h].reports),
               histories[h].reports[i].serial > 0
        PROVE  histories[h].reports[i].records =
                 {<<histories[h].reports[i].serial, m>> :
                    m \in ran[histories[h].reports[i].thread][histories[h].reports[i].serial]}
    BY <2>1, <2>3 DEF ExactInv, ReportsExact, AllExact, Exact, Tagged
  <2>4. QED
    BY <2>1, <2>2, <2>3 DEF ReportsAreExact, ExactInv
<1>5. QED
  BY <1>2, <1>3, <1>4, TypeCorrect, PTL DEF Spec
-----------------------------------------------------------------------------
(* Refinement.  CoverageReports implements ReportMailbox: the report a     *)
(* thread pushes is a Publish, the serialization of the reports a Take,    *)
(* and everything else a thread does inside the callbacks and requests is  *)
(* a stutter.                                                              *)


(* The reports that have a name, after one more report. *)
LEMMA NamesOfAppend ==
  ASSUME NEW s \in Seq(Reports), NEW r \in Reports
  PROVE  /\ r.serial = 0 => NamesOf(Append(s, r)) = NamesOf(s)
         /\ r.serial > 0 => NamesOf(Append(s, r)) = NamesOf(s) \cup {<<r.thread, r.serial>>}
<1> DEFINE u == Append(s, r)
<1>1. /\ Len(s) \in Nat /\ Len(u) = Len(s) + 1 /\ u[Len(s) + 1] = r
      /\ \A i \in 1..Len(s) : u[i] = s[i]
  OBVIOUS
<1>2. r.serial \in Nat
  BY DEF Reports
<1>3. \A q, x : x \in NamesOf(q) <=>
        \E i \in 1..Len(q) : q[i].serial > 0 /\ x = <<q[i].thread, q[i].serial>>
  BY DEF NamesOf
<1>4. ASSUME NEW x
      PROVE  x \in NamesOf(u) <=>
               x \in NamesOf(s) \/ (r.serial > 0 /\ x = <<r.thread, r.serial>>)
  <2>1. ASSUME x \in NamesOf(u)
        PROVE  x \in NamesOf(s) \/ (r.serial > 0 /\ x = <<r.thread, r.serial>>)
    <3>1. PICK i \in 1..Len(u) : u[i].serial > 0 /\ x = <<u[i].thread, u[i].serial>>
      BY <1>3, <2>1
    <3>2. CASE i = Len(s) + 1
      BY <1>1, <3>1, <3>2
    <3>3. CASE i # Len(s) + 1
      <4>1. i \in 1..Len(s)
        BY <1>1, <3>3
      <4>2. QED
        BY <1>1, <1>3, <3>1, <4>1
    <3>4. QED
      BY <3>2, <3>3
  <2>2. ASSUME x \in NamesOf(s)
        PROVE  x \in NamesOf(u)
    <3>1. PICK i \in 1..Len(s) : s[i].serial > 0 /\ x = <<s[i].thread, s[i].serial>>
      BY <1>3, <2>2
    <3>2. i \in 1..Len(u)
      BY <1>1
    <3>3. QED
      BY <1>1, <1>3, <3>1, <3>2
  <2>3. ASSUME r.serial > 0, x = <<r.thread, r.serial>>
        PROVE  x \in NamesOf(u)
    <3>1. Len(s) + 1 \in 1..Len(u)
      BY <1>1
    <3>2. QED
      BY <1>1, <1>3, <2>3, <3>1
  <2>4. QED
    BY <2>1, <2>2, <2>3
<1>5. QED
  BY <1>2, <1>4

(* A pushed report is published. *)
LEMMA PushPublishes ==
  ASSUME TypeOK, NEW t \in Threads, PushReport(t)
  PROVE  Mailbox!Publish(t)
<1> DEFINE r == [id |-> finishing[t].id, thread |-> t, serial |-> published[t] + 1,
                 records |-> finishing[t].history.records]
<1>1. r \in Reports
  <2>1. finishing[t] \in Finishing /\ published[t] \in Nat
    BY DEF TypeOK
  <2>2. finishing[t].history.records \in SUBSET Records /\ finishing[t].id \in Int
    BY <2>1 DEF Finishing, Histories
  <2>3. QED
    BY <2>1, <2>2 DEF Reports
<1>2. /\ serializedCoverage' = Append(serializedCoverage, r)
      /\ published' = [published EXCEPT ![t] = published[t] + 1]
      /\ histories' = histories
  BY DEF PushReport, ghostVars
<1>3. NamesOf(serializedCoverage)' = NamesOf(serializedCoverage) \cup {<<t, published[t] + 1>>}
  <2>1. NamesOf(serializedCoverage)' = NamesOf(serializedCoverage')
    BY DEF NamesOf
  <2>2. r.serial = published[t] + 1 /\ r.thread = t /\ r.serial > 0
    BY DEF TypeOK
  <2>3. serializedCoverage \in Seq(Reports)
    BY DEF TypeOK
  <2>4. QED
    BY <1>1, <1>2, <2>1, <2>2, <2>3, NamesOfAppend
<1>4. QED
  BY <1>2, <1>3 DEF Mailbox!Publish

(* A serialized history takes the waiting reports. *)
LEMMA SerializeTakes ==
  ASSUME TypeOK, NEW t \in Threads, SerializeReports(t)
  PROVE  Mailbox!Take
<1> DEFINE new == [methods |-> serializing[t].methods, reports |-> serializedCoverage,
                   torn |-> serializing[t].torn, mapped |-> serializing[t].mapped]
           taken == [h \in 1..Len(histories) |-> NamesOf(histories[h].reports)]
<1>1. histories' = Append(histories, new) /\ serializedCoverage' = <<>> /\ published' = published
  BY DEF SerializeReports, DeliveredHistory
<1>2. NamesOf(serializedCoverage)' = {}
  BY <1>1 DEF NamesOf
<1>3. taken' = Append(taken, NamesOf(serializedCoverage))
  <2>1. /\ Len(histories) \in Nat /\ Len(histories') = Len(histories) + 1
        /\ histories'[Len(histories) + 1] = new
        /\ \A h \in 1..Len(histories) : histories'[h] = histories[h]
    BY <1>1 DEF TypeOK
  <2>2. Len(taken) = Len(histories)
    BY <2>1
  <2>3. QED
    BY <2>1, <2>2
<1>4. QED
  BY <1>1, <1>2, <1>3 DEF Mailbox!Take

(* Every behaviour of the reporting protocol is one of the mailbox: what   *)
(* the clients of GetHistory get is what was published, each report once,  *)
(* for any number of threads and requests and whatever is interleaved.     *)
THEOREM MailboxCorrect == Spec => MailboxSpec
<1>1. Init => Mailbox!Init
  BY DEF Init, Mailbox!Init, NamesOf
<1>2. TypeOK /\ [Next]_vars => [Mailbox!Next]_Mailbox!mailboxVars
  <2> SUFFICES ASSUME TypeOK, [Next]_vars
               PROVE  [Mailbox!Next]_Mailbox!mailboxVars
    OBVIOUS
  <2>1. ASSUME NEW t \in Threads, PushReport(t)
        PROVE  Mailbox!Next
    BY <2>1, PushPublishes DEF Mailbox!Next
  <2>2. ASSUME NEW t \in Threads, SerializeReports(t)
        PROVE  Mailbox!Next
    BY <2>2, SerializeTakes DEF Mailbox!Next
  <2>3. ASSUME NEW t \in Threads, NEW id \in MissingIds(t), EmptyReport(t, id)
        PROVE  UNCHANGED Mailbox!mailboxVars
    <3> DEFINE r == [id |-> id, thread |-> t, serial |-> 0, records |-> {}]
    <3>1. r \in Reports
      BY DEF TypeOK, Reports, MissingIds, Serializing
    <3>2. /\ serializedCoverage' = Append(serializedCoverage, r)
          /\ histories' = histories /\ published' = published
      BY <2>3 DEF EmptyReport, ghostVars
    <3>3. NamesOf(serializedCoverage)' = NamesOf(serializedCoverage)
      BY <3>1, <3>2, NamesOfAppend DEF TypeOK
    <3>4. QED
      BY <3>2, <3>3 DEF Mailbox!mailboxVars
  <2>4. CASE UNCHANGED <<serializedCoverage, histories, published>>
    BY <2>4 DEF Mailbox!mailboxVars, NamesOf
  <2>5. QED
    BY <2>1, <2>2, <2>3, <2>4, ReportsFrame
<1>3. QED
  BY TypeCorrect, <1>1, <1>2, PTL DEF Spec, MailboxSpec, Mailbox!Spec

(* The promise to the clients, of the reports the code really holds: every *)
(* report that was pushed still waits in serializedCoverage or is in one   *)
(* delivered history, never in two.                                        *)
Promise == INSTANCE ReportMailboxProofs WITH
             Publishers <- Threads,
             waiting    <- NamesOf(serializedCoverage),
             delivered  <- [h \in 1..Len(histories) |-> NamesOf(histories[h].reports)]

(* No report is lost between onCurrentThreadFinished and GetHistory, and   *)
(* none is delivered twice.                                                *)
THEOREM ReportsDeliveredOnce == Spec => []Promise!DeliveredOnce
<1>1. MailboxSpec => Promise!Spec
  BY DEF MailboxSpec, Mailbox!Spec, Promise!Spec, Mailbox!Init, Promise!Init, Mailbox!Next,
         Promise!Next, Mailbox!Publish, Promise!Publish, Mailbox!Take, Promise!Take,
         Mailbox!mailboxVars, Promise!mailboxVars
<1>2. Promise!Spec => [](Promise!MailboxType /\ Promise!DeliveredOnce)
  BY Promise!MailboxDeliversOnce
<1>3. QED
  BY MailboxCorrect, <1>1, <1>2, PTL
=============================================================================
