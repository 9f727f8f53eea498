--------------------------- MODULE CoverageReports ---------------------------
(***************************************************************************)
(* CoverageTracker under concurrency: threads that run main add records to *)
(* their histories and publish a report when their invocation ends, while  *)
(* GetHistory, on any thread, serializes the reports with the table of the *)
(* methods they mention and clears the storages of every thread.           *)
(*                                                                         *)
(* One step is one access to shared data: an operation of a ThreadStorage  *)
(* (each takes the lock of its storage), or what runs while a mutex of     *)
(* CoverageTracker is held.  visitedMethods is written under its mutex but *)
(* read without it; a read that overlaps an insertion into the std::set is *)
(* a data race and may miss an element: such a read is called torn.        *)
(*                                                                         *)
(* Calls and returns stand for all the ways in and out of main, which are  *)
(* the subject of ThreadTracking; inFilterMapping and unwindFunctionIds,   *)
(* which no step here reads, are left to it.                               *)
(***************************************************************************)
EXTENDS Integers, Sequences, FiniteSets

CONSTANTS
  Threads,
  MapIds,          (* ids given to SetCurrentThreadId                       *)
  None,            (* no entry in a ThreadStorage; an unlocked mutex        *)
  Concurrent,      (* GetHistory may run while main runs on other threads   *)
  MaxMethods,      (* bounds: methods collected,                            *)
  MaxDepth,        (*         nested frames of main,                        *)
  MaxInvocations,  (*         invocations of each thread,                   *)
  MaxHistories     (*         GetHistory requests                           *)

(* A record: the invocation that made it, the method.  A CoverageHistory:  *)
(* its records and the methods they refer to.                              *)
Records   == Nat \X Nat
Histories == [records : SUBSET Records, visitedMethods : SUBSET Nat]

ASSUME ReportsAssumption ==
  /\ MapIds \subseteq Int /\ Concurrent \in BOOLEAN
  /\ None \notin Threads \cup Int \cup Histories
  /\ {MaxMethods, MaxDepth, MaxInvocations, MaxHistories} \subseteq Nat

VARIABLES
  (* ThreadTracker *)
  threadIdMapping, stackBalances,
  (* CoverageTracker; a mutex is the thread that holds it *)
  collectedMethods,            (* how many: their ids are 0, 1, ...         *)
  collectedMethodsMutex,
  visitedMethods, visitedMethodsMutex,
  trackedCoverage,
  serializedCoverage, serializedCoverageThreadIds, serializedCoverageMutex,
  (* Threads *)
  pc,
  probe,           (* the probe that runs: its method, what follows addCoverage *)
  finishing,       (* locals of invocationFinished                          *)
  serializing,     (* locals of serializeCoverageReport                     *)
  crashed,         (* a null CoverageHistory was dereferenced               *)
  (* What really happened, and what the clients got *)
  depth,           (* frames of main on the stack of each thread            *)
  ran,             (* the methods each invocation of a thread ran           *)
  published,       (* reports pushed by each thread                         *)
  histories        (* what GetHistory returned                              *)

trackerVars == <<threadIdMapping, stackBalances>>
methodVars  == <<collectedMethods, collectedMethodsMutex>>
visitedVars == <<visitedMethods, visitedMethodsMutex>>
reportVars  == <<serializedCoverage, serializedCoverageThreadIds, serializedCoverageMutex>>
localVars   == <<probe, finishing, serializing>>
ghostVars   == <<depth, ran, published, histories>>
vars == <<threadIdMapping, stackBalances, collectedMethods, collectedMethodsMutex,
          visitedMethods, visitedMethodsMutex, trackedCoverage,
          serializedCoverage, serializedCoverageThreadIds, serializedCoverageMutex,
          pc, probe, finishing, serializing, crashed,
          depth, ran, published, histories>>

MethodIds == 0..(collectedMethods - 1)

At(t, label)         == ~crashed /\ pc[t] = label
Goto(t, label)       == pc' = [pc EXCEPT ![t] = label]
Step(t, from, label) == At(t, from) /\ Goto(t, label)

Tracked(t) == stackBalances[t] # None

-----------------------------------------------------------------------------
(* A record is tagged with the invocation in which it was made.            *)
NewHistory(t, m) ==
  [records |-> {<<Len(ran[t]), m>>}, visitedMethods |-> {m}]

(* CoverageHistory::addCoverage *)
Extended(history, t, m) ==
  [records        |-> history.records \cup {<<Len(ran[t]), m>>},
   visitedMethods |-> history.visitedMethods \cup {m}]

CallProbe(t, m, after) == probe' = [probe EXCEPT ![t] = [method |-> m, after |-> after]]

(* What an invocation passed: the methods of its coverage points.  A new   *)
(* outermost invocation, or one more point of this one.                    *)
Ran(t, m) ==
  LET s == ran[t]
  IN  ran' = [ran EXCEPT ![t] = IF depth[t] = 0 THEN Append(s, {m})
                                ELSE [s EXCEPT ![Len(s)] = s[Len(s)] \cup {m}]]

-----------------------------------------------------------------------------
(* Requests of the executor, and JIT compilation                           *)

(* Without Concurrent, a history is requested when no thread runs main and *)
(* main is not entered before the request is done, as when one Execute     *)
(* runs at a time and main starts no threads.                              *)
Collecting(t) == pc[t] \in {"lockCollected", "lockSerialized", "methods", "mapping",
                            "report", "clearCoverage", "clearMapping", "clearBalances"}

MayRunMain == Concurrent \/ \A t \in Threads : ~Collecting(t)
MayCollect == Concurrent \/ \A t \in Threads : pc[t] = "idle" /\ depth[t] = 0

SetCurrentThreadId(t, id) ==
  /\ At(t, "idle") /\ depth[t] = 0 /\ MayRunMain
  /\ Len(ran[t]) < MaxInvocations
  /\ threadIdMapping' = [threadIdMapping EXCEPT ![t] = id]
  /\ UNCHANGED <<stackBalances, methodVars, visitedVars, trackedCoverage, reportVars,
                 pc, localVars, crashed, ghostVars>>

CollectMethod(t) ==
  /\ At(t, "idle") /\ collectedMethodsMutex = None
  /\ collectedMethods < MaxMethods
  /\ collectedMethods' = collectedMethods + 1
  /\ UNCHANGED <<trackerVars, collectedMethodsMutex, visitedVars, trackedCoverage,
                 reportVars, pc, localVars, crashed, ghostVars>>

-----------------------------------------------------------------------------
(* Track_EnterMain.  A recursive entry is no coverage point.               *)
EnterMain(t, m) ==
  /\ At(t, "idle") /\ MayRunMain /\ depth[t] < MaxDepth
  /\ depth[t] = 0 => Len(ran[t]) < MaxInvocations
  /\ depth' = [depth EXCEPT ![t] = @ + 1]
  /\ IF depth[t] = 0 THEN Ran(t, m) ELSE UNCHANGED ran
  /\ CallProbe(t, m, "idle")
  /\ Goto(t, IF Tracked(t) THEN "recursive" ELSE "track")
  /\ UNCHANGED <<trackerVars, methodVars, visitedVars, trackedCoverage, reportVars,
                 finishing, serializing, crashed, published, histories>>

(* ThreadStorage::update reads a missing entry as zero.                    *)
Balance(t) == IF Tracked(t) THEN stackBalances[t] ELSE 0

StackBalance(t, value) ==
  /\ stackBalances' = [stackBalances EXCEPT ![t] = value]
  /\ UNCHANGED <<threadIdMapping, methodVars, visitedVars, trackedCoverage, reportVars,
                 localVars, crashed, ran, published, histories>>

TrackCurrentThread(t) ==
  /\ Step(t, "track", "up")
  /\ StackBalance(t, 0) /\ UNCHANGED depth

StackBalanceUp(t) ==
  /\ \/ Step(t, "up", "enterMain")
     \/ Step(t, "recursive", "idle")
  /\ StackBalance(t, Balance(t) + 1) /\ UNCHANGED depth

(* addCoverage(EnterMain): only the first record of a history creates it.  *)
AddEnterMain(t) ==
  /\ At(t, "enterMain")
  /\ IF trackedCoverage[t] = None
     THEN /\ trackedCoverage' = [trackedCoverage EXCEPT ![t] = NewHistory(t, probe[t].method)]
          /\ Goto(t, "idle")
     ELSE /\ Goto(t, "append")
          /\ UNCHANGED trackedCoverage
  /\ UNCHANGED <<trackerVars, methodVars, visitedVars, reportVars, localVars, crashed,
                 ghostVars>>

(* The other probes of main, Track_LeaveMain among them.                   *)
Cover(t, m) ==
  /\ At(t, "idle") /\ depth[t] > 0
  /\ Ran(t, m)
  /\ CallProbe(t, m, "idle")
  /\ Goto(t, IF Tracked(t) THEN "append" ELSE "idle")
  /\ UNCHANGED <<trackerVars, methodVars, visitedVars, trackedCoverage, reportVars,
                 finishing, serializing, crashed, depth, published, histories>>

LeaveMain(t, m) ==
  /\ At(t, "idle") /\ depth[t] > 0
  /\ Ran(t, m)
  /\ CallProbe(t, m, "down")
  /\ Goto(t, IF Tracked(t) THEN "append" ELSE "idle")
  /\ depth' = IF Tracked(t) THEN depth ELSE [depth EXCEPT ![t] = @ - 1]
  /\ UNCHANGED <<trackerVars, methodVars, visitedVars, trackedCoverage, reportVars,
                 finishing, serializing, crashed, published, histories>>

(* addCoverage: the history is loaded, null when its entry is gone.        *)
AddCoverage(t) ==
  /\ At(t, "append")
  /\ IF trackedCoverage[t] = None
     THEN /\ crashed' = TRUE
          /\ UNCHANGED <<trackedCoverage, pc>>
     ELSE /\ trackedCoverage' = [trackedCoverage EXCEPT ![t] = Extended(@, t, probe[t].method)]
          /\ Goto(t, probe[t].after)
          /\ UNCHANGED crashed
  /\ UNCHANGED <<trackerVars, methodVars, visitedVars, reportVars, localVars, ghostVars>>

(* Seeded defect: the innermost return of main ends the invocation.        *)
StackBalanceDownAtOnce(t) ==
  /\ At(t, "down")
  /\ StackBalance(t, Balance(t) - 1)
  /\ Goto(t, "finish") /\ UNCHANGED depth

(* The frame of main goes when its leave probe returns. *)
StackBalanceDown(t) ==
  /\ At(t, "down")
  /\ StackBalance(t, Balance(t) - 1)
  /\ IF Balance(t) = 1
     THEN Goto(t, "finish") /\ UNCHANGED depth
     ELSE Goto(t, "idle") /\ depth' = [depth EXCEPT ![t] = @ - 1]
-----------------------------------------------------------------------------
(* invocationFinished, then the rest of onCurrentThreadFinished            *)
LoadCoverage(t) ==
  /\ At(t, "finish")
  /\ IF trackedCoverage[t] = None
     THEN crashed' = TRUE /\ UNCHANGED <<pc, finishing>>
     ELSE /\ finishing' = [finishing EXCEPT ![t] =
                            [id |-> 0, history |-> trackedCoverage[t]]]
          /\ Goto(t, "hasMapping")
          /\ UNCHANGED crashed
  /\ UNCHANGED <<trackerVars, methodVars, visitedVars, trackedCoverage, reportVars,
                 probe, serializing, ghostVars>>

HasMapping(t) ==
  /\ Step(t, "hasMapping", IF threadIdMapping[t] = None THEN "lockVisited" ELSE "loadMapping")
  /\ UNCHANGED <<trackerVars, methodVars, visitedVars, trackedCoverage, reportVars,
                 localVars, crashed, ghostVars>>

(* Seeded defect: the missing entry is returned as it is.                  *)
LoadedIdUnchecked(t) == threadIdMapping[t]

(* The mapping may have been cleared since: load() then inserts a zero.    *)
LoadedId(t) == IF threadIdMapping[t] = None THEN 0 ELSE threadIdMapping[t]

LoadMapping(t) ==
  /\ Step(t, "loadMapping", "lockVisited")
  /\ finishing' = [finishing EXCEPT ![t].id = LoadedId(t)]
  /\ threadIdMapping' = [threadIdMapping EXCEPT ![t] = LoadedId(t)]
  /\ UNCHANGED <<stackBalances, methodVars, visitedVars, trackedCoverage, reportVars,
                 probe, serializing, crashed, ghostVars>>

LockVisited(t) ==
  /\ Step(t, "lockVisited", "insertVisited")
  /\ visitedMethodsMutex = None
  /\ visitedMethodsMutex' = t
  /\ UNCHANGED <<trackerVars, methodVars, visitedMethods, trackedCoverage, reportVars,
                 localVars, crashed, ghostVars>>

InsertVisited(t) ==
  /\ Step(t, "insertVisited", "removeCoverage")
  /\ visitedMethods' = visitedMethods \cup finishing[t].history.visitedMethods
  /\ visitedMethodsMutex' = None
  /\ UNCHANGED <<trackerVars, methodVars, trackedCoverage, reportVars, localVars,
                 crashed, ghostVars>>

RemoveCoverage(t) ==
  /\ Step(t, "removeCoverage", "push")
  /\ trackedCoverage' = [trackedCoverage EXCEPT ![t] = None]
  /\ UNCHANGED <<trackerVars, methodVars, visitedVars, reportVars, localVars, crashed,
                 ghostVars>>

(* `serial` tells the reports of a thread apart. *)
PushReport(t) ==
  /\ Step(t, "push", "untrack")
  /\ serializedCoverageMutex = None
  /\ serializedCoverage' =
       Append(serializedCoverage,
              [id |-> finishing[t].id, thread |-> t, serial |-> published[t] + 1,
               records |-> finishing[t].history.records])
  /\ serializedCoverageThreadIds' = serializedCoverageThreadIds \cup {finishing[t].id}
  /\ published' = [published EXCEPT ![t] = @ + 1]
  /\ UNCHANGED <<trackerVars, methodVars, visitedVars, trackedCoverage,
                 serializedCoverageMutex, localVars, crashed, depth, ran, histories>>

RemoveBalance(t) ==
  /\ Step(t, "untrack", "unmap")
  /\ StackBalance(t, None) /\ UNCHANGED depth

RemoveMapping(t) ==
  /\ Step(t, "unmap", "idle")
  /\ threadIdMapping' = [threadIdMapping EXCEPT ![t] = None]
  /\ depth' = [depth EXCEPT ![t] = @ - 1]
  /\ UNCHANGED <<stackBalances, methodVars, visitedVars, trackedCoverage, reportVars,
                 localVars, crashed, ran, published, histories>>

-----------------------------------------------------------------------------
(* GetHistory *)
GetHistory(t) ==
  /\ Step(t, "idle", "lockCollected")
  /\ depth[t] = 0 /\ MayCollect
  /\ Len(histories) + Cardinality({u \in Threads : Collecting(u)}) < MaxHistories
  /\ UNCHANGED <<trackerVars, methodVars, visitedVars, trackedCoverage, reportVars,
                 localVars, crashed, ghostVars>>

LockCollected(t) ==
  /\ Step(t, "lockCollected", "lockSerialized")
  /\ collectedMethodsMutex = None
  /\ collectedMethodsMutex' = t
  /\ UNCHANGED <<trackerVars, collectedMethods, visitedVars, trackedCoverage, reportVars,
                 localVars, crashed, ghostVars>>

(* Seeded defect: the reports are not locked while the methods are listed. *)
LockSerializedLate(t) ==
  /\ Step(t, "lockSerialized", "methods")
  /\ serializing' = [serializing EXCEPT ![t] = [next |-> 0, methods |-> {}, torn |-> FALSE, mapped |-> {}]]
  /\ UNCHANGED <<trackerVars, methodVars, visitedVars, trackedCoverage, reportVars,
                 probe, finishing, crashed, ghostVars>>

LockSerialized(t) ==
  /\ Step(t, "lockSerialized", "methods")
  /\ serializedCoverageMutex = None
  /\ serializedCoverageMutex' = t
  /\ serializing' = [serializing EXCEPT ![t] = [next |-> 0, methods |-> {}, torn |-> FALSE, mapped |-> {}]]
  /\ UNCHANGED <<trackerVars, methodVars, visitedVars, trackedCoverage,
                 serializedCoverage, serializedCoverageThreadIds, probe, finishing,
                 crashed, ghostVars>>

(* One turn of the loop over collectedMethods.  visitedMethods is read     *)
(* without its mutex: during an insertion the answer may be any.           *)
Racing == visitedMethodsMutex # None

Examined(local, found) ==
  [next    |-> local.next + 1,
   methods |-> IF found THEN local.methods \cup {local.next} ELSE local.methods,
   torn    |-> local.torn \/ Racing,
   mapped  |-> local.mapped]

SerializeMethod(t) ==
  /\ At(t, "methods")
  /\ serializing[t].next < collectedMethods
  /\ \E found \in BOOLEAN :
       /\ Racing \/ (found <=> serializing[t].next \in visitedMethods)
       /\ serializing' = [serializing EXCEPT ![t] = Examined(serializing[t], found)]
  /\ UNCHANGED <<trackerVars, methodVars, visitedVars, trackedCoverage, reportVars,
                 pc, probe, finishing, crashed, ghostVars>>

EndOfMethods(t) ==
  /\ Step(t, "methods", "mapping")
  /\ serializing[t].next = collectedMethods
  /\ UNCHANGED <<trackerVars, methodVars, visitedVars, trackedCoverage, reportVars,
                 localVars, crashed, ghostVars>>

MappedIds == {threadIdMapping[t] : t \in Threads} \ {None}

ReadMapping(t) ==
  /\ Step(t, "mapping", "report")
  /\ serializing' = [serializing EXCEPT ![t].mapped = MappedIds]
  /\ UNCHANGED <<trackerVars, methodVars, visitedVars, trackedCoverage, reportVars,
                 probe, finishing, crashed, ghostVars>>

(* An empty report for each mapped id that never had a report.             *)
MissingIds(t) == serializing[t].mapped \ serializedCoverageThreadIds

EmptyReport(t, id) ==
  /\ At(t, "report")
  /\ serializedCoverage' =
       Append(serializedCoverage, [id |-> id, thread |-> t, serial |-> 0, records |-> {}])
  /\ serializedCoverageThreadIds' = serializedCoverageThreadIds \cup {id}
  /\ UNCHANGED <<trackerVars, methodVars, visitedVars, trackedCoverage,
                 serializedCoverageMutex, pc, localVars, crashed, ghostVars>>

DeliveredHistory(t) ==
  [methods |-> serializing[t].methods, reports |-> serializedCoverage,
   torn    |-> serializing[t].torn,    mapped  |-> serializing[t].mapped]

(* Seeded defects: the delivered reports stay, a mutex stays locked.       *)
SerializeReportsKept(t) ==
  /\ Step(t, "report", "clearCoverage")
  /\ MissingIds(t) = {}
  /\ histories' = Append(histories, DeliveredHistory(t))
  /\ trackedCoverage' = [u \in Threads |-> None]
  /\ serializedCoverageMutex' = None /\ collectedMethodsMutex' = None
  /\ UNCHANGED <<trackerVars, collectedMethods, visitedVars, serializedCoverage,
                 serializedCoverageThreadIds, localVars, crashed, depth, ran, published>>

SerializeReportsLocked(t) ==
  /\ Step(t, "report", "clearCoverage")
  /\ MissingIds(t) = {}
  /\ histories' = Append(histories, DeliveredHistory(t))
  /\ trackedCoverage' = [u \in Threads |-> None]
  /\ serializedCoverage' = <<>> /\ collectedMethodsMutex' = None
  /\ UNCHANGED <<trackerVars, collectedMethods, visitedVars, serializedCoverageMutex,
                 serializedCoverageThreadIds, localVars, crashed, depth, ran, published>>

(* The report is written, both mutexes are released.                       *)
SerializeReports(t) ==
  /\ Step(t, "report", "clearCoverage")
  /\ MissingIds(t) = {}
  /\ histories' = Append(histories, DeliveredHistory(t))
  /\ trackedCoverage' = [u \in Threads |-> None]
  /\ serializedCoverage' = <<>>
  /\ serializedCoverageMutex' = None
  /\ collectedMethodsMutex' = None
  /\ UNCHANGED <<trackerVars, collectedMethods, visitedVars, serializedCoverageThreadIds,
                 localVars, crashed, depth, ran, published>>

ClearCoverage(t) ==
  /\ Step(t, "clearCoverage", "clearMapping")
  /\ trackedCoverage' = [u \in Threads |-> None]
  /\ UNCHANGED <<trackerVars, methodVars, visitedVars, reportVars, localVars, crashed,
                 ghostVars>>

ClearMapping(t) ==
  /\ Step(t, "clearMapping", "clearBalances")
  /\ threadIdMapping' = [u \in Threads |-> None]
  /\ UNCHANGED <<stackBalances, methodVars, visitedVars, trackedCoverage, reportVars,
                 localVars, crashed, ghostVars>>

ClearBalances(t) ==
  /\ Step(t, "clearBalances", "idle")
  /\ stackBalances' = [u \in Threads |-> None]
  /\ UNCHANGED <<threadIdMapping, methodVars, visitedVars, trackedCoverage, reportVars,
                 localVars, crashed, ghostVars>>

-----------------------------------------------------------------------------
NoHistory == [records |-> {}, visitedMethods |-> {}]

Init ==
  /\ threadIdMapping = [t \in Threads |-> None]
  /\ stackBalances = [t \in Threads |-> None]
  /\ collectedMethods = 0 /\ collectedMethodsMutex = None
  /\ visitedMethods = {} /\ visitedMethodsMutex = None
  /\ trackedCoverage = [t \in Threads |-> None]
  /\ serializedCoverage = <<>> /\ serializedCoverageThreadIds = {}
  /\ serializedCoverageMutex = None
  /\ pc = [t \in Threads |-> "idle"]
  /\ probe = [t \in Threads |-> [method |-> 0, after |-> "idle"]]
  /\ finishing = [t \in Threads |-> [id |-> 0, history |-> NoHistory]]
  /\ serializing = [t \in Threads |->
                      [next |-> 0, methods |-> {}, torn |-> FALSE, mapped |-> {}]]
  /\ crashed = FALSE
  /\ depth = [t \in Threads |-> 0]
  /\ ran = [t \in Threads |-> <<>>]
  /\ published = [t \in Threads |-> 0]
  /\ histories = <<>>

(* What the runtime and the clients may ask of an idle thread.             *)
Request(t) ==
  \/ \E id \in MapIds : SetCurrentThreadId(t, id)
  \/ CollectMethod(t)
  \/ \E m \in MethodIds : EnterMain(t, m) \/ Cover(t, m) \/ LeaveMain(t, m)
  \/ GetHistory(t)

(* What a thread does until the callback or request returns.               *)
ProbeStep(t) ==
  \/ TrackCurrentThread(t) \/ StackBalanceUp(t) \/ StackBalanceDown(t)
  \/ AddEnterMain(t) \/ AddCoverage(t)

FinishStep(t) ==
  \/ LoadCoverage(t) \/ HasMapping(t) \/ LoadMapping(t)
  \/ LockVisited(t) \/ InsertVisited(t)
  \/ RemoveCoverage(t) \/ PushReport(t) \/ RemoveBalance(t) \/ RemoveMapping(t)

SerializeStep(t) ==
  \/ LockCollected(t) \/ LockSerialized(t)
  \/ SerializeMethod(t) \/ EndOfMethods(t) \/ ReadMapping(t)
  \/ \E id \in MissingIds(t) : EmptyReport(t, id)
  \/ SerializeReports(t)
  \/ ClearCoverage(t) \/ ClearMapping(t) \/ ClearBalances(t)

Work(t) == ProbeStep(t) \/ FinishStep(t) \/ SerializeStep(t)

Next == \E t \in Threads : Request(t) \/ Work(t)

Spec == Init /\ [][Next]_vars

(* Every thread the operating system runs finishes the callback it is in.  *)
FairSpec == Spec /\ \A t \in Threads : WF_vars(Work(t))

-----------------------------------------------------------------------------
Labels == {"idle", "track", "recursive", "up", "enterMain", "append", "down",
           "finish", "hasMapping", "loadMapping", "lockVisited", "insertVisited",
           "removeCoverage", "push", "untrack", "unmap",
           "lockCollected", "lockSerialized", "methods", "mapping", "report",
           "clearCoverage", "clearMapping", "clearBalances"}
Probes    == [method : Nat, after : {"idle", "down"}]
Finishing == [id : Int, history : Histories]
Reports   == [id : Int, thread : Threads, serial : Nat, records : SUBSET Records]
Serializing     == [next : Nat, methods : SUBSET Nat, torn : BOOLEAN, mapped : SUBSET Int]
ClientHistories == [methods : SUBSET Nat, reports : Seq(Reports),
                    torn : BOOLEAN, mapped : SUBSET Int]

(* Every variable has its type.                                            *)
TypeOK ==
  /\ threadIdMapping \in [Threads -> Int \cup {None}]
  /\ stackBalances \in [Threads -> Int \cup {None}]
  /\ collectedMethods \in Nat
  /\ collectedMethodsMutex \in Threads \cup {None}
  /\ visitedMethods \in SUBSET Nat
  /\ visitedMethodsMutex \in Threads \cup {None}
  /\ trackedCoverage \in [Threads -> Histories \cup {None}]
  /\ serializedCoverage \in Seq(Reports)
  /\ serializedCoverageThreadIds \in SUBSET Int
  /\ serializedCoverageMutex \in Threads \cup {None}
  /\ pc \in [Threads -> Labels]
  /\ probe \in [Threads -> Probes]
  /\ finishing \in [Threads -> Finishing]
  /\ serializing \in [Threads -> Serializing]
  /\ crashed \in BOOLEAN
  /\ depth \in [Threads -> Int]
  /\ ran \in [Threads -> Seq(SUBSET Nat)]
  /\ published \in [Threads -> Nat]
  /\ histories \in Seq(ClientHistories)

(* The methods that records refer to.                                      *)
MethodsOf(records) == {r[2] : r \in records}

(* Every method a record of a history refers to is in the method table of  *)
(* that history, or the client cannot resolve it: a report is serialized   *)
(* only after its methods were marked as visited, whatever is interleaved. *)
(* A torn read of the set of visited methods is the only exception.        *)
DictionaryClosed ==
  \A h \in 1..Len(histories) : ~histories[h].torn =>
    \A i \in 1..Len(histories[h].reports) :
      MethodsOf(histories[h].reports[i].records) \subseteq histories[h].methods

(* Why DictionaryClosed holds: the invariant that makes it inductive.      *)

(* A mutex is held exactly where the code is inside its guarded block.     *)
MutexesHeld ==
  \A t \in Threads :
    /\ collectedMethodsMutex = t   <=> pc[t] \in {"lockSerialized", "methods", "mapping", "report"}
    /\ serializedCoverageMutex = t <=> pc[t] \in {"methods", "mapping", "report"}
    /\ visitedMethodsMutex = t     <=> pc[t] = "insertVisited"

(* A history lists the methods of its records, and all were collected.     *)
Closed(history, collected) ==
  /\ MethodsOf(history.records) \subseteq history.visitedMethods
  /\ history.visitedMethods \subseteq collected

HistoriesClosed ==
  \A t \in Threads :
    /\ pc[t] \in {"track", "up", "enterMain", "append"} => probe[t].method \in MethodIds
    /\ trackedCoverage[t] # None => Closed(trackedCoverage[t], MethodIds)
    /\ Closed(finishing[t].history, MethodIds)

(* A report waits only after its methods were marked as visited.           *)
WaitingMethods ==
  UNION {MethodsOf(serializedCoverage[i].records) : i \in 1..Len(serializedCoverage)}

VisitedBeforePushed ==
  /\ WaitingMethods \subseteq visitedMethods
  /\ visitedMethods \subseteq MethodIds
  /\ \A t \in Threads : pc[t] \in {"removeCoverage", "push"} =>
       finishing[t].history.visitedMethods \subseteq visitedMethods

(* The loop over the collected methods has found those of waiting reports. *)
ScanIsComplete ==
  \A t \in Threads :
    /\ pc[t] \in {"methods", "mapping", "report"} /\ ~serializing[t].torn =>
         \A m \in WaitingMethods : m < serializing[t].next => m \in serializing[t].methods
    /\ pc[t] \in {"mapping", "report"} => serializing[t].next = collectedMethods

DictionaryInv ==
  /\ MutexesHeld /\ HistoriesClosed /\ VisitedBeforePushed /\ ScanIsComplete
  /\ DictionaryClosed

(* A finished invocation is reported to one client, once: CoverageTracker  *)
(* is a mailbox of reports, however requests and finishing invocations     *)
(* interleave.  The empty reports of idle threads have no name.            *)
NamesOf(reports) ==
  {<<reports[i].thread, reports[i].serial>> :
     i \in {j \in 1..Len(reports) : reports[j].serial > 0}}

Mailbox == INSTANCE ReportMailbox WITH
             Publishers <- Threads,
             waiting    <- NamesOf(serializedCoverage),
             delivered  <- [h \in 1..Len(histories) |-> NamesOf(histories[h].reports)]

MailboxSpec == Mailbox!Spec

(* When histories are requested between invocations, the n-th report of a  *)
(* thread says what its n-th invocation ran, no more and no less, and no   *)
(* invocation that ended is without its report.                            *)
ReportsAreExact ==
  /\ ~crashed
  /\ \A t \in Threads : depth[t] = 0 => published[t] = Len(ran[t])
  /\ \A h \in 1..Len(histories) : \A i \in 1..Len(histories[h].reports) :
       LET r == histories[h].reports[i]
       IN  r.serial > 0 => r.records = {<<r.serial, m>> : m \in ran[r.thread][r.serial]}

(* A history has a report for each thread id that is mapped: "Thread may   *)
(* not enter main, but we still need empty coverage for this thread".      *)
MappedThreadsReported ==
  \A h \in 1..Len(histories) :
    histories[h].mapped \subseteq
      {histories[h].reports[i].id : i \in 1..Len(histories[h].reports)}

(* A callback or request that began returns: the mutexes are released and  *)
(* taken in one order, so no thread waits for ever.                        *)
CallbacksReturn ==
  \A t \in Threads : (pc[t] # "idle") ~> (pc[t] = "idle" \/ crashed)
=============================================================================
