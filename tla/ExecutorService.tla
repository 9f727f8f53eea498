-------------------------- MODULE ExecutorService --------------------------
(***************************************************************************)
(* ConcreteExecutorService.Execute: a request with a batch of tests is     *)
(* served on a thread of its own.  It resolves each test, names its method *)
(* as the entry method, calls it, compares what it returned or threw with  *)
(* what was expected, and asks the profiler for the coverage of all calls. *)
(*                                                                         *)
(* Requests share the caches of types and of methods, the profiler and the *)
(* buffer of the deserializer; nothing serializes them.  An invocation     *)
(* calls methods, executes blocks and leaves frames, one step each, with   *)
(* what the probes do in it; ThreadTracking adds filters and tail calls,   *)
(* and CoverageReports what goes on inside a probe and inside GetHistory.  *)
(***************************************************************************)
EXTENDS TestResolution, ReportCodec

CONSTANTS
  Batches,         (* what the clients may send: a test sequence per task,  *)
                   (* or None                                               *)
  Methods,
  InfoOf,          (* a method's MethodInfo                                 *)
  AssemblyOf,      (* a type's assembly, by name                            *)
  Missing,         (* methods whose type or name is not found               *)
  NoGraph,         (* methods whose control flow graph cannot be built      *)
  ExceptionTypes,
  ExpectedCoverage,(* of a method: how many blocks, or None if it has no    *)
                   (* SvmTestAttribute                                      *)
  Garbage,         (* what requests that move each other's offset may read, *)
                   (* besides a history as it was sent                      *)
  StrayOffsets     (* where they may leave it                               *)

(* What goes on in an invocation: a method is called, a block is executed, *)
(* the current frame returns or is left by an exception.                   *)
Events == [kind : {"enter"}, method : Methods] \cup [kind : {"block"}, offset : Nat]
            \cup [kind : {"leave", "unwind"}]

(* What a call may do: write to objects there are and return, throw, or be *)
(* rejected for its arguments.                                             *)
Writes(mentioned) ==
  {s \in Statements(mentioned) : /\ Unknown \notin {s.instance, s.value}
                                 /\ s.index \in 1 .. SizeOf[s.instance]}
Outcomes(mentioned) ==
  {o \in [kind : {"returns", "throws", "rejects"}, writes : Seq(Writes(mentioned)),
          value : Expressions(mentioned) \ {Unknown}, type : ExceptionTypes \cup {None},
          trace : Seq(Events)] :
     o.kind = "throws" => o.type # None}

(* The tests that mention some addresses, and no more than the heap holds. *)
TestsOn(mentioned) ==
  [method : Methods, arrange : Seq(Statements(mentioned)),
   args : Seq(Expressions(mentioned)), expected : Expressions(mentioned),
   outcomes : SUBSET Outcomes(mentioned)]
Fitting == {M \in SUBSET Addresses : IsFiniteSet(M) /\ Cardinality(M) <= Cardinality(Objects)}

Results == [kind : {"error"}] \cup [kind : {"success"}, coverage : SUBSET Nat]
             \cup [kind : {"fail"}, reproduced : Nat, coverage : SUBSET Nat]

ASSUME ServiceAssumption ==
  /\ ExceptionTypes \subseteq Types
  /\ ExpectedCoverage \in [Methods -> Nat \cup {None}]
  /\ InfoOf \in [Methods -> MethodInfos]
  /\ AssemblyOf \in [Types -> Seq(Characters)]
  /\ StrayOffsets \subseteq Nat
  /\ \A h \in Garbage :
       /\ DOMAIN h.methods \subseteq Nat /\ h.methods \in [DOMAIN h.methods -> MethodInfos]
       /\ h.reports \in Seq([threadId : Nat, records : Seq([method : Nat, offset : Nat])])
  /\ \A m, n \in Methods :
       InfoOf[m].token = InfoOf[n].token /\ InfoOf[m].module = InfoOf[n].module => m = n
  /\ None \notin Results /\ None \notin Int /\ None \notin Methods
  /\ \A b \in Batches : DOMAIN b = Tasks
  /\ \A b \in Batches : \A t \in Tasks : b[t] # None =>
       b[t] \in Seq({test \in TestsOn(Addresses) : \E M \in Fitting : test \in TestsOn(M)})

VARIABLES
  batch,           (* the requests                                          *)
  pc,
  local,           (* the locals of Execute: the test in hand, its          *)
                   (* exception and expected value, the counts              *)
  invoked,         (* what the invocation of the test in hand is to do      *)
  todo, stack,     (* its events to come, and its frames, the current first *)
  outcome,         (* the value it returned                                 *)
  instances,       (* _instances of the resolver of the test in hand        *)
  result,          (* ExecutionResult, None before                          *)
  typesCache,      (* keys of TypesCache                                    *)
  methods,         (* keys of Application.methods                           *)
  (* The profiler, as far as requests see it                                *)
  mainMethod, mainFunctionId, compiled, probed,
  collectedMethods, visitedMethods, serializedCoverage,
  balance,         (* stackBalances of the requests' threads                *)
  history,         (* their trackedCoverage                                 *)
  threadIdMapping, (* the tasks whose thread is mapped to 0                 *)
  zeroWasReported, (* whether serializedCoverageThreadIds has 0             *)
  (* The deserializer: its statics, and each request's locals               *)
  data, dataOffset,
  received,        (* the bytes of the request's history                    *)
  reading,         (* entries left, methods and reports read so far         *)
  (* History *)
  asExpected,      (* of each test handled: did it do what was expected     *)
  sent,            (* the methods and reports in the request's history      *)
  executed,        (* blocks of the batch's method its invocations executed *)
  skewed,          (* requests a frame of which stayed on the balance       *)
  disturbed,       (* requests that used the deserializer with another one  *)
  overlapped       (* whether two requests were ever served at once         *)

sharedVars   == <<typesCache, methods>>
codeVars     == <<mainMethod, mainFunctionId, compiled, probed, collectedMethods>>
reportVars   == <<visitedMethods, serializedCoverage, balance, history, threadIdMapping,
                  zeroWasReported>>
profilerVars == <<codeVars, reportVars>>
readerVars   == <<data, dataOffset, received, reading, sent, disturbed>>
callVars     == <<invoked, todo, stack, executed, skewed>>
testVars     == <<local, outcome, instances, asExpected, callVars>>
vars == <<comparerVars, batch, pc, testVars, result, sharedVars, profilerVars,
          readerVars, overlapped>>

NewLocals == [test |-> 1, expectedException |-> None, expected |-> Null,
              reproduced |-> 0, failed |-> 0, entryMainWasSet |-> FALSE, assembly |-> None]
NoHistory == [methods |-> {}, records |-> <<>>]

Goto(t, place) == pc' = [pc EXCEPT ![t] = place]
Serving == {t \in Tasks : pc[t] \notin {"idle", "done"}}
Tests(t) == batch[t]
Test(t) == batch[t][local[t].test]
BatchMethod(t) == batch[t][1].method

Answer(t, value) ==
  /\ result' = [result EXCEPT ![t] = value]
  /\ Goto(t, "done")

(* An exception leaves Execute: the client gets an error.                  *)
Throw(t) ==
  /\ Answer(t, [kind |-> "error"])
  /\ UNCHANGED <<comparerVars, batch, testVars, sharedVars, profilerVars, readerVars,
                 overlapped>>

Receive(t) ==
  /\ pc[t] = "idle" /\ batch[t] # None
  /\ Goto(t, "types")
  /\ overlapped' = (overlapped \/ Serving # {})
  /\ UNCHANGED <<comparerVars, batch, testVars, result, sharedVars, profilerVars,
                 readerVars>>

-----------------------------------------------------------------------------
(* ResolveBatchExploredMethod and getMethod: both caches are looked up and *)
(* then added to, and adding a key that is there throws.  GetMethod is the *)
(* second of getValueOrUpdate's two lookups: the first one adds nothing.   *)
Assembly(m) == InfoOf[m].assembly

ResolveType(t) ==
  /\ pc[t] = "types" /\ Tests(t) # <<>>
  /\ Goto(t, IF Assembly(BatchMethod(t)) \in typesCache THEN "method" ELSE "addTypes")
  /\ UNCHANGED <<comparerVars, batch, testVars, result, sharedVars, profilerVars,
                 readerVars, overlapped>>

AddTypes(t) ==
  /\ pc[t] = "addTypes" /\ Assembly(BatchMethod(t)) \notin typesCache
  /\ typesCache' = typesCache \cup {Assembly(BatchMethod(t))}
  /\ Goto(t, "method")
  /\ UNCHANGED <<comparerVars, batch, testVars, result, methods, profilerVars,
                 readerVars, overlapped>>

GetMethod(t) ==
  /\ pc[t] = "method" /\ BatchMethod(t) \notin Missing
  /\ Goto(t, IF BatchMethod(t) \in methods THEN "graph" ELSE "addMethod")
  /\ UNCHANGED <<comparerVars, batch, testVars, result, sharedVars, profilerVars,
                 readerVars, overlapped>>

AddMethod(t) ==
  /\ pc[t] = "addMethod" /\ BatchMethod(t) \notin methods
  /\ methods' = methods \cup {BatchMethod(t)}
  /\ Goto(t, "graph")
  /\ UNCHANGED <<comparerVars, batch, testVars, result, typesCache, profilerVars,
                 readerVars, overlapped>>

BuildGraph(t) ==
  /\ pc[t] = "graph" /\ BatchMethod(t) \notin NoGraph
  /\ Goto(t, "resolve")
  /\ UNCHANGED <<comparerVars, batch, testVars, result, sharedVars, profilerVars,
                 readerVars, overlapped>>

LookupThrows(t) ==
  /\ \/ pc[t] = "types" /\ Tests(t) = <<>>
     \/ pc[t] = "addTypes" /\ Assembly(BatchMethod(t)) \in typesCache
     \/ pc[t] = "method" /\ BatchMethod(t) \in Missing
     \/ pc[t] = "addMethod" /\ BatchMethod(t) \in methods
     \/ pc[t] = "graph" /\ BatchMethod(t) \in NoGraph
  /\ Throw(t)

-----------------------------------------------------------------------------
(* Seeded defect: expectedException is declared outside the loop.          *)
CountedOnly(l, success) ==
  [l EXCEPT !.test = @ + 1,
            !.reproduced = @ + (IF success THEN 1 ELSE 0),
            !.failed = @ + (IF success THEN 0 ELSE 1)]

(* The test in hand is over.                                               *)
Counted(l, success) ==
  [l EXCEPT !.test = @ + 1, !.expectedException = None,
            !.reproduced = @ + (IF success THEN 1 ELSE 0),
            !.failed = @ + (IF success THEN 0 ELSE 1)]

NextTest(t, success) ==
  /\ local' = [local EXCEPT ![t] = Counted(@, success)]
  /\ Goto(t, "resolve")

Judge(t, verdict) == asExpected' = [asExpected EXCEPT ![t] = Append(@, verdict)]

MoreTests(t) == pc[t] = "resolve" /\ local[t].test <= Len(Tests(t))

(* The assemblies whose types a test mentions.                             *)
Mentions(test) ==
  LET statements == {test.arrange[i] : i \in DOMAIN test.arrange}
  IN {s.instance : s \in statements} \cup {s.value : s \in statements}
       \cup {test.args[i] : i \in DOMAIN test.args} \cup {test.expected}
Assemblies(test) ==
  {Assembly(test.method)} \cup {AssemblyOf[TypeOf[a]] : a \in Mentions(test) \cap Addresses}

(* Resolve comes upon an assembly that is not cached, and adds it.  A test *)
(* that finds it there by then is caught as a failed one.                  *)
FindTypes(t) ==
  /\ MoreTests(t)
  /\ \E a \in Assemblies(Test(t)) \ typesCache :
       local' = [local EXCEPT ![t].assembly = a]
  /\ Goto(t, "addTestTypes")
  /\ UNCHANGED <<comparerVars, batch, outcome, instances, asExpected, callVars, result,
                 sharedVars, profilerVars, readerVars, overlapped>>

AddTestTypes(t) ==
  /\ pc[t] = "addTestTypes" /\ local[t].assembly \notin typesCache
  /\ typesCache' = typesCache \cup {local[t].assembly}
  /\ Goto(t, "resolve")
  /\ UNCHANGED <<comparerVars, batch, testVars, result, methods, profilerVars,
                 readerVars, overlapped>>

TestTypesThere(t) ==
  /\ pc[t] = "addTestTypes" /\ local[t].assembly \in typesCache
  /\ NextTest(t, FALSE) /\ Judge(t, FALSE)
  /\ UNCHANGED <<comparerVars, batch, outcome, instances, callVars, result, sharedVars,
                 profilerVars, readerVars, overlapped>>

(* An expression that cannot be resolved, or no method of that name, which *)
(* m.IsStatic finds out.                                                   *)
Fails(test) == Resolve(test).failed \/ test.method \in Missing

ResolveFails(t) ==
  /\ MoreTests(t) /\ Fails(Test(t))
  /\ NextTest(t, FALSE) /\ Judge(t, FALSE)
  /\ UNCHANGED <<comparerVars, batch, outcome, instances, callVars, result, sharedVars,
                 profilerVars, readerVars, overlapped>>

(* The type of an expected exception, else what was expected before.       *)
ExceptionOf(e, before) ==
  IF e \in Addresses /\ TypeOf[e] \in ExceptionTypes THEN TypeOf[e] ELSE before

ResolveTest(t) ==
  LET r == Resolve(Test(t))
      e == Test(t).expected
  IN /\ MoreTests(t) /\ ~Fails(Test(t)) /\ Assemblies(Test(t)) \subseteq typesCache
     /\ heap' = [heap EXCEPT ![t] = r.heap] /\ Change(t)
     /\ instances' = [instances EXCEPT ![t] = r.instances]
     /\ local' = [local EXCEPT ![t].expected = Denoted(r, e),
                     ![t].expectedException = ExceptionOf(e, @)]
     /\ Goto(t, "setMain")
     /\ UNCHANGED <<batch, outcome, asExpected, callVars, result, sharedVars,
                    profilerVars, readerVars, overlapped>>

SetEntryMain(t) ==
  /\ pc[t] = "setMain"
  /\ mainMethod' = Test(t).method
  /\ local' = [local EXCEPT ![t].entryMainWasSet = TRUE]
  /\ Goto(t, "setThread")
  /\ UNCHANGED <<comparerVars, batch, outcome, instances, asExpected, callVars, result,
                 sharedVars, mainFunctionId, compiled, probed, collectedMethods, reportVars,
                 readerVars, overlapped>>

(* If a rejected call left a mapping, a build with assertions ends here    *)
(* (see InvokeFails in ThreadTracking); this is one without.               *)
SetCurrentThreadId(t) ==
  /\ pc[t] = "setThread"
  /\ threadIdMapping' = threadIdMapping \cup {t}
  /\ Goto(t, "invoke")
  /\ UNCHANGED <<comparerVars, batch, testVars, result, sharedVars, codeVars, visitedMethods,
                 serializedCoverage, balance, history, zeroWasReported, readerVars,
                 overlapped>>

-----------------------------------------------------------------------------
(* The invocation begins: its events follow.                               *)
Invoke(t) ==
  /\ pc[t] = "invoke"
  /\ \E o \in Test(t).outcomes :
       /\ o.kind # "rejects"
       /\ invoked' = [invoked EXCEPT ![t] = o]
       /\ todo' = [todo EXCEPT ![t] = o.trace]
  /\ Goto(t, "run")
  /\ UNCHANGED <<comparerVars, batch, local, outcome, instances, asExpected, stack, executed,
                 skewed, result, sharedVars, profilerVars, readerVars, overlapped>>

Tracked(t) == balance[t] # None
Frame(t) == Head(stack[t])
IdIn(collected, m) == CHOOSE i \in DOMAIN collected : collected[i] = m
IdOf(m) == IdIn(collectedMethods, m)

Event(t, kind) ==
  /\ pc[t] = "run" /\ todo[t] # <<>> /\ Head(todo[t]).kind = kind
  /\ todo' = [todo EXCEPT ![t] = Tail(@)]
  /\ UNCHANGED <<comparerVars, batch, pc, local, outcome, instances, asExpected, invoked,
                 result, sharedVars, mainMethod, readerVars, overlapped>>

(* A method is compiled when it is first called, with probes only if it is *)
(* the entry method then: one called before it is named never has any.     *)
Compile(m) ==
  /\ compiled' = compiled \cup {m}
  /\ IF m \notin compiled /\ m = mainMethod
     THEN /\ probed' = probed \cup {m}
          /\ collectedMethods' = Append(collectedMethods, m)
          /\ mainFunctionId' = m
     ELSE UNCHANGED <<probed, collectedMethods, mainFunctionId>>

(* The outermost frame with probes starts a history.                       *)
Track_EnterMain(t, m) ==
  IF Tracked(t)
  THEN balance' = [balance EXCEPT ![t] = @ + 1] /\ UNCHANGED history
  ELSE /\ balance' = [balance EXCEPT ![t] = 1]
       /\ history' = [history EXCEPT ![t] = [methods |-> {IdIn(collectedMethods', m)}, records |-> <<>>]]

Enter(t) ==
  /\ Event(t, "enter")
  /\ LET m == Head(todo[t]).method
     IN /\ Compile(m)
        /\ stack' = [stack EXCEPT ![t] = <<m>> \o @]
        /\ IF m \in probed' THEN Track_EnterMain(t, m) ELSE UNCHANGED <<balance, history>>
  /\ UNCHANGED <<executed, skewed, visitedMethods, serializedCoverage, threadIdMapping,
                 zeroWasReported>>

Track_Coverage(t, m, offset) ==
  history' = [history EXCEPT ![t] = [methods |-> @.methods \cup {IdOf(m)},
                                     records |-> Append(@.records, [method |-> IdOf(m),
                                                                    offset |-> offset])]]

Block(t) ==
  /\ Event(t, "block") /\ stack[t] # <<>>
  /\ LET offset == Head(todo[t]).offset
     IN /\ IF Tracked(t) /\ Frame(t) \in probed
           THEN Track_Coverage(t, Frame(t), offset) ELSE UNCHANGED history
        /\ executed' = [executed EXCEPT ![t] =
                          IF Frame(t) = BatchMethod(t) THEN @ \cup {offset} ELSE @]
  /\ UNCHANGED <<stack, skewed, mainFunctionId, compiled, probed, collectedMethods,
                 visitedMethods, serializedCoverage, balance, threadIdMapping, zeroWasReported>>

(* The thread is lost: what it tracked becomes a report.                   *)
InvocationFinished(t, tracked) ==
  /\ visitedMethods' = visitedMethods \cup tracked.methods
  /\ serializedCoverage' = Append(serializedCoverage,
       [threadId |-> 0, aborted |-> FALSE, records |-> tracked.records])
  /\ balance' = [balance EXCEPT ![t] = None]
  /\ history' = [history EXCEPT ![t] = NoHistory]
  /\ threadIdMapping' = threadIdMapping \ {t}
  /\ zeroWasReported' = TRUE

StackBalanceDown(t, tracked) ==
  IF balance[t] = 1 THEN InvocationFinished(t, tracked)
  ELSE /\ balance' = [balance EXCEPT ![t] = @ - 1]
       /\ history' = [history EXCEPT ![t] = tracked]
       /\ UNCHANGED <<visitedMethods, serializedCoverage, threadIdMapping, zeroWasReported>>

Pop(t) ==
  /\ stack[t] # <<>> /\ stack' = [stack EXCEPT ![t] = Tail(@)]
  /\ UNCHANGED <<executed, mainFunctionId, compiled, probed, collectedMethods>>

(* Track_LeaveMain, whose record has a method of its own to mark.          *)
Leave(t) ==
  /\ Event(t, "leave") /\ Pop(t) /\ UNCHANGED skewed
  /\ IF Tracked(t) /\ Frame(t) \in probed
     THEN StackBalanceDown(t, [history[t] EXCEPT !.methods = @ \cup {IdOf(Frame(t))}])
     ELSE UNCHANGED reportVars

(* unwindFunctionLeave: a frame counts only if it is of the entry method   *)
(* compiled last; another one with probes stays on the balance.            *)
Unwind(t) ==
  /\ Event(t, "unwind") /\ Pop(t)
  /\ IF Tracked(t) /\ Frame(t) = mainFunctionId THEN StackBalanceDown(t, history[t])
     ELSE UNCHANGED reportVars
  /\ skewed' = IF Frame(t) \in probed \ {mainFunctionId} THEN skewed \cup {t} ELSE skewed

Over(t, kind) ==
  pc[t] = "run" /\ todo[t] = <<>> /\ stack[t] = <<>> /\ invoked[t].kind = kind

(* Seeded defect: a test whose call was rejected is tried again.           *)
RejectedAgain(t) ==
  /\ pc[t] = "invoke"
  /\ \E o \in Test(t).outcomes : o.kind = "rejects"
  /\ Goto(t, "resolve")
  /\ UNCHANGED <<comparerVars, batch, testVars, result, sharedVars, profilerVars,
                 readerVars, overlapped>>

(* The arguments do not fit: an internal error.                            *)
Rejected(t) ==
  /\ pc[t] = "invoke"
  /\ \E o \in Test(t).outcomes : o.kind = "rejects"
  /\ NextTest(t, FALSE) /\ Judge(t, FALSE)
  /\ UNCHANGED <<comparerVars, batch, outcome, instances, callVars, result, sharedVars,
                 profilerVars, readerVars, overlapped>>

Throws(t) ==
  /\ Over(t, "throws")
  /\ NextTest(t, invoked[t].type = local[t].expectedException)
  /\ Judge(t, /\ Test(t).expected \in Addresses
              /\ invoked[t].type = TypeOf[Test(t).expected])
  /\ UNCHANGED <<comparerVars, batch, outcome, instances, callVars, result, sharedVars,
                 profilerVars, readerVars, overlapped>>

(* The method writes to objects, its arguments among them, and returns.    *)
Returns(t) ==
  LET o      == invoked[t]
      called == [instances |-> instances[t], heap |-> heap[t], failed |-> FALSE]
      over   == InstantiateExpression(Arranged(called, o.writes), o.value)
  IN /\ Over(t, "returns")
     /\ heap' = [heap EXCEPT ![t] = over.heap] /\ Change(t)
     /\ outcome' = [outcome EXCEPT ![t] = Denoted(over, o.value)]
     /\ Judge(t, Bisimilar(over.heap, local[t].expected, Denoted(over, o.value)))
     /\ Goto(t, "begin")
     /\ UNCHANGED <<batch, local, instances, callVars, result, sharedVars, profilerVars,
                    readerVars, overlapped>>

BeginComparison(t) ==
  /\ pc[t] = "begin"
  /\ Begin(t, local[t].expected, outcome[t])
  /\ Goto(t, "compare")
  /\ UNCHANGED <<batch, testVars, result, sharedVars, profilerVars, readerVars, overlapped>>

CompareResults(t) ==
  /\ pc[t] = "compare"
  /\ Compare(t)
  /\ UNCHANGED <<batch, pc, testVars, result, sharedVars, profilerVars, readerVars, overlapped>>

Compared(t) ==
  /\ pc[t] = "compare" /\ Answered(t)
  /\ NextTest(t, answer[t])
  /\ heap' = heap /\ Change(t)
  /\ UNCHANGED <<batch, outcome, instances, asExpected, callVars, result, sharedVars,
                 profilerVars, readerVars, overlapped>>

-----------------------------------------------------------------------------
(* The methods that were visited, by id, with the ids counted from 0.      *)
VisitedInfos == [id \in {i - 1 : i \in visitedMethods} |-> InfoOf[collectedMethods[id + 1]]]

(* A mapped thread gets an empty report if its id never had one.           *)
EmptyReports ==
  IF threadIdMapping # {} /\ ~zeroWasReported
  THEN <<[threadId |-> 0, aborted |-> TRUE, records |-> <<>>]>> ELSE <<>>

ShiftedRecords(records) == [j \in DOMAIN records |-> [records[j] EXCEPT !.method = @ - 1]]

CellsOf(reports) ==
  [i \in DOMAIN reports |-> [reports[i] EXCEPT !.records = ShiftedRecords(@)]]

(* Seeded defect: the reports are kept for the next request.               *)
HistoryKept(t) == UNCHANGED serializedCoverage

HistoryCleared(t) == serializedCoverage' = <<>>

(* Seeded defect: the threads stay mapped and tracked.                     *)
ThreadsKept == UNCHANGED <<threadIdMapping, balance, history>>

(* The storages of all threads are cleared, whatever runs on them.         *)
ThreadsCleared ==
  /\ threadIdMapping' = {}
  /\ balance' = [u \in Tasks |-> None]
  /\ history' = [u \in Tasks |-> NoHistory]

GetRawHistory(t) ==
  LET reports == CellsOf(serializedCoverage \o EmptyReports)
  IN /\ pc[t] = "resolve" /\ local[t].test > Len(Tests(t)) /\ local[t].entryMainWasSet
     /\ sent' = [sent EXCEPT ![t] = [methods |-> VisitedInfos, reports |-> reports]]
     /\ received' = [received EXCEPT ![t] = Serialize(VisitedInfos, reports)]
     /\ HistoryCleared(t) /\ ThreadsCleared
     /\ zeroWasReported' = (zeroWasReported \/ threadIdMapping # {})
     /\ Goto(t, "start")
     /\ UNCHANGED <<comparerVars, batch, testVars, result, sharedVars, codeVars,
                    visitedMethods, data, dataOffset, reading, disturbed, overlapped>>

(* "Try call GetRawHistory, while entryMain wasn't set".                   *)
NothingToAsk(t) ==
  /\ pc[t] = "resolve" /\ local[t].test > Len(Tests(t)) /\ ~local[t].entryMainWasSet
  /\ Throw(t)

-----------------------------------------------------------------------------
(* The statics of the deserializer have no lock, and every access to them  *)
(* is by itself.  From its first to its last one a request either has them *)
(* alone, and then its reads may be taken together, or another one writes  *)
(* to them as well, and then there is no telling what either of them reads. *)
Using(t) ==
  pc[t] \in {"methodCount", "methods"} \/ (pc[t] = "reports" /\ reading[t].left > 0)

(* Seeded defect: the offset is left where the last request left it.       *)
OffsetKept == UNCHANGED dataOffset

OffsetReset == dataOffset' = 0

StartNewDeserialization(t) ==
  /\ pc[t] = "start"
  /\ data' = received[t] /\ OffsetReset
  /\ LET others == {u \in Tasks : Using(u)}
     IN disturbed' = disturbed \cup (IF others = {} THEN {} ELSE others \cup {t})
  /\ Goto(t, "methodCount")
  /\ UNCHANGED <<comparerVars, batch, testVars, result, sharedVars, profilerVars,
                 received, reading, sent, overlapped>>

Reader(t) == reading[t]

ReadCount(t, from, to) ==
  LET count == ReadInt(data, dataOffset)
  IN /\ pc[t] = from /\ Reader(t).left = 0 /\ count.ok
     /\ reading' = [reading EXCEPT ![t].left = count.value]
     /\ dataOffset' = count.next
     /\ Goto(t, to)

ReadMethod(t) ==
  LET entry == ReadMethodEntry(data, dataOffset)
  IN /\ pc[t] = "methods" /\ Reader(t).left > 0
     /\ entry.ok /\ entry.id \notin DOMAIN Reader(t).methods
     /\ reading' = [reading EXCEPT ![t].left = @ - 1,
                                   ![t].methods = [id \in DOMAIN @ \cup {entry.id} |->
                                                      IF id = entry.id THEN entry.value ELSE @[id]]]
     /\ dataOffset' = entry.next
     /\ UNCHANGED pc

ReadReport(t) ==
  LET entry == ReadReportEntry(data, dataOffset)
  IN /\ pc[t] = "reports" /\ Reader(t).left > 0
     /\ entry.ok
     /\ reading' = [reading EXCEPT ![t].left = @ - 1,
                                   ![t].reports = Append(@, entry.value)]
     /\ dataOffset' = entry.next
     /\ UNCHANGED pc

Reads(t) ==
  /\ t \notin disturbed
  /\ \/ ReadCount(t, "methodCount", "methods") \/ ReadMethod(t)
     \/ ReadCount(t, "methods", "reports") \/ ReadReport(t)
  /\ UNCHANGED <<comparerVars, batch, testVars, result, sharedVars, profilerVars, data,
                 received, sent, disturbed, overlapped>>

(* A history as it is read: without the marks of aborted invocations.      *)
Decoded(h) ==
  [methods |-> h.methods,
   reports |-> [i \in DOMAIN h.reports |->
                  [threadId |-> h.reports[i].threadId, records |-> h.reports[i].records]]]

(* All reads of a request that another one disturbs: they may still give a *)
(* whole history, its own or another's.                                    *)
DisturbedReads(t) ==
  /\ Using(t) /\ t \in disturbed
  /\ \E h \in Garbage \cup {Decoded(sent[u]) : u \in {v \in Tasks : sent[v] # None}} :
       reading' = [reading EXCEPT ![t] =
                     [left |-> 0, methods |-> h.methods, reports |-> h.reports]]
  /\ dataOffset' \in StrayOffsets
  /\ Goto(t, "reports")
  /\ UNCHANGED <<comparerVars, batch, testVars, result, sharedVars, profilerVars, data,
                 received, sent, disturbed, overlapped>>

(* What is at the offset is not what is read there, or a key comes twice.  *)
DeserializationFails(t) ==
  /\ \/ Using(t) /\ t \in disturbed
     \/ /\ pc[t] \in {"methodCount", "methods"} /\ Reader(t).left = 0
        /\ ~ReadInt(data, dataOffset).ok
     \/ /\ pc[t] = "methods" /\ Reader(t).left > 0
        /\ LET entry == ReadMethodEntry(data, dataOffset)
           IN entry.ok => entry.id \in DOMAIN Reader(t).methods
     \/ /\ pc[t] = "reports" /\ Reader(t).left > 0
        /\ ~ReadReportEntry(data, dataOffset).ok
  /\ Throw(t)

Deserialized(t) == pc[t] = "reports" /\ Reader(t).left = 0

-----------------------------------------------------------------------------
(* The records of all reports that were read, and whether each has the id  *)
(* of a method that was read.                                              *)
Records(t) == UNION {{r.records[i] : i \in DOMAIN r.records} :
                       r \in {Reader(t).reports[j] : j \in DOMAIN Reader(t).reports}}

Resolvable(t) == \A r \in Records(t) : r.method \in DOMAIN Reader(t).methods

(* Records are told apart by token and module.                             *)
Visited(t) ==
  {r.offset : r \in {s \in Records(t) :
     LET info == Reader(t).methods[s.method]
     IN /\ info.token = InfoOf[BatchMethod(t)].token
        /\ info.module = InfoOf[BatchMethod(t)].module}}

FailResult(t) ==
  [kind |-> "fail", reproduced |-> local[t].reproduced, coverage |-> Visited(t)]

ComputeCoverage(t) ==
  LET expected == ExpectedCoverage[BatchMethod(t)]
      success  == Cardinality(Visited(t)) = expected
  IN /\ Deserialized(t) /\ Resolvable(t)
     /\ local[t].failed = 0 => expected # None
     /\ Answer(t, IF local[t].failed = 0 /\ success
                  THEN [kind |-> "success", coverage |-> Visited(t)]
                  ELSE FailResult(t))
     /\ UNCHANGED <<comparerVars, batch, testVars, sharedVars, profilerVars, readerVars,
                    overlapped>>

CoverageThrows(t) ==
  /\ Deserialized(t)
  /\ ~Resolvable(t) \/ (local[t].failed = 0 /\ ExpectedCoverage[BatchMethod(t)] = None)
  /\ Throw(t)

-----------------------------------------------------------------------------
Init ==
  /\ batch \in Batches
  /\ pc = [t \in Tasks |-> "idle"]
  /\ local = [t \in Tasks |-> NewLocals]
  /\ outcome = [t \in Tasks |-> Null]
  /\ instances = [t \in Tasks |-> <<>>]
  /\ result = [t \in Tasks |-> None]
  /\ heap = [t \in Tasks |-> NoObjects]
  /\ goal = [t \in Tasks |-> None] /\ call = [t \in Tasks |-> None]
  /\ frames = [t \in Tasks |-> <<>>] /\ answer = [t \in Tasks |-> None]
  /\ compared = [t \in Tasks |-> {}]
  /\ invoked = [t \in Tasks |-> None] /\ todo = [t \in Tasks |-> <<>>]
  /\ stack = [t \in Tasks |-> <<>>]
  /\ typesCache = {} /\ methods = {}
  /\ mainMethod = None /\ mainFunctionId = None /\ compiled = {} /\ probed = {}
  /\ balance = [t \in Tasks |-> None] /\ history = [t \in Tasks |-> NoHistory]
  /\ collectedMethods = <<>> /\ visitedMethods = {} /\ serializedCoverage = <<>>
  /\ threadIdMapping = {} /\ zeroWasReported = FALSE
  /\ data = <<>> /\ dataOffset = 0
  /\ received = [t \in Tasks |-> <<>>]
  /\ reading = [t \in Tasks |-> [left |-> 0, methods |-> <<>>, reports |-> <<>>]]
  /\ asExpected = [t \in Tasks |-> <<>>]
  /\ sent = [t \in Tasks |-> None]
  /\ executed = [t \in Tasks |-> {}]
  /\ skewed = {} /\ disturbed = {} /\ overlapped = FALSE

Execute(t) ==
  \/ ResolveType(t) \/ AddTypes(t) \/ GetMethod(t) \/ AddMethod(t) \/ BuildGraph(t)
  \/ LookupThrows(t)
  \/ FindTypes(t) \/ AddTestTypes(t) \/ TestTypesThere(t)
  \/ ResolveFails(t) \/ ResolveTest(t) \/ SetEntryMain(t) \/ SetCurrentThreadId(t)
  \/ Rejected(t) \/ Invoke(t) \/ Enter(t) \/ Block(t) \/ Leave(t) \/ Unwind(t)
  \/ Throws(t) \/ Returns(t)
  \/ BeginComparison(t) \/ CompareResults(t) \/ Compared(t)
  \/ GetRawHistory(t) \/ NothingToAsk(t)
  \/ StartNewDeserialization(t) \/ Reads(t) \/ DisturbedReads(t) \/ DeserializationFails(t)
  \/ ComputeCoverage(t) \/ CoverageThrows(t)

(* Every request was answered: a stop that is no deadlock.                 *)
AllServed ==
  /\ \A t \in Tasks : pc[t] = "done" \/ batch[t] = None
  /\ UNCHANGED vars

Next == (\E t \in Tasks : Receive(t) \/ Execute(t)) \/ AllServed

Spec == Init /\ [][Next]_vars

(* The thread of a request that was received is scheduled again and again. *)
(* No step waits for another request, so that this is WF_vars(Execute(t))  *)
(* without its ENABLED, which TLC would evaluate for hours.                *)
FairSpec ==
  Spec /\ \A t \in Tasks : []<>(t \notin Serving) \/ []<><<Execute(t)>>_vars

-----------------------------------------------------------------------------
Places == {"idle", "types", "addTypes", "method", "addMethod", "graph", "resolve",
           "addTestTypes", "setMain", "setThread", "invoke", "run", "begin", "compare",
           "start", "methodCount", "methods", "reports", "done"}

(* The state of the requests, of the caches and of the history.  Nothing a *)
(* request leaves on its thread outlives it.                               *)
TypeOK ==
  /\ pc \in [Tasks -> Places]
  /\ heap \in [Tasks -> Heaps]
  /\ \A t \in Tasks : local[t] \in
       [test : Nat \ {0}, expectedException : ExceptionTypes \cup {None}, expected : Values,
        reproduced : Nat, failed : Nat, entryMainWasSet : BOOLEAN,
        assembly : Seq(Characters) \cup {None}]
  /\ outcome \in [Tasks -> Values]
  /\ \A t \in Tasks : DOMAIN instances[t] \subseteq Addresses
  /\ \A t \in Tasks : result[t] # None <=> pc[t] = "done"
  /\ typesCache \subseteq Seq(Characters) /\ methods \subseteq Methods
  /\ mainMethod \in Methods \cup {None} /\ mainFunctionId \in probed \cup {None}
  /\ probed \subseteq compiled /\ compiled \subseteq Methods
  /\ visitedMethods \subseteq DOMAIN collectedMethods
  /\ balance \in [Tasks -> Int \cup {None}] /\ stack \in [Tasks -> Seq(compiled)]
  /\ \A t \in Tasks : Tracked(t) \/ t \in threadIdMapping => t \in Serving
  /\ dataOffset \in Nat

(* After a test was resolved its objects are as its statements say.        *)
ResolvedAsArranged ==
  \A t \in Tasks :
    pc[t] \in {"setMain", "setThread", "invoke"} =>
      IsArrangedAs([instances |-> instances[t], heap |-> heap[t]], Test(t))

(* A test counts as reproduced exactly if its method returned what was     *)
(* expected, in the sense of Bisimilar and of the objects after the call,  *)
(* or threw the expected exception.                                        *)
ReproducedAsExpected ==
  \A t \in Tasks :
    LET over == {i \in DOMAIN asExpected[t] : i < local[t].test}
        good == {i \in over : asExpected[t][i]}
    IN /\ local[t].reproduced = Cardinality(good)
       /\ local[t].failed = Cardinality(over \ good)

(* A request that had the deserializer to itself gets the history that was *)
(* sent to it: what is read is what was written.                           *)
HistoryDecoded ==
  \A t \in Tasks :
    Deserialized(t) /\ t \notin disturbed =>
      [methods |-> Reader(t).methods, reports |-> Reader(t).reports] = Decoded(sent[t])

(* Requests served one after the other: the coverage one is answered with  *)
(* is of blocks its own calls of the batch's method executed, and of all   *)
(* of them unless the method was compiled before it was first named, or an *)
(* exception left a frame of another entry method than the one compiled    *)
(* last.                                                                   *)
CoverageIsOwn ==
  \A t \in Tasks :
    result[t] # None /\ ~overlapped /\ result[t].kind # "error" =>
      /\ result[t].coverage \subseteq executed[t]
      /\ BatchMethod(t) \in probed /\ t \notin skewed => result[t].coverage = executed[t]

(* Such a request is answered with an error only for a reason of its own:  *)
(* no test, a method that is not found or has no graph, no test that could *)
(* be resolved, or all reproduced and no attribute to compare with.  What  *)
(* requests before it left in the caches, in the profiler and in the       *)
(* deserializer is no reason.                                              *)
ErrorsAreOwn ==
  \A t \in Tasks :
    result[t] # None /\ ~overlapped /\ result[t].kind = "error" =>
      \/ Tests(t) = <<>> \/ BatchMethod(t) \in Missing \cup NoGraph
      \/ \A i \in DOMAIN Tests(t) : Fails(Tests(t)[i])
      \/ local[t].failed = 0 /\ ExpectedCoverage[BatchMethod(t)] = None

(* Every request that was received is answered.                            *)
BatchesEnd == \A t \in Tasks : pc[t] = "types" ~> pc[t] = "done"
=============================================================================
