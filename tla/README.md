# Test executor and coverage profiler: TLA+ models and proofs

The repository runs unit tests that a symbolic engine generated for .NET
methods. A gRPC service (`TestExecutor.Core`) rebuilds each test from its
expression form, invokes the method under test ("main"), compares the result,
and asks a native CLR profiler (`TestExecutor.CoverageInstrumenter/profiler`)
which basic blocks of main were executed. The profiler rewrites the IL of main
when the JIT compiles it; the probes it inserts call back into the profiler on
the thread that runs main, and exception callbacks of the CLR tell it how
frames of main are left without a `ret`.

This directory holds TLA+ models of the parts where that can go wrong, the TLC
configurations that check them on small instances, and TLAPS proofs about the
thread tracker, the reporting protocol, the instrumentation, the resolution of
tests, the comparison of results and the service that counts them. Paths below
are relative to `src/`; `profiler/` stands for
`TestExecutor.CoverageInstrumenter/profiler/`.

## 1. Inventory

| Component | State | Operations | Talks to |
|---|---|---|---|
| **Executor service** `TestExecutor.Core/ConcreteExecutorService.cs`, `TestExecutor.Application/Program.cs` | none of its own (a singleton service); caches of types and methods and the profiler's state are process-wide | `Execute`: for each test resolve, `SetEntryMain`, `SetCurrentThreadId`, `Invoke`, compare; then `ComputeCoverage` | resolver, comparer, coverage tool |
| **Thread tracking** `profiler/threadTracker.cpp`, `threadStorage.h` | five `ThreadStorage` maps keyed by OS thread: id mapping, stack balance, function being unwound, filter counter, current history | track, balance up/down, lose, abort, unwind enter/leave, filter enter/leave, map, clear | probes, exception callbacks, coverage tracker |
| **Probes** `profiler/probes.cpp` | addresses; signatures, one per thread | `Track_EnterMain`, `Track_LeaveMain`, `Track_Tailcall`, `Track_Coverage`, ... | thread tracker, coverage tracker |
| **Coverage tracking** `profiler/coverageTracker.cpp`, `api.cpp` | `collectedMethods`, `visitedMethods`, `trackedCoverage`, `serializedCoverage`, `serializedCoverageThreadIds`, three mutexes | `addCoverage`, `invocationFinished`, `invocationAborted`, `collectMethod`, `serializeCoverageReport`, `clear`, `GetHistory` | thread tracker, the managed client |
| **Exception callbacks** `profiler/corProfiler.cpp` | none | `ExceptionThrown`, search filter enter/leave, unwind enter/leave | thread tracker |
| **Instrumentation** `profiler/instrumenter.cpp`, `profilerState.cpp` | `instrumentedMethods`, `mainFunctionId`, `mainMethodInfo` | `JITCompilationStarted` -> `instrument` -> `doInstrumentation`; `setEntryMain` | rewriter, coverage tracker |
| **Shutdown** `profiler/corProfiler.cpp` | counter of blocking requests, `isFinished` | `Shutdown`, the guard of `JITCompilationStarted` | instrumentation |
| **IL rewriting** `profiler/ILRewriter.cpp` | a doubly linked list of instructions, exception clauses | import, scan, insert probes, correct handlers, widen branches, export | instrumentation, the JIT |
| **Control flow graph** `TestExecutor.IL/CFG.fs`, `MethodBody.fs`, `TestExecutor.Utils/GraphUtils.fs` | basic blocks with offsets and edges | depth-first traversal with block splits, search of a block by offset, graph distances | coverage tool |
| **Coverage computation** `TestExecutor.CoverageTool/CoverageTool.fs`, `CoverageDeserializer.fs` | a static read buffer and offset | `GetRawHistory`, deserialize, `ComputeCoverage` | profiler (P/Invoke), control flow graph |
| **Test resolution, comparison, slices** `TestExecutor.Core/TestResolver.cs`, `ObjectsComparer.cs`, `UnsafeUtils.cs` | identity tables of one test; pairs already compared | build arguments, compare graphs, reinterpret bytes | executor |
| IL decoding, reflection helpers, COM plumbing, logging, PAL, vendored CoreCLR headers | - | tables, wrappers and I/O | - |

What is hard in it:

* **Protocol of callbacks.** Thread tracking must infer from separate callbacks
  how many frames of main are on a stack: recursion, tail calls, two-pass
  exceptions that leave main, filters that throw, finally blocks that run
  during an unwinding, aborts. A frame too many, or too few, and an invocation
  is never reported, or reported in pieces.
* **Interleaving.** `GetHistory` runs on any thread and clears the storages of
  all threads while main may run. Some sets are written under a mutex and read
  without it. JIT compilations are concurrent with each other and with
  requests that change the entry method.
* **Three readers of one method body.** The rewriter, the control flow graph
  and the JIT each decode the body on their own; coverage is right only if they
  agree about offsets, block ends and protected regions, before and after
  rewriting.
* **Requests share a process.** gRPC serves requests at once; each has locals
  of its own, but caches are looked up and then added to, and the deserializer
  reads from one static buffer at one static offset.
* **Shutdown** raises a flag and waits for a counter, and compilations test the
  flag and raise the counter, in that order.
* **Graphs of objects.** Expected and returned values share parts, have cycles,
  and are changed by the method under test.
* **Numeric edges.** Short branches have a signed byte; slices of bytes have
  ends; coverage is a truncated percentage.

The list of hazards, each at its line, with the properties that would catch it,
is under `hazards` in `PROJECT.json`.

What makes each component correct: *thread tracking*: the balance is the number
of frames of main, no assertion fails, one report per invocation; *coverage
tracking*: no report lost or delivered twice, every report resolvable with the
method table it comes with, its records those of its invocation, no callback
blocked for ever; *rewriting*: the rewritten body behaves like the original,
each instruction stays in its protected region; *control flow graph*: its
blocks are the basic blocks; *coverage computation*: the blocks counted are the
blocks executed; *instrumentation*: main is rewritten once and its probes are
main's, with an id that resolves to it and the signatures of its module;
*shutdown*: it waits for what is in progress, ends, and no compilation runs
after the profiler is released; *resolution*: one object per address, with the
fields its statements say; *comparison*: bisimilarity; *executor*: a test counts
as reproduced exactly if it did what was expected, and a request is answered
with its own coverage.

## 2. Modules

```
ThreadTracking ........ the tracker under all behaviours of one or more threads
  ThreadTrackerProofs . contracts of the storages and handlers, types
  ThreadTrackingProofs  the profiler follows every thread
CoverageReports ....... the reporting protocol, one shared access per step
  ReportMailbox ....... what its clients are promised (abstract)
  CoverageReportsProofs, ReportMailboxProofs .. proofs, and the refinement
Instrumentation ....... compilations, changes of the entry method, shutdown
  InstrumentationProofs
MethodCoverage ........ one method from its body to its visited blocks
  ControlFlow ......... the traversal of CFG.fs        } composed by
  ILRewriting ......... RewriteIL as a function        } MethodCoverage
  ILMachine ........... the CLR executing IL (external)}
  ILBody .............. opcodes, sizes, layout
ExecutorService ....... requests with batches of tests, several at once
  ExecutorServiceProofs
  TestResolution ...... from expressions to objects    } composed by
  ObjectsComparison ... ObjectsComparer as a machine   } ExecutorService
    ObjectsComparisonProofs
  ReportCodec ......... the bytes of a history         }
    ReportCodecProofs
MC* ................... instances for TLC
```

### ThreadTracking

The state of the profiler for one thread is the record `tracker[t]`: the five
storages (`threadId`, `balance`, `unwind`, `inFilter`, `coverage`), the reports
made, the assertions that failed and whether the process crashed. `Store`,
`Load`, `Add` and `Remove` are the operations of `ThreadStorage`, which in a
release build insert a zero where an entry is missing; a failed
`profiler_assert` is collected rather than fatal. Each operation of
`ThreadTracker` is an operator of the same name on such a record.

What drives it is external: a shadow stack per thread, on which methods are
called, return, call each other in tail position, throw, run filters in the
first pass and finally blocks in the second. The order of callbacks (search
filters, then for each frame unwind enter, finally blocks, unwind leave, and
unwind enter for the frame of the catch) is that of the CLR's profiling
interface. `Execute` names the entry method, maps the thread and invokes; in a
passive run (`isPassiveRun`, chosen initially from `PassiveRuns`) main is called
from anywhere. One callback is one step: it touches
only entries of its own thread. `collectMainOnly` is never false in the code, so
only main has probes and `Track_Enter`/`Track_Leave` are unreachable. The time
after `Shutdown` raised `isFinished` is left out: the filter callbacks and the
leave of an unwinding then return at once (`corProfiler.cpp:457`, `466`, `505`).

The constants that follow "what the program under test is allowed to do" are
switches over the callbacks' environment. Two of the properties hold only in a
restricted environment; the switch says which:

| Setting | Breaks | Because |
|---|---|---|
| `EscapeDepth = 2` | BalanceIsMainDepth | an exception leaving a filter under two frames of main pops one of them: the guard compares the balance with 1 |
| `FinallyThrows = TRUE` | BalanceIsMainDepth | enter and leave are paired through one slot, and the nested exception overwrites it |
| `TailCallees` with a helper `h` | BalanceIsMainDepth | `Track_Tailcall` takes the frame off but does not end the invocation |
| `Functions` with `fA2` (second instantiation of main) | BalanceIsMainDepth | `mainFunctionId` names one instantiation |
| two `Mains` | BalanceIsMainDepth | `mainFunctionId` is that of the main compiled last (run `tracking_mains`) |
| `Aborts = TRUE` | AbortIsReported | null dereference (run `tracking_abort`) |
| `InvokeFails = TRUE` | AssertionsHold ("store") | the id of the failed test is still mapped |
| a thread in `Spawned` | AssertionsHold ("remove") | a thread nobody mapped is unmapped |

The first four are listed as hazards and can be seen by changing one line of
`MCThreadTracking.cfg`; only the disagreements with a written promise of the
repository are kept as runs of their own.

### Instrumentation

A thread is in one compilation or in one `GetHistory` at a time; `pc[t]` is its
place between `JITCompilationStarted` and its return. A step is one read or
write of what threads share: the token and the module of `mainMethodInfo` (read
twice, written one by one by `SetEntryMain`), `mainFunctionId`,
`instrumentedMethods` (searched without the mutex, and the mutex belongs to one
`Instrumenter` object anyway, so nothing excludes another thread between search
and insertion), the IL of a method, `isFinished`, the counter and the interface.
`signature[t]` is the slot of thread `t` in the global tables of signature
tokens, one table for the probes of the shape of `Track_Coverage` and one for
`Track_EnterMain`. `initTokens` (`InitTokens`) asks the runtime for the tokens
one by one and may fail before the first or before the second of these tables
was set; `instrumenter.cpp:84` drops its result, so the method is rewritten with
what is in the slot then, the module compiled last on this thread, or nothing.
`unsigned` has the ids of such compilations. `MayFail` has the modules about
which a call may fail. `body[m]` is the sequence of layers of probes that were
put into the IL of `m`, `code[f]` what function `f` was compiled from. Which
function is compiled when is up to the CLR and external (`MayCompile`): an entry
method on the thread that invokes it, functions in `Common` on any thread.
`Refuse` is the failure of a call to the interface whose result is looked at:
the method is not rewritten, the insertion stays.

Properties of it hold in a restricted environment only, again one setting each:

| Setting | Breaks | Because |
|---|---|---|
| `ParallelInstantiations = TRUE`, `fA2` in `Common` | RewrittenOnce | two instantiations of a method are searched for before either is inserted |
| `Clients = {c1, o1}` | EntryMainHasProbes | the second `IsMain` of a compilation sees the other client's method |
| a main (`fB`) in `Common` | EntryMainHasProbes | it was compiled before it was named and is not compiled again |
| `TokenOfB = T2`, the helper `h1` in `Functions` and `Common` | OnlyMainsRewritten | a half-written `mainMethodInfo` names a helper |
| a module in `MayFail` (drop `probes.id \in unsigned`) | ProbesFit | a failed `initTokens` is not noticed, and the signatures of another module are used |
| always | NothingAfterRelease | run `shutdown_late` |

### CoverageReports

Here a step is one access to shared data: one operation of a `ThreadStorage`
(which locks for itself) or what runs under one of the three mutexes. `pc[t]`
says where thread `t` is in a probe, in `invocationFinished` or in
`GetHistory`; `probe`, `finishing` and `serializing` hold its locals. Ways into
and out of main other than call and return are left to ThreadTracking.
`visitedMethods` is read without its mutex by `serializeCoverageReport`
(`coverageTracker.cpp:118`). Such a read that overlaps an insertion into the
`std::set` is undefined; the model lets it miss an element and marks the
history `torn`. `Concurrent` says whether `GetHistory` may overlap main, as it
may when two batches run at once or main starts threads. `depth`, `ran`,
`published` and `histories` are history variables: what happened and what the
clients received.

`ReportMailbox` is the abstract specification: reports are published and each
request takes all that wait. The refinement maps a report to its thread and its
serial number.

### MethodCoverage

A behaviour of `MethodCoverage` takes one method body from the set `Bodies`
through the life the program gives it: `Analyse` runs the traversal of
`CfgInfo` one visit at a time, `Compile` replaces the body by `RewriteIL(body)`,
`Execute` runs one instruction of the rewritten body, and its probes put offsets
into `reported`. `VisitedBlocks` is `ComputeCoverage`.

* `ILBody`: a body is a sequence of instructions with byte offsets, targets and
  exception clauses. One opcode stands for each class that the code
  distinguishes (`call` for call, callvirt and newobj; `brtrue` for all
  conditional branches; `throw` for throw and rethrow; `volatile` for the
  prefixes other than tail.; `nop` for the rest). Sizes are the real ones.
* `ControlFlow`: the traversal is in continuation passing style in the code;
  `work` is its continuation. Splits (`SplitBasicBlock`) move edges and
  ownership as the code does, and `graph.sound` turns false where an assertion
  of CFG.fs would fail. Two ways to fail are modelled: `tail.` counts as a call
  (`MethodBody.fs:122`), so the bytes behind it are taken for a token
  (`VisitTailcall`); and `MethodInstrBuilder.fs:28` skips no operand of a
  switch, so that its table is decoded as instructions and the next real
  instruction may be swallowed (`VisitUndecoded`). The properties of the graph
  are claimed when the traversal did not fail.
* `ILRewriting`: pure functions over the linked list: `Import`, the scan
  (`ScanInstr`), the insertions (`InsertPriority`, then `InsertTarget`),
  `Fit` (widening until all displacements fit) and `Export`, which decodes the
  displacement that was written, one signed byte in the short forms. The three
  pushes and the calli of a probe are one instruction of 24 bytes (25 for the
  enter probe). `src` is a ghost: the original instruction whose work an
  instruction does.
* `ILMachine` is the semantics of one activation, external: data is left out, so
  a conditional branch goes either way and calls, stores to static fields and
  throws may raise. A body has at most one exception clause. It is used twice:
  on the rewritten body, to execute it, and through the mapping `Origin` on the
  original one, as the specification the rewritten body must implement.

### ExecutorService, TestResolution, ObjectsComparison, ReportCodec

`ExecutorService` is `ConcreteExecutorService.Execute`, one request per element
of `Tasks`, all of its exits included: a batch without tests, a method whose
type or name is not found (`Missing`) or whose control flow graph cannot be
built (`NoGraph`), a key that another request added to a cache in between. `pc`
follows the method; `local` holds its locals. The types are cached by assembly,
and a test may come upon further assemblies while it is resolved (`FindTypes`);
a key that is there by then is caught as a failed test (`TestTypesThere`).

A test is a record of its method, the statements that arrange its objects, its
arguments, the expected value and the set of `outcomes` its method may have:
return a value after writing to objects, throw, or be rejected by `Invoke`. The
`trace` of an outcome is what goes on in the invocation, one event per step: a
method is called (`Enter`, which compiles it if this is the first call),
executes a block (`Block`), returns (`Leave`), is left by an exception
(`Unwind`). Each step does what the probes and callbacks do in it. Two ways in
which coverage is lost without any overlap of requests are in it:

* a method that is compiled before it is named, as a callee of another one, gets
  no probes then and is not compiled again (`instrumenter.cpp:123`): it is not in
  `probed`, and its coverage is 0;
* `mainFunctionId` is that of the entry method compiled last
  (`instrumenter.cpp:128`), so that an exception leaving a frame of another one is
  not counted (`threadTracker.cpp:75`): the frame stays on the balance, and no
  report is made until something clears the thread. `skewed` has the requests to
  which this happened.

What an invocation leaves out, because other modules have it: filters, tail
calls and several functions of one method (ThreadTracking), methods the runtime
refuses to instrument (Instrumentation), and the steps inside a probe and inside
`GetHistory` (CoverageReports). A build without assertions is assumed for the
mapping a rejected call leaves behind. Coverage is a set of final offsets; the
percentage is left out.

* `TestResolution` folds statements and expressions over a resolver, a record of
  `_instances`, heap and failure. An unknown type, a missing field and an index
  out of range fail. `IsArrangedAs` is the reference: by the last statement about
  each field.
* `ObjectsComparison` turns the recursion of `ObjectComparer.Equals` into an
  explicit stack. `Key` is what an object's own `Equals` and `GetHashCode` tell
  apart, because `_compared` is a `HashSet` that uses them (also for boxed
  structs). The reference is `Bisimilar`.
* `ReportCodec` has the bytes in cells, one per primitive that is written, so that
  a wrong offset reads a cell of the wrong kind. Reading garbage as if it were
  data (an id where a length is) succeeds when the kinds agree, and fails
  otherwise.

The statics `data` and `dataOffset` of the deserializer have no lock: a read
takes the value at the offset and then adds to it, and `startNewDeserialization`
writes the two one after the other. A request that no other joins between its
first and its last access sees them change by its own steps only, so one step
may read a whole count, method or report. Once two requests use them at once,
both are `disturbed` for the rest of their reading, and no order of their
accesses is singled out: `DisturbedReads` gives such a request any of `Garbage`,
or the history that it or another one was sent, leaves the offset anywhere in
`StrayOffsets`, outside the buffer too, and `DeserializationFails` lets it fail.

| Setting | Breaks | Because |
|---|---|---|
| requests at once (drop `t \notin disturbed`) | HistoryDecoded | one request moves the other's offset and replaces its buffer |
| requests at once (drop `~overlapped`) | CoverageIsOwn, ErrorsAreOwn | one request takes the other's records, or adds a key between its lookup and its `Add` |
| drop `t \notin skewed` | CoverageIsOwn | a frame of `mA` that an exception leaves after `mB` was compiled is not counted, and nothing is reported |
| drop `BatchMethod(t) \in probed` | CoverageIsOwn | `mA` was compiled when `mB` called it |
| `MCKey` that maps two arrays to one key | VerdictIsBisimilarity | a pair that was never compared counts as compared |

What holds of requests at once as well is checked of them: `ResolvedAsArranged`,
`ReproducedAsExpected`, `VerdictIsBisimilarity`, `DepthIsBounded`, `BatchesEnd`.
`expected` is built from the same instances as the arguments
(`TestResolver.cs:48`): when the method changes and returns its argument, it is
compared with itself. Nothing in the repository says which heap the comparison
is meant on; the properties are about the heap after the call, as the code is.

## 3. Runs

| Run | Shows | Size, bounds |
|---|---|---|
| `tracking` | On one thread, in executor mode or in a passive run with aborts: `TypeOK`, `BalanceIsMainDepth`, `OneReportPerInvocation`, `AssertionsHold`, `FilterCountIsExact` | stack of 7 entries, 2 invocations, main `fA` and helper `h`, tail calls of main to itself, exceptions out of a filter under one frame of main |
| `tracking_abort` | *violation* of `AbortIsReported` | |
| `tracking_mains` | *violation* of `BalanceIsMainDepth` with two mains | |
| `reports` | `TypeOK`, `DictionaryClosed`, `MailboxSpec` with requests at any time | 2 threads, 2 methods, 2 histories; threads symmetric |
| `reports_sequential` | `ReportsAreExact` with requests between invocations | depth 2, 2 invocations, 2 histories |
| `reports_liveness` | `CallbacksReturn` under fairness | 2 threads, 1 history each way |
| `reports_mapped` | *violation* of `MappedThreadsReported` | |
| `method_coverage` | `CfgIsCanonical`, `RegionsKept`, `FrameIsPopped`, `CoverageIsExecution`, `BehaviourKept` | 8,189 bodies |
| `method_tail` | *violation* of `FrameIsPopped` for a branch to the ret of a tail call | 1 body |
| `instrumentation` | `TypeOK`, `RewrittenOnce`, `OnlyMainsRewritten`, `ProbesFit`, `EntryMainHasProbes`, `RequestsAwaited`, and `ShutdownEnds` under fairness | 2 threads, one of them a client; two mains of one token in two modules, one with two instantiations, a helper with the same token; one request; every call about the first module may fail |
| `shutdown_late` | *violation* of `NothingAfterRelease` | as `instrumentation` |
| `batches` | `TypeOK`, `ResolvedAsArranged`, `ReproducedAsExpected`, `VerdictIsBisimilarity`, `DepthIsBounded`, `HistoryDecoded`, `CoverageIsOwn`, `ErrorsAreOwn`, and `BatchesEnd` under fairness | 2 requests of up to 2 tests; 3,125 graphs of 3 arrays |

Why the bounds suffice for the cases of interest. *Thread tracking*: seven
entries hold two frames of main, a helper, a filter and a finally funclet on top
of each other, and a second invocation shows what the first left behind.
*Reports*: two threads give every pair of concurrent operations; two histories
show what the first request leaves for the second; two methods make a table that
can be incomplete. With symmetry no run checks liveness. *Method coverage*: all
valid bodies of up to three instructions over ten opcodes and of four over five;
tail calls after every kind of instruction; one catch, finally or filter clause
in several shapes, with throwing and branching instructions at each seam;
forward and backward branches one byte to either side of the range of a signed
byte, including a branch whose widening forces another; switches whose tables
decode into opcodes with and without operands. *Instrumentation*: a second main
in another module is what a signature or a name kept from the first one would
show on, a second instantiation what the search for rewritten methods is for,
and Shutdown may be called at any point of a compilation and of a request. Calls
fail for one of the two modules, so that a failure of either kind meets
signatures of the other module and compilations that succeed. *Batches*: the
pool has a test for every exit of `Execute` (expected and unexpected exceptions,
rejected calls, unknown types, an index out of range, no test, no attribute, a
method that is not found or has no graph, writes to shared arguments), and
invocations in which a method calls another one that is named later, or was
named before, and exceptions leave frames of either. Two batches meet in every
order and overlap, and the graphs include every sharing and cycle that three
arrays of two, two and one elements can have, with the same, equal and different
lengths and values. Deadlock is checked in `method_coverage` (`Finished` is the
proper end) and in `batches` (`AllServed`); elsewhere it is not, because a
program may stop calling main and because the bounds stop it.

With `GetHistory` concurrent with main, `ReportsAreExact` does not hold: the
three clearing steps of `api.cpp:25` may fall between two probes of a running
invocation. The `reports` run therefore claims what survives, that what is
delivered is delivered once and resolvable, and the exactness claim is made for
sequential use.

**Fairness.** `reports_liveness` assumes weak fairness of `Work(t)`, the steps
of a callback or request already begun, for each thread. The operating system
schedules every runnable thread, and none of these steps waits for anything but
a mutex. Beginning a request or entering main is not fair. Weak fairness
suffices because the bounds make the competing acquisitions of a mutex finite;
`std::mutex` itself promises no freedom from starvation, so the run shows the
absence of deadlock and of lost wake-ups, not a bound on waiting under endless
contention. `instrumentation` assumes the same of a thread inside the profiler
and of `Shutdown` once it was called: a compilation waits for nobody, and
Shutdown is a loop of its own thread. New requests are not stopped by
`isFinished` and may keep the counter above zero for ever; the bound
`MaxRequests` excludes that. `batches` assumes that the thread of a request that
was received keeps running, and that the methods it invokes end: traces are
finite, while `ConcreteExecutorService.cs:51` waits for the method without a
timeout, so a test that loops blocks its request for ever. An error counts as an
answer. It is written as `[]<>(t \notin Serving) \/ []<><<Execute(t)>>_vars`,
which is `WF_vars(Execute(t))` because a request being served can always take a
step: no step waits for another request, and the run finds no deadlock with one
request alone.

**Mutants.** Each property of a passing run has a seeded defect in the module it
is about ("Seeded defect:" comments), which the property detects: a frame popped
for a filter, a mapping always removed, a scan without the lock that keeps
reports out, edges not redirected by a split, a handler end not moved, the tail
call flag never reset, a probe behind a target, a single widening pass, methods
told apart by token only, signatures made once per thread, a request that does
not lower the counter, threads that stay mapped when the history was taken,
pairs that are not remembered, a terminator read as part of a name, an exception
expected of the next test.

## 4. Proofs

All obligations are checked by TLAPS, for any finite or infinite set of
threads, any ids and any bounds satisfying the named assumptions of the module
(`TrackingAssumption`, `ReportsAssumption`, `InstrumentationAssumption`,
`ResolutionAssumption`, `ComparisonAssumption`, `ServiceAssumption`). The
hypotheses some theorems add are predicates on the constants; the runs show, or
the tables of section 2 name, what happens without them.

Thread tracking. ThreadTrackerProofs states each operation of the storages and
each handler of `ThreadTracker` as a contract: what it leaves in every storage,
and when the assertions in it hold. From the contracts follows

* `TypeCorrect`: `Spec => []TypeOK`, for every program. It needs `Structured`: the
  frame whose unwinding an exception has begun is still on the stack, also when the
  exception waits for a finally block.

The other theorems are about programs that satisfy `Confined`, a predicate on the
constants: one main, compiled to one function, that is also the only function
called in tail position; `EscapeDepth <= 1`; `~FinallyThrows` (nothing is thrown
while a finally block runs, by it or by what it calls). Each part is
needed: the table above names the setting that breaks the balance without it.
Number and depth of threads, nesting of filters, number of
invocations, passive or not, aborts: all of these are arbitrary.

* `BalanceCorrect`: `BalanceIsMainDepth`. Not inductive, because the next callback
  depends on the exception in flight and on what was remembered for it. The
  invariant `Following` relates, per thread, stack, exception, tracker and the
  number of invocations started: `Nesting` (an exception in flight, also one that
  waits under a filter or a finally block, has a handler below it, and escapes
  from a filter only with one frame of main under it), `Counting`
  (balance and filter counter, and a fresh entry of each after main was left),
  `Leaving` (`unwindFunctionIds` holds the function of the frame that is being
  left, also while its finally block runs),
  `Reporting` (the current history has the records of this invocation, each report
  those of its own). `OneMain` adds that `mainFunctionId` is the function with
  probes. There is one lemma for each way a stack can change.
* `FilterCountCorrect`, `ReportsCorrect`: `FilterCountIsExact` and
  `OneReportPerInvocation`, from the same invariant.
* `AssertionsCorrect`: `AssertionsHold`, if also `Invoked` holds: `Spawned` is empty
  and `Invoke` never rejects a call. It adds `Mapping` (outside passive runs a
  thread is mapped from `SetCurrentThreadId` until its invocation ends, and its
  stack then starts with main) and `MainsAreProbed`.

Reports, instrumentation, comparison and the service:

* `TypeCorrect`: `Spec => []TypeOK` (CoverageReportsProofs). `TypeStep` has one
  step per action.
* `DictionaryCorrect`: `Spec => []DictionaryClosed`. `DictionaryClosed` is not
  inductive. The strengthening `DictionaryInv` says why the code is right:
  `MutexesHeld` (a mutex is held exactly inside the block it guards),
  `HistoriesClosed` (a history lists the methods of its records, all collected
  before), `VisitedBeforePushed` (methods are marked as visited before the
  report is pushed), `ScanIsComplete` (while a request holds
  `serializedCoverageMutex`, no report can be pushed, so a scan that is not
  torn finds the methods of every waiting report). Each conjunct has its own
  step lemma; the theorem needs all of them and `TypeOK`.
* `ReportsAreExactCorrect`: under `~Concurrent` (requests come between invocations),
  `Spec => []ReportsAreExact`. The invariant `ExactInv` follows each thread from
  its first probe to its report: between invocations it has no history and no
  balance, in main its history holds what its last invocation ran so far and
  that is not reported yet, on leaving main the report it carries
  is that of the invocation (`ThreadExact`). A request collects alone
  (`AloneCollecting`), so its three clearing steps meet no history in the making,
  and `tracker` never dereferences null (`~crashed`).
* `MailboxCorrect`: `Spec => MailboxSpec` (CoverageReportsProofs). `PushReport`
  maps to `Publish`, `SerializeReports` to `Take`, every other step to a
  stutter.
* `MailboxDeliversOnce` (ReportMailboxProofs): in the mailbox no report is lost
  or delivered twice; and `ReportsDeliveredOnce` carries it to the code through
  the refinement.

* Instrumentation (InstrumentationProofs): `TypeCorrect`;
  `ShutdownAwaitsRequests`, from an invariant that equates the counter with the
  number of threads between raising and lowering it, which needs the set of
  threads to be finite; `ProbesCorrect`, where the invariant follows one
  compilation from the insertion, which fixes its id, over `InitTokens`, which
  sets its signatures or records the id in `unsigned`, to the body it exports: ids are right
  whatever fails, signatures are right of every compilation for which the runtime made
  them; and `RewrittenOnceCorrect` under
  `~ParallelInstantiations`, where a method is being rewritten by at most one
  thread, and only if it was inserted and its body is still untouched.
* Which methods are rewritten. `RewrittenAreNamedCorrect`, with any number of
  clients: the token of a rewritten method was named by some request, and its
  module was named by some request. As `setEntryMain` assigns the two one after the
  other, they need not be of one request; `OnlyMainsCorrect` therefore has
  `OnlyMainsRewritten` under `NamesUnmixed`: no method that is compiled has the
  token of one main and the module of another without being one of them.
  `EntryMainCorrect`: `EntryMainHasProbes` under `OneBatch`, one client and no main
  compiled on behalf of others. With one client `mainMethodInfo` is what the client
  is writing or wrote (`Written`), every compilation of a main finds itself to be
  main at both tests (`CompilesAsMain`), so a main that is out of the hands of its
  compilation has probes or was refused (`MainsSettled`), and what was compiled
  was compiled from that (`MainCode`).
* Comparison (ObjectsComparisonProofs): `ComparisonCorrect`, under
  `KeysAreIdentities`: the verdict is bisimilarity. TRUE is sound because when
  the stack is empty and no difference was found, the pairs compared form a
  bisimulation: each pair is closed, or is on the stack with the fields before
  `next` related. FALSE is sound because every call on the stack is implied by
  the goal: if the goal were bisimilar, by any relation, the two values that
  differ would be related by it. `DepthCorrect`: `DepthIsBounded` for finitely many
  objects, whatever their own `Equals` says: the calls on the stack compare
  different pairs of keys, all remembered in `compared` (`DepthInv`), so that there
  are no more of them than pairs.
* Resolution (ExecutorServiceProofs). `Arranged` and `Instantiated` are recursive
  functions over the statements and the arguments of a test; `ArrangedFold` and
  `InstantiatedFold` give their steps for every length, by taking the least length at which they
  would fail (`LeastNat`, `UpTo`). The invariant `Resolver` is that addresses seen so far
  have objects of their own, numbered in the order of mention, with the type and
  the size of the address. It needs room on the heap for a next object, which
  `ServiceAssumption` grants: a test mentions at most as many addresses as the
  heap of the model has objects. `ResolvedAsArrangedCorrect`: a test that resolves has
  the graph its statements say, by the last statement about each field.
* The service (ExecutorServiceProofs), with any number of requests at once.
  `ServiceCompares`: `Spec => ComparisonSpec`, every step of the service is one of the
  comparer or leaves it alone. `ServiceVerdictCorrect` and `ServiceDepthCorrect` carry the
  two theorems about the comparer to the service through it.
  `ReproducedAsExpectedCorrect`, under `KeysAreIdentities`: the tests counted as
  reproduced and as failed are those that did, and did not, what was expected.
  Its invariants are `ServiceInv` (the test in hand is one of the batch, its
  resolver is in order, the expected exception is that of this test and gone when
  it is done) and `TallyInv` (the counts are those of the verdicts before
  the test in hand, whose verdict is the bisimilarity the comparer is asked for).

* The codec (ReportCodecProofs, lemmas). `AscendingIs`: `Ascending` enumerates any set
  of ids below a bound, each once and in order. `FlattenLaid`: `FlattenSeq` of any
  number of sequences lays them out one after the other, at offsets that are
  the sums of their lengths. `ReadMethodIs` and `ReadReportIs`: where the cells of a
  method or a report were written, reading succeeds, returns that method or that
  report without its `aborted` flag, and leaves the offset behind it, for names and
  records of any number. `SerializeLaid` puts them together: the offsets of all
  entries of a history. The library's induction theorems cannot be used, as they
  have an operator as parameter; `LeastNat` and `UpTo` take the least
  counterexample instead, and `FlattenFold` unrolls the fold.
* What requests are answered (ExecutorServiceProofs), from three invariants.
  `HistoryInv` holds of any number of requests at once: the types, a thread mapped
  or tracked only while its tests run, an answer exactly when the request is done,
  records of reports about visited methods (`HitsVisited`), each method with probes
  compiled and collected. `ServiceTypeCorrect` follows; of the offset it says no
  more than that it is a number, as requests at once may leave it anywhere.
  `ReaderInv` is about each request that is not `disturbed`, however many others
  are served: the buffer is the one it was sent, it has read a prefix of it and
  stands where the next entry was written (`Layout`, `ReadSoFar`). It gives
  `HistoryDecodedCorrect`.
  `AloneInv` holds while no two requests were ever served at once, and follows one
  from its method to its answer through every event of its invocations.
  `Balanced`: the balance of its thread is the number of its frames with probes,
  unless it is `skewed`. `Owned`: the blocks of its method that the reports and
  the tracked history have (`Collected`), later those it was sent and then those
  it is answered with, were executed by it, and are all it executed if the method
  has probes and the request is not `skewed`. What was looked up is not in the
  cache when it is added, and there are no reports when nobody is served, which is
  the part that ties one request to the next. `CoverageIsOwnCorrect` and
  `ErrorsAreOwnCorrect` follow. Of the constants they assume that token and module
  identify a method, as a metadata token does in its module, and that `None` is no
  answer (`ServiceAssumption`).

Only model-checked:

* MethodCoverage (`CfgIsCanonical`, `RegionsKept`, `FrameIsPopped`, `CoverageIsExecution`,
  `BehaviourKept`). The rewriting is a chain of folds of the community modules, which
  take operators as arguments. Induction over the length of one named recursive
  function can be had from the least counterexample, as in resolution; the
  theorem about folds in general has an operator as parameter, which the provers cannot
  instantiate.
* Liveness (`CallbacksReturn`, `ShutdownEnds`, `BatchesEnd`): TLAPS does not reason
  about fairness, nor about ENABLED.

## 5. Disagreements found

* `profiler/coverageTracker.cpp:88` reads through the history before line 93
  compares it with null: an aborted invocation crashes instead of being
  reported empty (`tracking_abort`).
* `profiler/instrumenter.cpp:128`: `mainFunctionId` is set on compilation only;
  when an earlier main becomes main again, its unwound frames stay in the
  balance (`tracking_mains`).
* `profiler/coverageTracker.cpp:152`: `serializedCoverageThreadIds` is never
  cleared; a mapped thread gets its empty report in the first history only
  (`reports_mapped`).
* `profiler/ILRewriter.cpp:1412`: the special treatment of branches to the ret
  of a tail call is never reached; such a path returns without `LeaveMain`
  (`method_tail`). With the executor such methods fail earlier, in the control
  flow graph; it bites in passive runs.
* `profiler/corProfiler.cpp:218` tests `isFinished` before the counter is raised:
  a compilation in between is not waited for and uses the interface after its
  release (`shutdown_late`).

## 6. Not modelled, and the plan

Not modelled for good: the tables of opcodes and reflection wrappers (data),
logging, COM plumbing and the PAL (boilerplate, vendored), the method header and
maximum stack of a rewritten body, `AddExitProbe`, `AddProbeAfter`, `Track_Enter`
and `Track_Leave` (unreachable), floating point, the distances of
`GraphUtils.fs` (nothing calls them), reflection in the resolver (generic types,
the search of a field by name and type).

`UnsafeUtils.cs` copies the bytes of Combine expressions. Lines 159, 167 and 188
subtract one from an end that line 217 takes as it is; which is meant cannot be
told from the repository (no test, document or producer of slices), so there is
no reference to check the arithmetic against.

What could come next:

1. Proofs: lemmas about the lists of ILRewriting (`InsertBefore` and `InsertAfter` keep
   ids distinct and in order), as a first step to `RegionsKept`; its folds would have to
   be unrolled as `FlattenFold` does it for the codec.
2. The filters and tail calls of ThreadTracking, and the steps inside a probe of
   CoverageReports, in the invocations of ExecutorService.
3. Bodies with nested exception clauses in `method_coverage`.

## 7. Running

```
tlc -config MCCoverageReports.cfg MCCoverageReports
tlapm CoverageReportsProofs.tla
```

The longest runs are `reports` (3.6 million states) and `batches` (450 thousand),
two minutes each, `method_coverage` (222 thousand) and `instrumentation` (708
thousand), about a minute each. The proofs about ExecutorService take about eight
minutes, the others less.
