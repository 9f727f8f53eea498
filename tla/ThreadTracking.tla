--------------------------- MODULE ThreadTracking ---------------------------
(***************************************************************************)
(* How the profiler follows the invocations of the entry method ("main")   *)
(* on each managed thread: ThreadTracker, the probes injected in main, the *)
(* exception callbacks of CorProfiler, and the part of CoverageTracker     *)
(* that opens and closes the history of one invocation.                    *)
(*                                                                         *)
(* The code sees a thread only through callbacks.  What the thread really  *)
(* does (calls, returns, tail calls, two-pass exception handling with      *)
(* filters and finally blocks) is the runtime's business: it is the shadow *)
(* stack below, external to the program, and it decides which callback     *)
(* comes next.  A callback runs to its end in one step: it touches only    *)
(* the entries of the calling thread, and the requests of other threads    *)
(* that clear these entries are the subject of CoverageReports.            *)
(***************************************************************************)
EXTENDS Integers, Sequences, FiniteSets

CONSTANTS
  Threads,         (* managed threads                                       *)
  Spawned,         (* the threads the executor does not call main from:     *)
                   (* started by the program under test, never mapped       *)
  Functions,       (* FunctionIDs of compiled code                          *)
  Methods,         (* (module, token) pairs: what SetEntryMain names        *)
  MethodOf,        (* the method a FunctionID is a compilation of           *)
  Mains,           (* the methods the executor asks coverage of             *)
  MapIds,          (* the ids given to SetCurrentThreadId                   *)
  PassiveRuns,     (* the values isPassiveRun may be constructed with       *)
  None,            (* no entry for this thread in a ThreadStorage           *)
  Null,            (* the null CoverageHistory pointer                      *)
  NoFunction,      (* function id 0; also the -1 mainFunctionId starts with: *)
                   (* it is compared only once a thread is tracked          *)
  HostFunction,    (* the code under the entry method: reflection, Execute  *)
  (* What the program under test is allowed to do. *)
  TailCallees,     (* the functions main calls with the tail. prefix        *)
  EscapeDepth,     (* exceptions may leave a filter that runs above at most *)
                   (* that many frames of main                              *)
  FinallyThrows,   (* exceptions may be thrown and caught inside a finally  *)
  Aborts,          (* a ThreadAbortException may be raised                  *)
  InvokeFails,     (* MethodBase.Invoke may throw before it enters main     *)
  (* Bounds of the model. *)
  MaxDepth,        (* entries of the shadow stack                           *)
  MaxInvocations   (* outermost calls of a thread                           *)

(* A CoverageHistory, abstracted to the invocations its records come from. *)
Histories == [of : SUBSET Nat]

ASSUME TrackingAssumption ==
  /\ Spawned \subseteq Threads
  /\ MethodOf \in [Functions -> Methods]
  /\ Mains \subseteq Methods /\ Mains # {}
  /\ TailCallees \subseteq Functions
  /\ MapIds \subseteq Int
  /\ PassiveRuns \subseteq BOOLEAN /\ FinallyThrows \in BOOLEAN
  /\ Aborts \in BOOLEAN /\ InvokeFails \in BOOLEAN
  /\ None \notin Int \cup {Null, NoFunction, HostFunction} \cup Functions
  /\ {None, Null} \cap Histories = {}
  /\ NoFunction \notin Functions \cup {HostFunction}
  /\ HostFunction \notin Functions
  /\ None \notin Methods
  /\ EscapeDepth \in Nat /\ MaxDepth \in Nat /\ MaxInvocations \in Nat

VARIABLES
  (* ProfilerState and what JIT compilation did to the code *)
  isPassiveRun,
  entryMain,       (* mainMethodInfo, None before the first SetEntryMain    *)
  mainFunctionId,
  compiled,        (* functions that were compiled                          *)
  probed,          (* those compiled from a body with main's probes         *)
  (* ThreadTracker and CoverageTracker, entries of each thread *)
  tracker,
  (* The runtime, external *)
  stack,           (* shadow stack, innermost entry last                    *)
  exn,             (* the exception in flight                               *)
  request,         (* the method Execute is about to invoke                 *)
  armed,           (* the executor is between SetCurrentThreadId and Invoke *)
  started          (* outermost main invocations begun                      *)

profilerVars == <<isPassiveRun, entryMain, mainFunctionId, compiled, probed>>
runtimeVars  == <<stack, exn, request, armed, started>>
vars == <<isPassiveRun, entryMain, mainFunctionId, compiled, probed, tracker,
          stack, exn, request, armed, started>>

-----------------------------------------------------------------------------
(***************************************************************************)
(* ThreadStorage: the entries of the current thread.  profiler_assert only *)
(* aborts in a debug build; `failed` collects the assertions that do not   *)
(* hold and the operation goes on as it does in a release build, where     *)
(* reading a missing entry of the std::map inserts the zero of its type.   *)
(***************************************************************************)
Check(s, cond, assertion) ==
  IF cond THEN s ELSE [s EXCEPT !.failed = @ \cup {assertion}]

Exist(s, slot) == s[slot] # None

Zero(slot) == CASE slot = "coverage" -> Null
                [] slot = "unwind"   -> NoFunction
                [] OTHER             -> 0

Store(s, slot, value) ==
  [Check(s, ~Exist(s, slot), "store") EXCEPT ![slot] = value]

StoreOrUpdate(s, slot, value) == [s EXCEPT ![slot] = value]

Load(s, slot) == IF Exist(s, slot) THEN s[slot] ELSE Zero(slot)

(* What load() leaves behind. *)
Loaded(s, slot) == [Check(s, Exist(s, slot), "load") EXCEPT ![slot] = Load(s, slot)]

Add(s, slot, delta) ==
  [Check(s, Exist(s, slot), "update") EXCEPT ![slot] = Load(s, slot) + delta]

Remove(s, slot) == [Check(s, Exist(s, slot), "remove") EXCEPT ![slot] = None]

-----------------------------------------------------------------------------
(***************************************************************************)
(* CoverageTracker, restricted to the history of one thread.               *)
(***************************************************************************)
Crash(s) == [s EXCEPT !.crashed = TRUE]

AddCoverage(s, event, invocation) ==
  IF event = "EnterMain" /\ ~Exist(s, "coverage")
  THEN Store(s, "coverage", [of |-> {invocation}])
  ELSE IF Load(s, "coverage") = Null
       THEN Crash(Loaded(s, "coverage"))
       ELSE [s EXCEPT !.coverage.of = @ \cup {invocation}]

InvocationAborted(s) == [Check(s, Exist(s, "coverage"), "update") EXCEPT !.coverage = Null]

(* The methods visited are read through the pointer before it is compared  *)
(* with nullptr.                                                           *)
InvocationFinished(s) ==
  LET coverage == Load(s, "coverage")
      threadId == IF Exist(s, "threadId") THEN s.threadId ELSE 0
  IN  IF coverage = Null
      THEN Crash(Loaded(s, "coverage"))
      ELSE Remove([s EXCEPT !.reports = Append(@, [id |-> threadId, of |-> coverage.of])],
                  "coverage")

-----------------------------------------------------------------------------
(* ThreadTracker.  Under collectMainOnly, which is never false, only main   *)
(* has probes and the balance counts its frames.                           *)
IsTracked(s) == Exist(s, "balance")

TrackCurrentThread(s) == Store(Store(s, "balance", 0), "inFilter", 0)

StackBalanceUp(s) == Add(Check(s, IsTracked(s), "tracked"), "balance", 1)

StackBalanceDown(s) ==
  LET down == Add(Check(s, IsTracked(s), "tracked"), "balance", -1)
  IN  Check(down, down.balance >= 0, "balance")

(* Seeded defect: a storage is forgotten.                                  *)
FinishedKeepingFilter(s) ==
  LET done == InvocationFinished(s)
      lost == Remove(done, "balance")
  IN  IF done.crashed THEN done
      ELSE IF isPassiveRun THEN lost ELSE Remove(lost, "threadId")

OnCurrentThreadFinished(s) ==
  LET done == InvocationFinished(s)
      lost == Remove(Remove(done, "balance"), "inFilter")
  IN  IF done.crashed THEN done
      ELSE IF isPassiveRun THEN lost ELSE Remove(lost, "threadId")

LoseCurrentThread(s) ==
  OnCurrentThreadFinished(
    Check(s, IsTracked(s) /\ Load(s, "balance") = 0 /\ Load(s, "inFilter") = 0, "lose"))

AbortCurrentThread(s) == OnCurrentThreadFinished(s)

UnwindFunctionEnter(s, function) ==
  StoreOrUpdate(Check(s, function # NoFunction, "function"), "unwind", function)

(* Seeded defect: a filter that is unwound counts as a frame of main.      *)
UnwindLeaveUnfiltered(s) ==
  LET function == Load(s, "unwind")
      left     == Remove(Loaded(s, "unwind"), "unwind")
      down     == StackBalanceDown(left)
  IN  IF function # mainFunctionId THEN left
      ELSE IF down.balance = 0 THEN LoseCurrentThread(down) ELSE down

UnwindFunctionLeave(s) ==
  LET function == Load(s, "unwind")
      left     == Remove(Loaded(s, "unwind"), "unwind")
      down     == StackBalanceDown(left)
  IN  IF \/ function # mainFunctionId
         \/ Load(left, "inFilter") > 0 /\ Load(left, "balance") <= 1
      THEN left
      ELSE IF down.balance = 0 THEN LoseCurrentThread(down) ELSE down

(* Seeded defect: the filter counter only grows.                           *)
FilterLeaveIgnored(s) == s

FilterEnter(s) == Add(s, "inFilter", 1)
FilterLeave(s) == Add(s, "inFilter", -1)

MapCurrentThread(s, id) == Store(s, "threadId", id)

-----------------------------------------------------------------------------
(* The probes of main.  Every one but EnterMain returns at once when the   *)
(* thread is not tracked.                                                  *)
WhenTracked(s, handled) == IF IsTracked(s) THEN handled ELSE s

TrackEnterMain(s, invocation) ==
  IF IsTracked(s)
  THEN StackBalanceUp(s)
  ELSE AddCoverage(StackBalanceUp(TrackCurrentThread(s)), "EnterMain", invocation)

(* Track_Coverage, Track_Stsfld, Branch, Track_Call, Track_Throw *)
TrackCoverage(s, invocation) ==
  WhenTracked(s, AddCoverage(s, "TrackCoverage", invocation))

TrackTailcall(s, invocation) ==
  WhenTracked(s, AddCoverage(StackBalanceDown(s), "Tailcall", invocation))

(* Seeded defect: the innermost return of main ends the invocation.        *)
LeaveMainAtOnce(s, invocation) ==
  LET covered == AddCoverage(s, "LeaveMain", invocation)
  IN  WhenTracked(s, IF covered.crashed THEN covered
                     ELSE LoseCurrentThread(StackBalanceDown(covered)))

TrackLeaveMain(s, invocation) ==
  LET covered == AddCoverage(s, "LeaveMain", invocation)
      down    == StackBalanceDown(covered)
  IN  WhenTracked(s, IF covered.crashed THEN covered
                     ELSE IF down.balance # 0 THEN down ELSE LoseCurrentThread(down))

-----------------------------------------------------------------------------
(***************************************************************************)
(* The runtime.  An entry of the shadow stack is a method's frame or a     *)
(* funclet (filter or finally) that runs on top of the frames an exception *)
(* goes through; a funclet keeps the exception it runs for in `resume`.    *)
(***************************************************************************)
NoExn == [phase |-> "none", target |-> 0]

Frame(function)           == [fn |-> function, kind |-> "method", resume |-> NoExn]
Funclet(kind, function, e) == [fn |-> function, kind |-> kind, resume |-> e]

Top(t) == stack[t][Len(stack[t])]
Pop(s) == SubSeq(s, 1, Len(s) - 1)
FunctionAt(t, i) == IF i = 0 THEN HostFunction ELSE stack[t][i].fn

IsMainFrame(entry) == entry.kind = "method" /\ entry.fn \in probed
Depth(t) == Cardinality({i \in DOMAIN stack[t] : IsMainFrame(stack[t][i])})

(* An exception is caught by the frame at i only if no funclet is above it: *)
(* a funclet catches what is thrown in it or above.                        *)
MethodsAbove(t, i) == \A j \in (i + 1)..Len(stack[t]) : stack[t][j].kind = "method"

InFinally(t) == \E i \in DOMAIN stack[t] : stack[t][i].kind = "finally"

Alive   == \A t \in Threads : ~tracker[t].crashed
Runs(t) == Alive /\ exn[t].phase = "none"

(* Seeded defect: the compilation that rewrites main is not remembered.    *)
JitForgetsMain(f) ==
  LET isMain == MethodOf[f] = entryMain
  IN  /\ compiled' = IF isMain THEN compiled ELSE compiled \cup {f}
      /\ mainFunctionId' = IF f \notin compiled /\ isMain THEN f ELSE mainFunctionId
      /\ probed' = IF f \notin compiled /\ isMain THEN probed \cup {f} ELSE probed

(* JITCompilationStarted: the body of the current main gets its probes;    *)
(* the other instantiations of a rewritten method are compiled from it.    *)
Jit(f) ==
  LET isMain == MethodOf[f] = entryMain
  IN  /\ compiled' = compiled \cup {f}
      /\ mainFunctionId' = IF f \notin compiled /\ isMain THEN f ELSE mainFunctionId
      /\ probed' = IF /\ f \notin compiled
                      /\ isMain \/ \E g \in probed : MethodOf[g] = MethodOf[f]
                   THEN probed \cup {f} ELSE probed

(* The prologue of f: the enter probe, if f has probes.                    *)
Enter(t, f) ==
  LET outermost == IF f \in probed' /\ Depth(t) = 0 THEN 1 ELSE 0
  IN  /\ started' = [started EXCEPT ![t] = @ + outermost]
      /\ tracker' = [tracker EXCEPT ![t] =
                       IF f \in probed' THEN TrackEnterMain(@, started'[t]) ELSE @]

-----------------------------------------------------------------------------
(* The loop of Execute: SetEntryMain, SetCurrentThreadId, Invoke.  An       *)
(* Invoke that threw before entering main is followed by the next test.    *)
SetEntryMain(t, m) ==
  /\ Alive /\ ~isPassiveRun
  /\ t \notin Spawned /\ stack[t] = <<>>
  /\ ~armed[t] \/ InvokeFails
  /\ entryMain' = m
  /\ request' = [request EXCEPT ![t] = m]
  /\ armed' = [armed EXCEPT ![t] = FALSE]
  /\ UNCHANGED <<isPassiveRun, mainFunctionId, compiled, probed, tracker, stack, exn, started>>

SetCurrentThreadId(t, id) ==
  /\ Alive /\ request[t] # None /\ ~armed[t] /\ stack[t] = <<>>
  /\ armed' = [armed EXCEPT ![t] = TRUE]
  /\ tracker' = [tracker EXCEPT ![t] = MapCurrentThread(@, id)]
  /\ UNCHANGED <<profilerVars, request, stack, exn, started>>

(* Calls and returns of the program under test.                            *)
MayCall(t, f) ==
  /\ Depth(t) = 0 => started[t] < MaxInvocations
  /\ \/ stack[t] # <<>> \/ isPassiveRun \/ t \in Spawned
     \/ armed[t] /\ MethodOf[f] = request[t]

CallFunction(t, f) ==
  /\ Runs(t) /\ Len(stack[t]) < MaxDepth /\ MayCall(t, f)
  /\ Jit(f)
  /\ Enter(t, f)
  /\ stack' = [stack EXCEPT ![t] = Append(@, Frame(f))]
  /\ armed' = [armed EXCEPT ![t] = FALSE]
  /\ request' = [request EXCEPT ![t] = None]
  /\ UNCHANGED <<isPassiveRun, entryMain, exn>>

Return(t) ==
  /\ Runs(t) /\ stack[t] # <<>> /\ Top(t).kind = "method"
  /\ tracker' = [tracker EXCEPT ![t] =
                   IF IsMainFrame(Top(t)) THEN TrackLeaveMain(@, started[t]) ELSE @]
  /\ stack' = [stack EXCEPT ![t] = Pop(@)]
  /\ UNCHANGED <<profilerVars, request, exn, armed, started>>

(* tail. call: the probes of the ret and of the call run before the callee *)
(* takes the place of main's frame.                                        *)
TailCall(t, f) ==
  /\ Runs(t) /\ stack[t] # <<>> /\ IsMainFrame(Top(t))
  /\ Jit(f)
  /\ LET left == TrackTailcall(TrackCoverage(tracker[t], started[t]), started[t])
     IN  tracker' = [tracker EXCEPT ![t] =
                       IF f \in probed' THEN TrackEnterMain(left, started[t]) ELSE left]
  /\ stack' = [stack EXCEPT ![t] = Append(Pop(@), Frame(f))]
  /\ UNCHANGED <<isPassiveRun, entryMain, request, exn, armed, started>>

(* A probe inside main, or inside one of its funclets.                     *)
Probe(t) ==
  /\ Runs(t) /\ stack[t] # <<>> /\ Top(t).fn \in probed
  /\ tracker' = [tracker EXCEPT ![t] = TrackCoverage(@, started[t])]
  /\ UNCHANGED <<profilerVars, runtimeVars>>

-----------------------------------------------------------------------------
(* Two-pass exception handling.  First pass ("search"): filters of the     *)
(* frames between the throw and the catch may run.  Second pass: each      *)
(* frame is entered, its finally blocks run, it is left; the frame of the  *)
(* catch is entered and stays.  Target 0 is a catch below the entry call.  *)
(* This is before Shutdown: with isFinished the filter callbacks and unwind *)
(* leave return at once as well.                                           *)
Callback(t, handled) == tracker' = [tracker EXCEPT ![t] = WhenTracked(@, handled)]

Throw(t, abort) ==
  /\ Runs(t) /\ stack[t] # <<>>
  /\ InFinally(t) => FinallyThrows
  /\ \E target \in 0..Len(stack[t]) :
       /\ MethodsAbove(t, target)
       /\ exn' = [exn EXCEPT ![t] = [phase |-> "search", target |-> target]]
  /\ Callback(t, IF abort THEN AbortCurrentThread(InvocationAborted(tracker[t]))
                 ELSE tracker[t])
  /\ UNCHANGED <<profilerVars, request, stack, armed, started>>

(* An exception leaves the filter it was thrown in: the runtime unwinds    *)
(* the funclet and takes the filter's answer for "no".                     *)
ThrowFromFilter(t) ==
  /\ Runs(t)
  /\ \E i \in DOMAIN stack[t] :
       /\ stack[t][i].kind = "filter" /\ MethodsAbove(t, i)
       /\ Cardinality({j \in 1..i : IsMainFrame(stack[t][j])}) <= EscapeDepth
       /\ exn' = [exn EXCEPT ![t] = [phase |-> "search", target |-> i - 1]]
  /\ UNCHANGED <<profilerVars, tracker, request, stack, armed, started>>

RunFilter(t) ==
  /\ Alive /\ exn[t].phase = "search" /\ Len(stack[t]) < MaxDepth
  /\ \E i \in DOMAIN stack[t] :
       /\ i >= exn[t].target /\ stack[t][i].kind = "method"
       /\ stack' = [stack EXCEPT ![t] = Append(@, Funclet("filter", stack[t][i].fn, exn[t]))]
  /\ exn' = [exn EXCEPT ![t] = NoExn]
  /\ Callback(t, FilterEnter(tracker[t]))
  /\ UNCHANGED <<profilerVars, request, armed, started>>

FilterReturns(t) ==
  /\ Runs(t) /\ stack[t] # <<>> /\ Top(t).kind = "filter"
  /\ exn' = [exn EXCEPT ![t] = Top(t).resume]
  /\ stack' = [stack EXCEPT ![t] = Pop(@)]
  /\ Callback(t, FilterLeave(tracker[t]))
  /\ UNCHANGED <<profilerVars, request, armed, started>>

SwallowedByFilter(t) ==
  /\ Alive /\ exn[t].phase = "swallowed"
  /\ exn' = [exn EXCEPT ![t].phase = "search"]
  /\ Callback(t, FilterLeave(tracker[t]))
  /\ UNCHANGED <<profilerVars, request, stack, armed, started>>

Unwinding(t) == Alive /\ exn[t].phase \in {"search", "unwind"}

UnwindEnter(t) ==
  /\ Unwinding(t) /\ Len(stack[t]) > exn[t].target
  /\ exn' = [exn EXCEPT ![t].phase = "entered"]
  /\ Callback(t, UnwindFunctionEnter(tracker[t], Top(t).fn))
  /\ UNCHANGED <<profilerVars, request, stack, armed, started>>

UnwindLeave(t) ==
  /\ Alive /\ exn[t].phase = "entered"
  /\ exn' = [exn EXCEPT ![t] = IF Top(t).kind = "filter"
                               THEN [Top(t).resume EXCEPT !.phase = "swallowed"]
                               ELSE [@ EXCEPT !.phase = "unwind"]]
  /\ stack' = [stack EXCEPT ![t] = Pop(@)]
  /\ Callback(t, UnwindFunctionLeave(tracker[t]))
  /\ UNCHANGED <<profilerVars, request, armed, started>>

Catch(t) ==
  /\ Unwinding(t) /\ Len(stack[t]) = exn[t].target
  /\ exn' = [exn EXCEPT ![t] = NoExn]
  /\ Callback(t, UnwindFunctionEnter(tracker[t], FunctionAt(t, exn[t].target)))
  /\ UNCHANGED <<profilerVars, request, stack, armed, started>>

RunFinally(t) ==
  /\ Alive /\ exn[t].phase = "entered" /\ Top(t).kind = "method"
  /\ Len(stack[t]) < MaxDepth
  /\ stack' = [stack EXCEPT ![t] = Append(@, Funclet("finally", Top(t).fn, exn[t]))]
  /\ exn' = [exn EXCEPT ![t] = NoExn]
  /\ UNCHANGED <<profilerVars, tracker, request, armed, started>>

FinallyReturns(t) ==
  /\ Runs(t) /\ stack[t] # <<>> /\ Top(t).kind = "finally"
  /\ exn' = [exn EXCEPT ![t] = Top(t).resume]
  /\ stack' = [stack EXCEPT ![t] = Pop(@)]
  /\ UNCHANGED <<profilerVars, tracker, request, armed, started>>

-----------------------------------------------------------------------------
NoEntries == [threadId |-> None, balance |-> None, unwind |-> None,
              inFilter |-> None, coverage |-> None,
              reports |-> <<>>, failed |-> {}, crashed |-> FALSE]

(* A passive run gets its entry method from the environment, at load time. *)
Init ==
  /\ isPassiveRun \in PassiveRuns
  /\ entryMain \in IF isPassiveRun THEN Mains ELSE {None}
  /\ mainFunctionId = NoFunction
  /\ compiled = {} /\ probed = {}
  /\ tracker = [t \in Threads |-> NoEntries]
  /\ stack = [t \in Threads |-> <<>>]
  /\ exn = [t \in Threads |-> NoExn]
  /\ request = [t \in Threads |-> None]
  /\ armed = [t \in Threads |-> FALSE]
  /\ started = [t \in Threads |-> 0]

Execute(t) ==
  \/ \E m \in Mains : SetEntryMain(t, m)
  \/ \E id \in MapIds : SetCurrentThreadId(t, id)

Program(t) ==
  \/ \E f \in Functions : CallFunction(t, f)
  \/ \E f \in TailCallees : TailCall(t, f)
  \/ Return(t)
  \/ Probe(t)

Exceptions(t) ==
  \/ Throw(t, FALSE)
  \/ Aborts /\ Throw(t, TRUE)
  \/ ThrowFromFilter(t)
  \/ RunFilter(t) \/ FilterReturns(t) \/ SwallowedByFilter(t)
  \/ UnwindEnter(t) \/ UnwindLeave(t) \/ Catch(t)
  \/ RunFinally(t) \/ FinallyReturns(t)

Next == \E t \in Threads : Execute(t) \/ Program(t) \/ Exceptions(t)

Spec == Init /\ [][Next]_vars

-----------------------------------------------------------------------------
(* The entries of the storages and the shadow stack have their types.      *)
Slots == [threadId : Int \cup {None}, balance : Int \cup {None},
          unwind : Functions \cup {NoFunction, HostFunction, None},
          inFilter : Int \cup {None}, coverage : Histories \cup {Null, None},
          reports : Seq([id : Int, of : SUBSET Nat]),
          failed : SUBSET {"store", "load", "update", "remove", "tracked",
                           "balance", "lose", "function"},
          crashed : BOOLEAN]
Exns    == [phase : {"none", "search", "swallowed", "unwind", "entered"}, target : Nat]
Entries == [fn : Functions, kind : {"method", "filter", "finally"}, resume : Exns]

TypeOK ==
  /\ isPassiveRun \in PassiveRuns
  /\ entryMain \in Methods \cup {None}
  /\ mainFunctionId \in Functions \cup {NoFunction}
  /\ compiled \subseteq Functions /\ probed \subseteq compiled
  /\ tracker \in [Threads -> Slots]
  /\ stack \in [Threads -> Seq(Entries)]
  /\ exn \in [Threads -> Exns]
  /\ request \in [Threads -> Mains \cup {None}]
  /\ armed \in [Threads -> BOOLEAN]
  /\ started \in [Threads -> Nat]

(* The balance of a thread is the number of frames of main on its stack,   *)
(* and the thread is tracked exactly while there is one: calls, returns    *)
(* and exceptions that leave main by any path keep the count (the contract *)
(* of threadTracker.h, "returns current stack size").                      *)
BalanceIsMainDepth ==
  \A t \in Threads :
    Alive => tracker[t].balance = IF Depth(t) = 0 THEN None ELSE Depth(t)

(* Every outermost invocation of main that ended, normally or not, has one *)
(* report with its own records and no others, in the order they ended.     *)
OneReportPerInvocation ==
  \A t \in Threads :
    LET ended == started[t] - IF Depth(t) = 0 THEN 0 ELSE 1
    IN  Alive => /\ Len(tracker[t].reports) = ended
                 /\ \A i \in 1..ended : tracker[t].reports[i].of = {i}

(* No profiler_assert of the storages or of ThreadTracker fails: a debug   *)
(* build of the profiler never aborts the process.                         *)
AssertionsHold == \A t \in Threads : tracker[t].failed = {}

(* The filter counter of a tracked thread counts the filters running above *)
(* the outermost frame of main, so it is back to zero when main is left.   *)
FilterCountIsExact ==
  \A t \in Threads :
    LET filters == {i \in DOMAIN stack[t] :
                      /\ stack[t][i].kind = "filter"
                      /\ \E j \in 1..i : IsMainFrame(stack[t][j])}
        pending == IF exn[t].phase = "swallowed" THEN 1 ELSE 0
    IN  Alive /\ Exist(tracker[t], "inFilter") =>
          tracker[t].inFilter = Cardinality(filters) + pending

(* An aborted invocation is reported with empty coverage: the process that *)
(* hosts the profiler survives ("Serialize empty coverage (aborted)").     *)
AbortIsReported == Alive
=============================================================================
