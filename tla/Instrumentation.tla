-------------------------- MODULE Instrumentation --------------------------
(***************************************************************************)
(* What the profiler does when the runtime compiles a method: the gate of  *)
(* JITCompilationStarted, Instrumenter::instrument and doInstrumentation,  *)
(* the requests that change the entry method meanwhile, and Shutdown,      *)
(* which waits for the requests in progress before it releases the         *)
(* profiler interface.                                                     *)
(*                                                                         *)
(* A step is one access to data other threads use.  The two parts of       *)
(* mainMethodInfo that IsMain compares, the token and the name of the      *)
(* module, are written and read one at a time, without a lock.             *)
(***************************************************************************)
EXTENDS Integers, Sequences, FiniteSets

CONSTANTS
  Threads,         (* managed threads                                       *)
  Clients,         (* those that run a batch and name entry methods         *)
  Functions,       (* FunctionIDs                                           *)
  Modules, Tokens,
  MethodOf,        (* the method a FunctionID is a compilation of           *)
  Mains,           (* the methods the executor asks coverage of             *)
  Common,          (* functions any thread may compile at any time          *)
  PassiveRuns,     (* the values isPassiveRun may be constructed with       *)
  ParallelInstantiations, (* two instantiations of a generic method may be  *)
                   (* compiled at once                                      *)
  MayFail,         (* modules of which the runtime may refuse what it is    *)
                   (* asked for                                             *)
  MaxRequests,     (* bound on calls of GetHistory                          *)
  None, Null       (* nothing, or an uninitialized field; a null moduleName *)

Methods == [module : Modules, token : Tokens]

(* Probes that share a signature: initTokens makes that of the probes with *)
(* two arguments first, then that of EnterMain and Enter with three.  That *)
(* of Finalize_Call, before both, is for a probe that is never inserted.   *)
ProbeKinds == {"track", "enter"}
Signatures == [ProbeKinds -> Modules \cup {None}]
Layers == [main : BOOLEAN, id : Nat, signature : Signatures]

ASSUME InstrumentationAssumption ==
  /\ IsFiniteSet(Threads) /\ Clients \subseteq Threads /\ Common \subseteq Functions
  /\ MethodOf \in [Functions -> Methods] /\ Mains \subseteq Methods
  /\ PassiveRuns \subseteq BOOLEAN
  /\ ParallelInstantiations \in BOOLEAN /\ MayFail \subseteq Modules
  /\ MaxRequests \in Nat
  /\ None \notin Functions \cup Methods \cup Modules \cup Tokens
  /\ None \notin Seq(Layers)
  /\ Null \notin Modules

VARIABLES
  (* ProfilerState *)
  isPassiveRun, mainToken, mainModule, mainFunctionId, isFinished,
  (* shared by all instrumenters *)
  instrumentedMethods, collectedMethods,
  signature,       (* ProbeCall::threadMapping: the modules of the tokens   *)
  shutdownBlockingRequestsCount,
  (* each thread's place in a request, and its locals *)
  pc, function, methodId, asMain, imported,
  naming,          (* the method a client passes to setEntryMain            *)
  unwritten,       (* the fields of mainMethodInfo it still has to assign   *)
  shutdown,        (* how far Shutdown is                                   *)
  (* The runtime, external: the IL of a method is the sequence of sets of   *)
  (* probes put into it, the code of a function the IL it was compiled from *)
  body, code,
  requests,        (* calls of GetHistory so far                            *)
  (* History *)
  named,           (* methods that were assigned to mainMethodInfo          *)
  refused,         (* entry methods whose rewriting the runtime refused     *)
  unsigned,        (* ids of the compilations whose initTokens failed       *)
  awaited          (* requests Shutdown found in progress, not over yet     *)

stateVars == <<isPassiveRun, mainToken, mainModule, naming, unwritten, named>>
sharedVars == <<instrumentedMethods, collectedMethods, signature, unsigned>>
localVars == <<function, methodId, asMain, imported>>
codeVars == <<body, code, refused>>
gateVars == <<isFinished, shutdown, shutdownBlockingRequestsCount, awaited>>
vars == <<stateVars, mainFunctionId, sharedVars, pc, localVars, codeVars,
          gateVars, requests>>

-----------------------------------------------------------------------------
(* The places of a thread between raising and lowering the counter.        *)
Compiling == {"instrument", "module", "find", "insert", "tokens", "tokenAgain",
              "moduleAgain", "import", "export", "leave"}
Counted == Compiling \cup {"history"}

InProgress == {t \in Threads : pc[t] \in Counted}
Compiled   == {f \in Functions : code[f] # None}
Method(t)  == MethodOf[function[t]]

Goto(t, place) == pc' = [pc EXCEPT ![t] = place]

(* The runtime compiles the IL the method has by now.                      *)
FinishCompilation(f) == code' = [code EXCEPT ![f] = body[MethodOf[f]]]

(* A batch calls its entry method, which calls anything; other threads     *)
(* compile what they share with it.  A function is compiled once.          *)
MayCompile(t, f) ==
  /\ f \notin Compiled
  /\ \A u \in Threads : pc[u] # "idle" => function[u] # f
  /\ \/ f \in Common \/ isPassiveRun
     \/ t \in Clients /\ MethodOf[f] = naming[t]
  /\ \/ ParallelInstantiations
     \/ \A u \in Threads : pc[u] \notin {"idle", "history"} => Method(u) # MethodOf[f]

(* The flag is tested before the counter is raised.                        *)
JITCompilationStarted(t, f) ==
  /\ pc[t] = "idle" /\ unwritten[t] = {} /\ MayCompile(t, f)
  /\ IF isFinished
     THEN FinishCompilation(f) /\ UNCHANGED <<pc, function>>
     ELSE /\ Goto(t, "entered")
          /\ function' = [function EXCEPT ![t] = f]
          /\ UNCHANGED code
  /\ UNCHANGED <<stateVars, mainFunctionId, sharedVars, methodId, asMain, imported,
                 body, refused, gateVars, requests>>

Raise == shutdownBlockingRequestsCount' = shutdownBlockingRequestsCount + 1
Lower(t) == /\ shutdownBlockingRequestsCount' = shutdownBlockingRequestsCount - 1
            /\ awaited' = awaited \ {t}

(* Seeded defect: Shutdown is not held up by compilations.                 *)
BlockShutdownNever(t) ==
  /\ pc[t] = "entered"
  /\ Goto(t, "instrument")
  /\ UNCHANGED <<stateVars, mainFunctionId, sharedVars, localVars, codeVars,
                 gateVars, requests>>

BlockShutdown(t) ==
  /\ pc[t] = "entered"
  /\ Raise
  /\ Goto(t, "instrument")
  /\ UNCHANGED <<stateVars, mainFunctionId, sharedVars, localVars, codeVars,
                 isFinished, shutdown, awaited, requests>>

-----------------------------------------------------------------------------
(* IsMain: a null name matches nothing; then the token, then the name.     *)
TokenMatches(t) == mainModule # Null /\ mainToken = Method(t).token

(* Seeded defect: modules are not compared.                                *)
ModuleAlwaysMatches(t) == mainModule # Null

ModuleMatches(t) == mainModule = Method(t).module

InstrumentationIsNeeded(t) ==
  /\ pc[t] = "instrument"
  /\ Goto(t, IF TokenMatches(t) THEN "module" ELSE "leave")
  /\ UNCHANGED <<stateVars, mainFunctionId, sharedVars, localVars, codeVars,
                 gateVars, requests>>

CompareModule(t) ==
  /\ pc[t] = "module"
  /\ Goto(t, IF ModuleMatches(t) THEN "find" ELSE "leave")
  /\ mainFunctionId' = IF ModuleMatches(t) THEN function[t] ELSE mainFunctionId
  /\ UNCHANGED <<stateVars, sharedVars, localVars, codeVars, gateVars, requests>>

(* Seeded defects: no search; methods are told apart by their tokens only. *)
NeverInstrumented(t) == FALSE
TokenWasInstrumented(t) == \E m \in instrumentedMethods : m.token = Method(t).token

(* The set is searched without the mutex, which belongs to one instrumenter *)
(* only: nothing excludes another thread between the search and the insert. *)
WasInstrumented(t) == Method(t) \in instrumentedMethods

FindInstrumented(t) ==
  /\ pc[t] = "find"
  /\ Goto(t, IF WasInstrumented(t) THEN "leave" ELSE "insert")
  /\ UNCHANGED <<stateVars, mainFunctionId, sharedVars, localVars, codeVars,
                 gateVars, requests>>

CollectMethod(t) ==
  /\ pc[t] = "insert"
  /\ methodId' = [methodId EXCEPT ![t] = Len(collectedMethods)]
  /\ collectedMethods' = Append(collectedMethods, Method(t))
  /\ instrumentedMethods' = instrumentedMethods \cup {Method(t)}
  /\ Goto(t, "tokens")
  /\ UNCHANGED <<stateVars, mainFunctionId, signature, unsigned, function, asMain,
                 imported, codeVars, gateVars, requests>>

(* Seeded defect: tokens are made for the first module only.               *)
InitTokensOnce(t) ==
  /\ signature' = [signature EXCEPT ![t] =
                     [k \in ProbeKinds |-> IF @[k] = None THEN Method(t).module ELSE @[k]]]
  /\ UNCHANGED unsigned

(* A signature that cannot be made ends initTokens, and doInstrumentation  *)
(* drops its result: the probes still without one keep what the thread     *)
(* has from its last compilation, if anything.                             *)
InitTokens(t) ==
  \E made \in {ProbeKinds}
                 \cup IF Method(t).module \in MayFail THEN {{"track"}, {}} ELSE {} :
    /\ signature' = [signature EXCEPT ![t] =
                       [k \in ProbeKinds |-> IF k \in made THEN Method(t).module ELSE @[k]]]
    /\ unsigned' = IF made = ProbeKinds THEN unsigned ELSE unsigned \cup {methodId[t]}

DoInstrumentation(t) ==
  /\ pc[t] = "tokens"
  /\ InitTokens(t)
  /\ Goto(t, "tokenAgain")
  /\ UNCHANGED <<stateVars, mainFunctionId, instrumentedMethods, collectedMethods,
                 localVars, codeVars, gateVars, requests>>

(* The second evaluation of IsMain decides which probes are inserted.      *)
CompareTokenAgain(t) ==
  /\ pc[t] = "tokenAgain"
  /\ Goto(t, IF TokenMatches(t) THEN "moduleAgain" ELSE "import")
  /\ asMain' = [asMain EXCEPT ![t] = FALSE]
  /\ UNCHANGED <<stateVars, mainFunctionId, sharedVars, function, methodId, imported,
                 codeVars, gateVars, requests>>

CompareModuleAgain(t) ==
  /\ pc[t] = "moduleAgain"
  /\ asMain' = [asMain EXCEPT ![t] = ModuleMatches(t)]
  /\ Goto(t, "import")
  /\ UNCHANGED <<stateVars, mainFunctionId, sharedVars, function, methodId, imported,
                 codeVars, gateVars, requests>>

(* RewriteIL imports the body the method has and exports it with probes.   *)
ImportBody(t) ==
  /\ pc[t] = "import"
  /\ imported' = [imported EXCEPT ![t] = body[Method(t)]]
  /\ Goto(t, "export")
  /\ UNCHANGED <<stateVars, mainFunctionId, sharedVars, function, methodId, asMain,
                 codeVars, gateVars, requests>>

ExportBody(t) ==
  /\ pc[t] = "export"
  /\ body' = [body EXCEPT ![Method(t)] =
                Append(imported[t], [main |-> asMain[t], id |-> methodId[t],
                                     signature |-> signature[t]])]
  /\ Goto(t, "leave")
  /\ UNCHANGED <<stateVars, mainFunctionId, sharedVars, localVars, code, refused,
                 gateVars, requests>>

(* A call of the interface whose result is looked at fails: instrument     *)
(* returns, the insertion stays.                                           *)
Refuse(t) ==
  /\ pc[t] \in {"instrument", "tokens", "import", "export"}
  /\ Method(t).module \in MayFail
  /\ refused' = refused \cup ({Method(t)} \cap Mains)
  /\ Goto(t, "leave")
  /\ UNCHANGED <<stateVars, mainFunctionId, sharedVars, localVars, body, code,
                 gateVars, requests>>

UnblockShutdown(t) ==
  /\ pc[t] = "leave"
  /\ Lower(t)
  /\ FinishCompilation(function[t])
  /\ Goto(t, "idle")
  /\ UNCHANGED <<stateVars, mainFunctionId, sharedVars, localVars, body, refused,
                 isFinished, shutdown, requests>>

-----------------------------------------------------------------------------
(* setEntryMain, between two invocations of the batch.                     *)
SetEntryMain(t, m) ==
  /\ t \in Clients /\ ~isPassiveRun
  /\ pc[t] = "idle" /\ unwritten[t] = {}
  /\ naming' = [naming EXCEPT ![t] = m]
  /\ unwritten' = [unwritten EXCEPT ![t] = {"token", "module"}]
  /\ named' = named \cup {m}
  /\ UNCHANGED <<isPassiveRun, mainToken, mainModule, mainFunctionId, sharedVars, pc,
                 localVars, codeVars, gateVars, requests>>

AssignField(t, field) ==
  /\ field \in unwritten[t]
  /\ unwritten' = [unwritten EXCEPT ![t] = @ \ {field}]
  /\ mainToken' = IF field = "token" THEN naming[t].token ELSE mainToken
  /\ mainModule' = IF field = "module" THEN naming[t].module ELSE mainModule
  /\ UNCHANGED <<isPassiveRun, naming, named, mainFunctionId, sharedVars, pc,
                 localVars, codeVars, gateVars, requests>>

(* GetHistory, which CoverageReports has in detail; it ignores isFinished. *)
GetHistory(t) ==
  /\ t \in Clients /\ pc[t] = "idle" /\ unwritten[t] = {}
  /\ requests < MaxRequests
  /\ requests' = requests + 1
  /\ Raise
  /\ Goto(t, "history")
  /\ UNCHANGED <<stateVars, mainFunctionId, sharedVars, localVars, codeVars,
                 isFinished, shutdown, awaited>>

(* Seeded defect: the request returns without lowering the counter.        *)
HistoryServedCounted(t) ==
  /\ pc[t] = "history"
  /\ Goto(t, "idle")
  /\ UNCHANGED <<stateVars, mainFunctionId, sharedVars, localVars, codeVars,
                 gateVars, requests>>

HistoryServed(t) ==
  /\ pc[t] = "history"
  /\ Lower(t)
  /\ Goto(t, "idle")
  /\ UNCHANGED <<stateVars, mainFunctionId, sharedVars, localVars, codeVars,
                 isFinished, shutdown, requests>>

-----------------------------------------------------------------------------
(* Shutdown: raise the flag, spin on the counter, write the report of a    *)
(* passive run, release the interface.                                     *)
Finish ==
  /\ shutdown = "none"
  /\ isFinished' = TRUE
  /\ shutdown' = "waiting"
  /\ awaited' = InProgress
  /\ UNCHANGED <<stateVars, mainFunctionId, sharedVars, pc, localVars, codeVars,
                 shutdownBlockingRequestsCount, requests>>

Advance(from, to) ==
  /\ shutdown = from
  /\ shutdown' = to
  /\ UNCHANGED <<stateVars, mainFunctionId, sharedVars, pc, localVars, codeVars,
                 isFinished, shutdownBlockingRequestsCount, awaited, requests>>

WaitIsOver  == ~(shutdownBlockingRequestsCount > 0) /\ Advance("waiting", "awaited")
WriteReport == isPassiveRun /\ Advance("awaited", "written")
Release     == Advance(IF isPassiveRun THEN "written" ELSE "awaited", "released")

-----------------------------------------------------------------------------
Init ==
  /\ isPassiveRun \in PassiveRuns
  /\ IF isPassiveRun
     THEN \E m \in Mains : mainToken = m.token /\ mainModule = m.module /\ named = {m}
     ELSE mainToken = None /\ mainModule = Null /\ named = {}
  /\ mainFunctionId = None
  /\ isFinished = FALSE /\ shutdown = "none" /\ awaited = {}
  /\ shutdownBlockingRequestsCount = 0
  /\ instrumentedMethods = {} /\ collectedMethods = <<>>
  /\ signature = [t \in Threads |-> [k \in ProbeKinds |-> None]] /\ unsigned = {}
  /\ pc = [t \in Threads |-> "idle"]
  /\ function = [t \in Threads |-> None]
  /\ methodId = [t \in Threads |-> 0]
  /\ asMain = [t \in Threads |-> FALSE]
  /\ imported = [t \in Threads |-> <<>>]
  /\ naming = [t \in Threads |-> None]
  /\ unwritten = [t \in Threads |-> {}]
  /\ body = [m \in Methods |-> <<>>]
  /\ code = [f \in Functions |-> None]
  /\ requests = 0
  /\ refused = {}

(* What goes on once a compilation or a request has begun.                 *)
Work(t) ==
  \/ BlockShutdown(t)
  \/ InstrumentationIsNeeded(t) \/ CompareModule(t)
  \/ FindInstrumented(t) \/ CollectMethod(t)
  \/ DoInstrumentation(t) \/ CompareTokenAgain(t) \/ CompareModuleAgain(t)
  \/ ImportBody(t) \/ ExportBody(t) \/ Refuse(t)
  \/ UnblockShutdown(t)
  \/ HistoryServed(t)

Shutdown == WaitIsOver \/ WriteReport \/ Release

Next ==
  \/ \E t \in Threads :
       \/ \E f \in Functions : JITCompilationStarted(t, f)
       \/ \E m \in Mains : SetEntryMain(t, m)
       \/ \E field \in {"token", "module"} : AssignField(t, field)
       \/ GetHistory(t)
       \/ Work(t)
  \/ Finish
  \/ Shutdown

Spec == Init /\ [][Next]_vars

(* A thread inside the profiler goes on; so does Shutdown once called.     *)
FairSpec == Spec /\ (\A t \in Threads : WF_vars(Work(t))) /\ WF_vars(Shutdown)

-----------------------------------------------------------------------------
(* The state of the profiler, of the threads and of the code has its type. *)
TypeOK ==
  /\ isPassiveRun \in PassiveRuns /\ isFinished \in BOOLEAN
  /\ mainToken \in Tokens \cup {None} /\ mainModule \in Modules \cup {Null}
  /\ mainFunctionId \in Functions \cup {None}
  /\ instrumentedMethods \subseteq Methods
  /\ collectedMethods \in Seq(Methods)
  /\ signature \in [Threads -> Signatures] /\ unsigned \subseteq Nat
  /\ shutdownBlockingRequestsCount \in Nat
  /\ pc \in [Threads -> Counted \cup {"idle", "entered"}]
  /\ function \in [Threads -> Functions \cup {None}]
  /\ methodId \in [Threads -> Nat] /\ asMain \in [Threads -> BOOLEAN]
  /\ imported \in [Threads -> Seq(Layers)]
  /\ naming \in [Threads -> Mains \cup {None}]
  /\ unwritten \in [Threads -> SUBSET {"token", "module"}]
  /\ shutdown \in {"none", "waiting", "awaited", "written", "released"}
  /\ body \in [Methods -> Seq(Layers)]
  /\ code \in [Functions -> Seq(Layers) \cup {None}]
  /\ requests \in Nat
  /\ named \subseteq Mains /\ refused \subseteq Methods
  /\ awaited \subseteq Threads

(* "checking if this method was rewritten before": however many of its     *)
(* instantiations are compiled, a method gets one set of probes.           *)
RewrittenOnce == \A m \in Methods : Len(body[m]) <= 1

(* "skipping non-main methods": only methods a client named are rewritten. *)
OnlyMainsRewritten == \A m \in Methods : body[m] # <<>> => m \in named

(* The id the probes of a method report is its place in the table of       *)
(* collected methods, with which clients resolve it, and their calls have  *)
(* the signatures of its own module, unless the runtime made none for them *)
(* in this very compilation.                                               *)
Fits(probes, m) ==
  /\ probes.id < Len(collectedMethods) /\ collectedMethods[probes.id + 1] = m
  /\ probes.id \in unsigned \/ \A k \in ProbeKinds : probes.signature[k] = m.module

ProbesFit == \A m \in Methods : \A i \in DOMAIN body[m] : Fits(body[m][i], m)

(* Whatever was named and compiled before, code of the method a client has *)
(* named and may now invoke has main's probes, unless the runtime refused  *)
(* them; once the profiler is finished nothing is promised.                *)
EntryMainHasProbes ==
  \A t \in Clients, f \in Compiled :
    /\ MethodOf[f] = naming[t] /\ unwritten[t] = {}
    /\ naming[t] \notin refused /\ ~isFinished
    => code[f] # <<>> /\ code[f][1].main

(* "waiting until all current requests are resolved": those in progress    *)
(* when the flag was raised are over when Shutdown goes on.                *)
RequestsAwaited == shutdown \in {"awaited", "written", "released"} => awaited = {}

(* "the process was finished, ignoring all firther requests": nothing uses *)
(* the interface once it is released.                                      *)
NothingAfterRelease == shutdown = "released" => \A t \in Threads : pc[t] \notin Compiling

(* Shutdown does not spin for ever.                                        *)
ShutdownEnds == shutdown = "waiting" ~> shutdown = "released"
=============================================================================
