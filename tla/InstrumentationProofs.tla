------------------------ MODULE InstrumentationProofs ------------------------
(***************************************************************************)
(* Proofs about Instrumentation, for every number of threads, clients,     *)
(* functions and methods.                                                  *)
(***************************************************************************)
EXTENDS Instrumentation, FiniteSetTheorems, TLAPS

(* The counter Shutdown looks at is the number of requests in progress.    *)
CounterExact == shutdownBlockingRequestsCount = Cardinality(InProgress)

(* A thread that compiles has a function; once tokens are made, all of     *)
(* them, they are of the module of its method; a client that assigns has a *)
(* method to name.                                                         *)
Locals ==
  \A t \in Threads :
    /\ pc[t] \notin {"idle", "history"} => function[t] \in Functions
    /\ pc[t] \in {"tokenAgain", "moduleAgain", "import", "export"}
         => methodId[t] \in unsigned \/ \A k \in ProbeKinds : signature[t][k] = Method(t).module
    /\ unwritten[t] # {} => naming[t] \in Mains

TypeInv == TypeOK /\ Locals /\ CounterExact

-----------------------------------------------------------------------------
(* The threads in progress after a step of one thread.                     *)
LEMMA EnterProgress ==
  ASSUME TypeInv, NEW t \in Threads, pc[t] \notin Counted,
         NEW place \in Counted, Goto(t, place), Raise
  PROVE  CounterExact' /\ shutdownBlockingRequestsCount' \in Nat
<1>1. InProgress' = InProgress \cup {t} /\ t \notin InProgress
  BY DEF InProgress, Goto, TypeInv, TypeOK
<1>2. IsFiniteSet(InProgress)
  BY InstrumentationAssumption, FS_Subset DEF InProgress
<1>3. Cardinality(InProgress \cup {t}) = Cardinality(InProgress) + 1
  BY <1>1, <1>2, FS_AddElement
<1>4. QED
  BY <1>1, <1>3 DEF TypeInv, TypeOK, CounterExact, Raise

LEMMA LeaveProgress ==
  ASSUME TypeInv, NEW t \in Threads, pc[t] \in Counted,
         NEW place \in {"idle", "entered"}, Goto(t, place), Lower(t)
  PROVE  CounterExact' /\ shutdownBlockingRequestsCount' \in Nat
<1>1. InProgress' = InProgress \ {t} /\ t \in InProgress
  BY DEF InProgress, Goto, TypeInv, TypeOK, Counted, Compiling
<1>2. IsFiniteSet(InProgress)
  BY InstrumentationAssumption, FS_Subset DEF InProgress
<1>3. Cardinality(InProgress \ {t}) = Cardinality(InProgress) - 1
  BY <1>1, <1>2, FS_RemoveElement
<1>4. Cardinality(InProgress \ {t}) \in Nat
  BY <1>2, FS_RemoveElement, FS_CardinalityType
<1>5. QED
  BY <1>1, <1>3, <1>4 DEF TypeInv, TypeOK, CounterExact, Lower

LEMMA StayInProgress ==
  ASSUME TypeInv, NEW t \in Threads, NEW place, Goto(t, place),
         pc[t] \in Counted <=> place \in Counted,
         UNCHANGED shutdownBlockingRequestsCount
  PROVE  CounterExact'
<1>1. InProgress' = InProgress
  BY DEF InProgress, Goto, TypeInv, TypeOK
<1>2. QED
  BY <1>1 DEF TypeInv, CounterExact
-----------------------------------------------------------------------------
(* A method is a module and a token. *)
LEMMA MethodTypes == \A m \in Methods : m.module \in Modules /\ m.token \in Tokens
BY DEF Methods

(* Types, locals and the counter: one step per action. *)
LEMMA TypeStep ==
  ASSUME TypeInv, [Next]_vars
  PROVE  TypeInv'
<1> USE InstrumentationAssumption, MethodTypes
<1> USE DEF TypeOK, Locals, Method, stateVars, sharedVars, localVars, codeVars, gateVars
<1>1. ASSUME NEW t \in Threads, NEW f \in Functions, JITCompilationStarted(t, f)
      PROVE  TypeInv'
  <2>1. CASE isFinished
    <3>1. code' \in [Functions -> Seq(Layers) \cup {None}]
      <4>1. MethodOf[f] \in Methods
        OBVIOUS
      <4>2. body[MethodOf[f]] \in Seq(Layers)
        BY <4>1 DEF TypeInv
      <4>3. code' = [code EXCEPT ![f] = body[MethodOf[f]]]
        BY <1>1, <2>1 DEF JITCompilationStarted, FinishCompilation
      <4>4. QED
        BY <4>2, <4>3 DEF TypeInv
    <3>2. TypeOK' /\ Locals'
      BY <1>1, <2>1, <3>1 DEF TypeInv, JITCompilationStarted
    <3>3. CounterExact'
      BY <1>1, <2>1 DEF TypeInv, CounterExact, InProgress, JITCompilationStarted
    <3>4. QED
      BY <3>2, <3>3 DEF TypeInv
  <2>2. CASE ~isFinished
    <3>0. /\ pc' = [pc EXCEPT ![t] = "entered"] /\ function' = [function EXCEPT ![t] = f]
          /\ pc[t] = "idle" /\ UNCHANGED <<code, body, signature, unwritten, naming, methodId, unsigned>>
      BY <1>1, <2>2 DEF Goto, JITCompilationStarted
    <3>1. TypeOK'
      <4>1. /\ pc' \in [Threads -> Counted \cup {"idle", "entered"}]
            /\ function' \in [Threads -> Functions \cup {None}]
        BY <3>0 DEF TypeInv
      <4>2. QED
        BY <1>1, <2>2, <3>0, <4>1 DEF TypeInv, JITCompilationStarted
    <3>2. Locals'
      <4>1. ASSUME NEW u \in Threads PROVE
               /\ pc'[u] = IF u = t THEN "entered" ELSE pc[u]
               /\ function'[u] = IF u = t THEN f ELSE function[u]
        BY <3>0 DEF TypeInv
      <4>2. QED
        BY <3>0, <4>1 DEF TypeInv
    <3>3. CounterExact'
      BY <1>1, <2>2, StayInProgress DEF Counted, Compiling, JITCompilationStarted
    <3>4. QED
      BY <3>1, <3>2, <3>3 DEF TypeInv
  <2>3. QED
    BY <2>1, <2>2
<1>2. ASSUME NEW t \in Threads, BlockShutdown(t)
      PROVE  TypeInv'
  <2>1. CounterExact' /\ shutdownBlockingRequestsCount' \in Nat
    BY <1>2, EnterProgress DEF Counted, Compiling, BlockShutdown
  <2>2. TypeOK' /\ Locals'
    BY <1>2, <2>1 DEF TypeInv, Goto, Counted, Compiling, Lower, BlockShutdown
  <2>3. QED
    BY <2>1, <2>2 DEF TypeInv
<1>3. ASSUME NEW t \in Threads, InstrumentationIsNeeded(t)
      PROVE  TypeInv'
  <2>1. TypeOK' /\ Locals'
    BY <1>3 DEF TypeInv, Goto, Counted, Compiling, InstrumentationIsNeeded
  <2>2. CounterExact'
    BY <1>3, StayInProgress DEF Counted, Compiling, InstrumentationIsNeeded
  <2>3. QED
    BY <2>1, <2>2 DEF TypeInv
<1>4. ASSUME NEW t \in Threads, CompareModule(t)
      PROVE  TypeInv'
  <2>1. TypeOK' /\ Locals'
    BY <1>4 DEF TypeInv, Goto, Counted, Compiling, CompareModule
  <2>2. CounterExact'
    BY <1>4, StayInProgress DEF Counted, Compiling, CompareModule
  <2>3. QED
    BY <2>1, <2>2 DEF TypeInv
<1>5. ASSUME NEW t \in Threads, FindInstrumented(t)
      PROVE  TypeInv'
  <2>1. TypeOK' /\ Locals'
    BY <1>5 DEF TypeInv, Goto, Counted, Compiling, FindInstrumented
  <2>2. CounterExact'
    BY <1>5, StayInProgress DEF Counted, Compiling, FindInstrumented
  <2>3. QED
    BY <2>1, <2>2 DEF TypeInv
<1>6. ASSUME NEW t \in Threads, CollectMethod(t)
      PROVE  TypeInv'
  <2> DEFINE m == Method(t)
  <2>0. m \in Methods
    BY <1>6 DEF TypeInv, CollectMethod
  <2> HIDE DEF m
  <2>1. collectedMethods' \in Seq(Methods) /\ methodId' \in [Threads -> Nat]
    <3>1. collectedMethods' = Append(collectedMethods, m)
      BY <1>6 DEF CollectMethod, m
    <3>2. methodId' = [methodId EXCEPT ![t] = Len(collectedMethods)]
      BY <1>6 DEF CollectMethod
    <3>3. QED
      BY <3>1, <3>2, <2>0 DEF TypeInv
  <2>2. instrumentedMethods' \subseteq Methods
    <3>1. instrumentedMethods' = instrumentedMethods \cup {m}
      BY <1>6 DEF CollectMethod, m
    <3>2. QED
      BY <3>1, <2>0 DEF TypeInv
  <2>3. pc' \in [Threads -> Counted \cup {"idle", "entered"}] /\ Locals'
    BY <1>6 DEF TypeInv, Goto, Counted, Compiling, CollectMethod
  <2>4. TypeOK'
    BY <1>6, <2>1, <2>2, <2>3 DEF TypeInv, CollectMethod
  <2>5. CounterExact'
    BY <1>6, StayInProgress DEF Counted, Compiling, CollectMethod
  <2>6. QED
    BY <2>3, <2>4, <2>5 DEF TypeInv
<1>7. ASSUME NEW t \in Threads, DoInstrumentation(t)
      PROVE  TypeInv'
  <2>0. PICK made \in SUBSET ProbeKinds :
          /\ signature' = [signature EXCEPT ![t] =
               [k \in ProbeKinds |-> IF k \in made THEN Method(t).module ELSE @[k]]]
          /\ unsigned' = IF made = ProbeKinds THEN unsigned ELSE unsigned \cup {methodId[t]}
    BY <1>7 DEF DoInstrumentation, InitTokens, ProbeKinds
  <2>1. TypeOK' /\ Locals'
    <3>1. Method(t) \in Methods /\ methodId[t] \in Nat /\ signature[t] \in Signatures
      BY <1>7 DEF TypeInv, DoInstrumentation
    <3>2. /\ signature' \in [Threads -> Signatures] /\ unsigned' \subseteq Nat
          /\ pc' \in [Threads -> Counted \cup {"idle", "entered"}]
      <4>1. [k \in ProbeKinds |-> IF k \in made THEN Method(t).module ELSE signature[t][k]]
              \in Signatures
        BY <3>1 DEF Signatures
      <4>2. signature' \in [Threads -> Signatures]
        BY <2>0, <4>1 DEF TypeInv
      <4>3. unsigned' \subseteq Nat
        BY <2>0, <3>1 DEF TypeInv
      <4>4. pc' \in [Threads -> Counted \cup {"idle", "entered"}]
        BY <1>7 DEF TypeInv, Goto, Counted, Compiling, DoInstrumentation
      <4>5. QED
        BY <4>2, <4>3, <4>4
    <3>3. TypeOK'
      BY <1>7, <3>2 DEF TypeInv, DoInstrumentation
    <3>4. methodId'[t] \in unsigned' \/ \A k \in ProbeKinds : signature'[t][k] = Method(t).module
      BY <1>7, <2>0, <3>1 DEF TypeInv, DoInstrumentation
    <3>5. \A u \in Threads \ {t} : signature'[u] = signature[u] /\ pc'[u] = pc[u]
      BY <1>7, <2>0 DEF TypeInv, Goto, DoInstrumentation
    <3>6. unsigned \subseteq unsigned'
      BY <2>0
    <3>7. pc[t] = "tokens" /\ UNCHANGED <<function, methodId, unwritten, naming>>
      BY <1>7 DEF DoInstrumentation
    <3>8. Locals'
      BY <3>4, <3>5, <3>6, <3>7 DEF TypeInv
    <3>9. QED
      BY <3>3, <3>8
  <2>2. CounterExact'
    BY <1>7, StayInProgress DEF Counted, Compiling, DoInstrumentation, InitTokens
  <2>3. QED
    BY <2>1, <2>2 DEF TypeInv
<1>8. ASSUME NEW t \in Threads, CompareTokenAgain(t)
      PROVE  TypeInv'
  <2>1. TypeOK' /\ Locals'
    BY <1>8 DEF TypeInv, Goto, Counted, Compiling, CompareTokenAgain
  <2>2. CounterExact'
    BY <1>8, StayInProgress DEF Counted, Compiling, CompareTokenAgain
  <2>3. QED
    BY <2>1, <2>2 DEF TypeInv
<1>9. ASSUME NEW t \in Threads, CompareModuleAgain(t)
      PROVE  TypeInv'
  <2>1. TypeOK' /\ Locals'
    BY <1>9 DEF TypeInv, Goto, Counted, Compiling, CompareModuleAgain, ModuleMatches
  <2>2. CounterExact'
    BY <1>9, StayInProgress DEF Counted, Compiling, CompareModuleAgain, ModuleMatches
  <2>3. QED
    BY <2>1, <2>2 DEF TypeInv
<1>10. ASSUME NEW t \in Threads, ImportBody(t)
      PROVE  TypeInv'
  <2>1. imported' \in [Threads -> Seq(Layers)]
    <3>1. Method(t) \in Methods
      BY <1>10 DEF TypeInv, ImportBody
    <3>2. QED
      BY <1>10, <3>1 DEF TypeInv, ImportBody
  <2>2. pc' \in [Threads -> Counted \cup {"idle", "entered"}] /\ Locals'
    BY <1>10 DEF TypeInv, Goto, Counted, Compiling, ImportBody
  <2>3. TypeOK'
    BY <1>10, <2>1, <2>2 DEF TypeInv, ImportBody
  <2>4. CounterExact'
    BY <1>10, StayInProgress DEF Counted, Compiling, ImportBody
  <2>5. QED
    BY <2>2, <2>3, <2>4 DEF TypeInv
<1>11. ASSUME NEW t \in Threads, ExportBody(t)
      PROVE  TypeInv'
  <2>1. Method(t) \in Methods /\ signature[t] \in Signatures
    BY <1>11 DEF TypeInv, ExportBody
  <2>2. [main |-> asMain[t], id |-> methodId[t], signature |-> signature[t]] \in Layers
    BY <2>1 DEF TypeInv, Layers
  <2>3. body' \in [Methods -> Seq(Layers)]
    BY <1>11, <2>1, <2>2 DEF TypeInv, ExportBody
  <2>4. pc' \in [Threads -> Counted \cup {"idle", "entered"}] /\ Locals'
    BY <1>11 DEF TypeInv, Goto, Counted, Compiling, ExportBody
  <2>5. TypeOK'
    BY <1>11, <2>3, <2>4 DEF TypeInv, ExportBody
  <2>6. CounterExact'
    BY <1>11, StayInProgress DEF Counted, Compiling, ExportBody
  <2>7. QED
    BY <2>4, <2>5, <2>6 DEF TypeInv
<1>12. ASSUME NEW t \in Threads, Refuse(t)
      PROVE  TypeInv'
  <2>0. pc[t] \in {"instrument", "tokens", "import", "export"} /\ Method(t) \in Methods
    BY <1>12 DEF TypeInv, Refuse
  <2>1. TypeOK' /\ Locals'
    <3>1. /\ pc' \in [Threads -> Counted \cup {"idle", "entered"}]
          /\ refused' \subseteq Methods
      BY <1>12, <2>0 DEF TypeInv, Goto, Counted, Compiling, Refuse
    <3>2. TypeOK'
      BY <1>12, <3>1 DEF TypeInv, Refuse
    <3>3. Locals'
      BY <1>12, <2>0 DEF TypeInv, Goto, Refuse
    <3>4. QED
      BY <3>2, <3>3
  <2>2. CounterExact'
    BY <1>12, StayInProgress DEF Counted, Compiling, Refuse
  <2>3. QED
    BY <2>1, <2>2 DEF TypeInv
<1>13. ASSUME NEW t \in Threads, UnblockShutdown(t)
      PROVE  TypeInv'
  <2>1. CounterExact' /\ shutdownBlockingRequestsCount' \in Nat
    BY <1>13, LeaveProgress DEF Counted, Compiling, UnblockShutdown
  <2>2. Method(t) \in Methods /\ function[t] \in Functions
    BY <1>13 DEF TypeInv, UnblockShutdown
  <2>3. code' \in [Functions -> Seq(Layers) \cup {None}]
    BY <1>13, <2>2 DEF TypeInv, UnblockShutdown, FinishCompilation
  <2>4. TypeOK' /\ Locals'
    BY <1>13, <2>1, <2>3 DEF TypeInv, Goto, Counted, Compiling, Lower, UnblockShutdown
  <2>5. QED
    BY <2>1, <2>4 DEF TypeInv
<1>14. ASSUME NEW t \in Threads, NEW m \in Mains, SetEntryMain(t, m)
      PROVE  TypeInv'
  <2>1. TypeOK' /\ Locals'
    BY <1>14 DEF TypeInv, Goto, Counted, Compiling, SetEntryMain
  <2>2. CounterExact'
    BY <1>14 DEF TypeInv, CounterExact, InProgress, SetEntryMain
  <2>3. QED
    BY <2>1, <2>2 DEF TypeInv
<1>15. ASSUME NEW t \in Threads, NEW field \in {"token", "module"}, AssignField(t, field)
      PROVE  TypeInv'
  <2>1. TypeOK' /\ Locals'
    BY <1>15 DEF TypeInv, Goto, Counted, Compiling, AssignField
  <2>2. CounterExact'
    BY <1>15 DEF TypeInv, CounterExact, InProgress, AssignField
  <2>3. QED
    BY <2>1, <2>2 DEF TypeInv
<1>16. ASSUME NEW t \in Threads, GetHistory(t)
      PROVE  TypeInv'
  <2>1. CounterExact' /\ shutdownBlockingRequestsCount' \in Nat
    BY <1>16, EnterProgress DEF Counted, Compiling, GetHistory
  <2>2. TypeOK' /\ Locals'
    BY <1>16, <2>1 DEF TypeInv, Goto, Counted, Compiling, Lower, GetHistory
  <2>3. QED
    BY <2>1, <2>2 DEF TypeInv
<1>17. ASSUME NEW t \in Threads, HistoryServed(t)
      PROVE  TypeInv'
  <2>1. CounterExact' /\ shutdownBlockingRequestsCount' \in Nat
    BY <1>17, LeaveProgress DEF Counted, Compiling, HistoryServed
  <2>2. TypeOK' /\ Locals'
    <3>1. TypeOK'
      BY <1>17, <2>1 DEF TypeInv, Goto, Counted, Compiling, Lower, HistoryServed
    <3>2. Locals'
      BY <1>17 DEF TypeInv, Goto, HistoryServed
    <3>3. QED
      BY <3>1, <3>2
  <2>3. QED
    BY <2>1, <2>2 DEF TypeInv
<1>18. ASSUME Finish
      PROVE  TypeInv'
  <2>1. TypeOK' /\ Locals'
    <3>1. awaited' \subseteq Threads
      BY <1>18 DEF Finish, InProgress
    <3>2. QED
      BY <1>18, <3>1 DEF TypeInv, Finish
  <2>2. CounterExact'
    BY <1>18 DEF TypeInv, CounterExact, InProgress, Finish
  <2>3. QED
    BY <2>1, <2>2 DEF TypeInv
<1>19. ASSUME Shutdown
      PROVE  TypeInv'
  <2>1. TypeOK' /\ Locals'
    BY <1>19 DEF TypeInv, Goto, Counted, Compiling, Shutdown, WaitIsOver, WriteReport, Release, Advance
  <2>2. CounterExact'
    BY <1>19 DEF TypeInv, CounterExact, InProgress, Shutdown, WaitIsOver, WriteReport, Release, Advance
  <2>3. QED
    BY <2>1, <2>2 DEF TypeInv
<1>20. CASE UNCHANGED vars
  BY <1>20 DEF TypeInv, CounterExact, InProgress, vars
<1>21. QED
  BY <1>1, <1>2, <1>3, <1>4, <1>5, <1>6, <1>7, <1>8, <1>9, <1>10, <1>11, <1>12, <1>13, <1>14, <1>15, <1>16, <1>17, <1>18, <1>19, <1>20 DEF Next, Work

LEMMA TypeInit == Init => TypeInv
<1> SUFFICES ASSUME Init PROVE TypeInv
  OBVIOUS
<1>1. TypeOK
  <2>1. mainToken \in Tokens \cup {None} /\ mainModule \in Modules \cup {Null} /\ named \subseteq Mains
    BY InstrumentationAssumption, MethodTypes DEF Init
  <2>2. /\ pc \in [Threads -> Counted \cup {"idle", "entered"}]
        /\ imported \in [Threads -> Seq(Layers)] /\ body \in [Methods -> Seq(Layers)]
        /\ code \in [Functions -> Seq(Layers) \cup {None}]
        /\ collectedMethods \in Seq(Methods)
    BY DEF Init
  <2>3. signature \in [Threads -> Signatures]
    BY DEF Init, Signatures
  <2>4. QED
    BY <2>1, <2>2, <2>3 DEF Init, TypeOK
<1>4. Locals
  BY DEF Init, Locals
<1>2. InProgress = {}
  BY DEF Init, InProgress, Counted, Compiling
<1>3. CounterExact
  BY <1>2, FS_EmptySet DEF Init, CounterExact
<1>5. QED
  BY <1>1, <1>3, <1>4 DEF TypeInv

(* Every variable keeps its type, the counter above all: it is never lowered *)
(* below zero, however compilations, requests and Shutdown interleave.     *)
THEOREM TypeCorrect == Spec => []TypeOK
<1>1. TypeInv => TypeOK
  BY DEF TypeInv
<1>2. QED
  BY TypeInit, TypeStep, <1>1, PTL DEF Spec

-----------------------------------------------------------------------------
(* Shutdown waits only for requests that are still in progress.            *)
AwaitInv == awaited \subseteq InProgress /\ RequestsAwaited

LEMMA AwaitStep ==
  ASSUME TypeInv, AwaitInv, [Next]_vars
  PROVE  AwaitInv'
<1> USE DEF AwaitInv, RequestsAwaited, InProgress, TypeInv, TypeOK, Counted, Compiling,
            stateVars, sharedVars, localVars, codeVars, gateVars
<1>1. ASSUME NEW t \in Threads, NEW f \in Functions, JITCompilationStarted(t, f)
      PROVE  AwaitInv'
  BY <1>1 DEF JITCompilationStarted, Goto
<1>2. ASSUME NEW t \in Threads, Work(t)
      PROVE  AwaitInv'
  <2>1. CASE BlockShutdown(t) \/ InstrumentationIsNeeded(t) \/ CompareModule(t)
    BY <2>1 DEF BlockShutdown, InstrumentationIsNeeded, CompareModule, Goto
  <2>2. CASE FindInstrumented(t) \/ CollectMethod(t) \/ DoInstrumentation(t)
    BY <2>2 DEF FindInstrumented, CollectMethod, DoInstrumentation, Goto
  <2>3. CASE CompareTokenAgain(t) \/ CompareModuleAgain(t) \/ ImportBody(t)
    BY <2>3 DEF CompareTokenAgain, CompareModuleAgain, ImportBody, Goto
  <2>4. CASE ExportBody(t) \/ Refuse(t)
    BY <2>4 DEF ExportBody, Refuse, Goto
  <2>5. CASE UnblockShutdown(t) \/ HistoryServed(t)
    BY <2>5 DEF UnblockShutdown, HistoryServed, Lower, Goto
  <2>6. QED
    BY <1>2, <2>1, <2>2, <2>3, <2>4, <2>5 DEF Work
<1>3. ASSUME NEW t \in Threads, NEW m \in Mains, SetEntryMain(t, m)
      PROVE  AwaitInv'
  BY <1>3 DEF SetEntryMain
<1>4. ASSUME NEW t \in Threads, NEW field \in {"token", "module"}, AssignField(t, field)
      PROVE  AwaitInv'
  BY <1>4 DEF AssignField
<1>5. ASSUME NEW t \in Threads, GetHistory(t)
      PROVE  AwaitInv'
  BY <1>5 DEF GetHistory, Goto
<1>6. ASSUME Finish
      PROVE  AwaitInv'
  BY <1>6 DEF Finish
<1>7. ASSUME WaitIsOver
      PROVE  AwaitInv'
  <2>1. shutdownBlockingRequestsCount = 0
    BY <1>7 DEF WaitIsOver
  <2>2. IsFiniteSet(InProgress)
    BY InstrumentationAssumption, FS_Subset
  <2>3. InProgress = {}
    BY <2>1, <2>2, FS_EmptySet DEF CounterExact
  <2>4. QED
    BY <1>7, <2>3 DEF WaitIsOver, Advance
<1>8. CASE WriteReport \/ Release
  BY <1>8 DEF WriteReport, Release, Advance
<1>9. CASE UNCHANGED vars
  BY <1>9 DEF vars
<1>10. QED
  BY <1>1, <1>2, <1>3, <1>4, <1>5, <1>6, <1>7, <1>8, <1>9 DEF Next, Shutdown

(* RequestsAwaited: Shutdown never goes on while a request that was in     *)
(* progress when it raised the flag still runs.  What may run is a         *)
(* compilation that passed the flag and had not raised the counter.        *)
THEOREM ShutdownAwaitsRequests == Spec => []RequestsAwaited
<1>1. Init => AwaitInv
  BY DEF Init, AwaitInv, RequestsAwaited
<1>2. AwaitInv => RequestsAwaited
  BY DEF AwaitInv
<1>3. QED
  BY TypeInit, TypeStep, <1>1, <1>2, AwaitStep, PTL DEF Spec

-----------------------------------------------------------------------------
(* A method between its insertion and its export is in the table at the    *)
(* place the thread remembers, and what the thread imported already fits.  *)
Placed(t) == /\ methodId[t] < Len(collectedMethods)
             /\ collectedMethods[methodId[t] + 1] = Method(t)

AllFit(probes, m) == \A i \in DOMAIN probes : Fits(probes[i], m)

ProbesInv ==
  /\ \A m \in Methods : AllFit(body[m], m)
  /\ \A t \in Threads :
       /\ pc[t] \in {"tokens", "tokenAgain", "moduleAgain", "import", "export"} => Placed(t)
       /\ pc[t] = "export" => AllFit(imported[t], Method(t))

(* The table only grows: what fits keeps fitting.                          *)
LEMMA FitsKept ==
  ASSUME collectedMethods \in Seq(Methods), NEW p \in Layers, NEW m, NEW n \in Methods,
         collectedMethods' \in {collectedMethods, Append(collectedMethods, n)},
         unsigned \subseteq unsigned', Fits(p, m)
  PROVE  Fits(p, m)'
<1>1. p.id \in Nat
  BY DEF Layers
<1>2. CASE collectedMethods' = collectedMethods
  BY <1>2 DEF Fits
<1>3. CASE collectedMethods' = Append(collectedMethods, n)
  BY <1>1, <1>3 DEF Fits
<1>4. QED
  BY <1>2, <1>3

LEMMA ProbesStep ==
  ASSUME TypeInv, ProbesInv, [Next]_vars
  PROVE  ProbesInv'
<1> USE InstrumentationAssumption
<1> USE DEF stateVars, sharedVars, localVars, codeVars, gateVars
<1>t. /\ pc \in [Threads -> Counted \cup {"idle", "entered"}]
      /\ function \in [Threads -> Functions \cup {None}]
      /\ methodId \in [Threads -> Nat] /\ imported \in [Threads -> Seq(Layers)]
      /\ body \in [Methods -> Seq(Layers)] /\ collectedMethods \in Seq(Methods)
  BY DEF TypeInv, TypeOK
<1>m. ASSUME NEW t \in Threads, pc[t] \notin {"idle", "history"}
      PROVE  Method(t) \in Methods
  BY <1>m DEF TypeInv, Locals, Method
<1>1. ASSUME NEW t \in Threads, NEW f \in Functions, JITCompilationStarted(t, f)
      PROVE  ProbesInv'
  <2>1. \A u \in Threads : pc'[u] \in {"tokens", "tokenAgain", "moduleAgain", "import", "export"}
          => pc'[u] = pc[u] /\ function'[u] = function[u]
    BY <1>1, <1>t DEF JITCompilationStarted, Goto
  <2>2. UNCHANGED <<body, imported, methodId, collectedMethods, unsigned>>
    BY <1>1 DEF JITCompilationStarted
  <2>3. QED
    BY <2>1, <2>2 DEF ProbesInv, AllFit, Fits, Placed, Method
<1>2. ASSUME NEW t \in Threads, CollectMethod(t)
      PROVE  ProbesInv'
  <2>1. /\ collectedMethods' = Append(collectedMethods, Method(t))
        /\ methodId' = [methodId EXCEPT ![t] = Len(collectedMethods)]
        /\ pc' = [pc EXCEPT ![t] = "tokens"] /\ pc[t] = "insert"
        /\ UNCHANGED <<body, imported, function, unsigned>>
    BY <1>2 DEF CollectMethod, Goto
  <2>2. Method(t) \in Methods
    BY <1>m, <2>1
  <2>3. ASSUME NEW p \in Layers, NEW m, Fits(p, m)
        PROVE  Fits(p, m)'
    BY <1>t, <2>1, <2>2, <2>3, FitsKept
  <2>4. ASSUME NEW m \in Methods
        PROVE  AllFit(body[m], m)'
    <3>1. body[m] \in Seq(Layers)
      BY <1>t
    <3>2. \A i \in DOMAIN body[m] : body[m][i] \in Layers
      BY <3>1
    <3>3. \A i \in DOMAIN body[m] : Fits(body[m][i], m)
      BY DEF ProbesInv, AllFit
    <3>4. ASSUME NEW i \in DOMAIN body[m]
          PROVE  Fits(body[m][i], m)'
      <4>1. body'[m][i] = body[m][i]
        BY <2>1
      <4>2. Fits(body[m][i], m)
        BY <3>3
      <4> DEFINE p == body[m][i]
      <4>3. p \in Layers
        BY <3>2
      <4> HIDE DEF p
      <4>4. Fits(p, m) => /\ p.id < Len(collectedMethods')
                         /\ collectedMethods'[p.id + 1] = m
                         /\ \/ p.id \in unsigned'
                            \/ \A k \in ProbeKinds : p.signature[k] = m.module
        BY <2>3, <4>3 DEF Fits
      <4>5. QED
        BY <4>1, <4>2, <4>4 DEF Fits, p
    <3>5. QED
      BY <3>4, <2>1 DEF AllFit
  <2>5. ASSUME NEW u \in Threads, pc'[u] \in {"tokens", "tokenAgain", "moduleAgain", "import", "export"}
        PROVE  Placed(u)'
    <3>1. CASE u = t
      BY <3>1, <1>t, <2>1, <2>2 DEF Placed, Method
    <3>2. CASE u # t
      <4>1. pc[u] = pc'[u] /\ methodId'[u] = methodId[u] /\ methodId[u] \in Nat
        BY <3>2, <1>t, <2>1
      <4>2. Placed(u)
        BY <4>1, <2>5 DEF ProbesInv
      <4>3. QED
        BY <1>t, <4>1, <4>2, <2>1, <2>2 DEF Placed, Method
    <3>3. QED
      BY <3>1, <3>2
  <2>6. ASSUME NEW u \in Threads, pc'[u] = "export"
        PROVE  AllFit(imported[u], Method(u))'
    <3>1. pc[u] = "export"
      BY <1>t, <2>1, <2>6
    <3>2. \A i \in DOMAIN imported[u] : imported[u][i] \in Layers
      BY <1>t
    <3>3. \A i \in DOMAIN imported[u] : Fits(imported[u][i], Method(u))
      BY <3>1 DEF ProbesInv, AllFit
    <3>4. Method(u)' = Method(u)
      BY <2>1 DEF Method
    <3>5. ASSUME NEW i \in DOMAIN imported[u]
          PROVE  Fits(imported[u][i], Method(u))'
      <4> DEFINE p == imported[u][i]
                 m == Method(u)
      <4>1. p \in Layers /\ Fits(p, m)
        BY <3>2, <3>3
      <4>2. imported'[u][i] = p /\ Method(u)' = m
        BY <2>1, <3>4
      <4> HIDE DEF p, m
      <4>3. Fits(p, m) => /\ p.id < Len(collectedMethods')
                         /\ collectedMethods'[p.id + 1] = m
                         /\ \/ p.id \in unsigned'
                            \/ \A k \in ProbeKinds : p.signature[k] = m.module
        BY <2>3, <4>1 DEF Fits
      <4>4. QED
        BY <4>1, <4>2, <4>3 DEF Fits
    <3>6. QED
      BY <3>5, <2>1 DEF AllFit
  <2>7. QED
    BY <2>4, <2>5, <2>6 DEF ProbesInv
<1>3. ASSUME NEW t \in Threads, ImportBody(t)
      PROVE  ProbesInv'
  <2>1. /\ imported' = [imported EXCEPT ![t] = body[Method(t)]]
        /\ pc' = [pc EXCEPT ![t] = "export"] /\ pc[t] = "import"
        /\ UNCHANGED <<body, methodId, function, collectedMethods, unsigned>>
    BY <1>3 DEF ImportBody, Goto
  <2>2. \A u \in Threads : pc'[u] \in {"tokens", "tokenAgain", "moduleAgain", "import", "export"}
          => pc[u] \in {"tokens", "tokenAgain", "moduleAgain", "import", "export"}
    BY <1>t, <2>1
  <2>3. \A u \in Threads : pc'[u] = "export" => u = t \/ pc[u] = "export"
    BY <1>t, <2>1
  <2>4. \A u \in Threads : imported'[u] = IF u = t THEN body[Method(t)] ELSE imported[u]
    BY <1>t, <2>1
  <2>5. AllFit(body[Method(t)], Method(t))
    BY <1>m, <2>1 DEF ProbesInv
  <2>6. \A u \in Threads : pc'[u] = "export" => AllFit(imported'[u], Method(u))
    BY <2>3, <2>4, <2>5 DEF ProbesInv
  <2>7. \A u \in Threads : pc'[u] = "export" => AllFit(imported[u], Method(u))'
    BY <2>1, <2>6 DEF AllFit, Fits, Method
  <2>8. \A u \in Threads : Placed(u) => Placed(u)'
    BY <2>1 DEF Placed, Method
  <2>9. \A m \in Methods : AllFit(body[m], m)'
    BY <2>1 DEF ProbesInv, AllFit, Fits
  <2>10. QED
    BY <2>2, <2>7, <2>8, <2>9 DEF ProbesInv
<1>4. ASSUME NEW t \in Threads, ExportBody(t)
      PROVE  ProbesInv'
  <2> DEFINE new == [main |-> asMain[t], id |-> methodId[t], signature |-> signature[t]]
             m   == Method(t)
  <2>1. /\ body' = [body EXCEPT ![m] = Append(imported[t], new)]
        /\ pc' = [pc EXCEPT ![t] = "leave"] /\ pc[t] = "export"
        /\ UNCHANGED <<imported, methodId, function, collectedMethods, unsigned>>
    BY <1>4 DEF ExportBody, Goto
  <2>2. /\ m \in Methods
        /\ methodId[t] \in unsigned \/ \A k \in ProbeKinds : signature[t][k] = m.module
    BY <1>m, <2>1 DEF TypeInv, Locals
  <2>3. Fits(new, m)
    BY <2>1, <2>2 DEF ProbesInv, Placed, Fits
  <2>4. AllFit(imported[t], m) /\ imported[t] \in Seq(Layers)
    BY <2>1, <1>t DEF ProbesInv
  <2> HIDE DEF new, m
  <2>5. AllFit(Append(imported[t], new), m)
    <3>1. DOMAIN Append(imported[t], new) = 1 .. Len(imported[t]) + 1
      BY <2>4
    <3>2. \A i \in 1 .. Len(imported[t]) + 1 :
             Append(imported[t], new)[i] = IF i = Len(imported[t]) + 1 THEN new ELSE imported[t][i]
      BY <2>4
    <3>3. \A i \in 1 .. Len(imported[t]) : Fits(imported[t][i], m)
      BY <2>4 DEF AllFit
    <3>4. QED
      BY <3>1, <3>2, <3>3, <2>3, <2>4 DEF AllFit
  <2>6. ASSUME NEW n \in Methods
        PROVE  AllFit(body'[n], n)
    <3>1. body'[n] = IF n = m THEN Append(imported[t], new) ELSE body[n]
      BY <1>t, <2>1, <2>2
    <3>2. QED
      BY <3>1, <2>5 DEF ProbesInv
  <2>7. \A u \in Threads : pc'[u] \in {"tokens", "tokenAgain", "moduleAgain", "import", "export"}
          => pc[u] = pc'[u]
    BY <1>t, <2>1
  <2>8. QED
    BY <2>1, <2>6, <2>7 DEF ProbesInv, AllFit, Fits, Placed, Method
<1>5. ASSUME NEW t \in Threads,
             \/ InstrumentationIsNeeded(t) \/ CompareModule(t) \/ FindInstrumented(t)
             \/ DoInstrumentation(t) \/ CompareTokenAgain(t) \/ CompareModuleAgain(t)
             \/ BlockShutdown(t) \/ Refuse(t) \/ UnblockShutdown(t)
             \/ GetHistory(t) \/ HistoryServed(t)
      PROVE  ProbesInv'
  <2>1. /\ UNCHANGED <<body, imported, methodId, function, collectedMethods>>
        /\ unsigned \subseteq unsigned'
    BY <1>5 DEF InstrumentationIsNeeded, CompareModule, FindInstrumented, DoInstrumentation,
      CompareTokenAgain, CompareModuleAgain, BlockShutdown, Refuse, UnblockShutdown,
      GetHistory, HistoryServed, InitTokens
  <2>2. \A u \in Threads : pc'[u] \in {"tokens", "tokenAgain", "moduleAgain", "import", "export"}
          => pc[u] \in {"tokens", "tokenAgain", "moduleAgain", "import", "export"}
             /\ (pc'[u] = "export" => pc[u] = "export")
    BY <1>5, <1>t DEF InstrumentationIsNeeded, CompareModule, FindInstrumented, DoInstrumentation,
      CompareTokenAgain, CompareModuleAgain, BlockShutdown, Refuse, UnblockShutdown,
      GetHistory, HistoryServed, Goto
  <2>3. QED
    BY <2>1, <2>2 DEF ProbesInv, AllFit, Fits, Placed, Method
<1>6. ASSUME NEW t \in Threads, NEW m \in Mains, SetEntryMain(t, m)
      PROVE  ProbesInv'
  BY <1>6 DEF SetEntryMain, ProbesInv, AllFit, Fits, Placed, Method
<1>7. ASSUME NEW t \in Threads, NEW field \in {"token", "module"}, AssignField(t, field)
      PROVE  ProbesInv'
  BY <1>7 DEF AssignField, ProbesInv, AllFit, Fits, Placed, Method
<1>8. CASE Finish \/ Shutdown \/ UNCHANGED vars
  BY <1>8 DEF Finish, Shutdown, WaitIsOver, WriteReport, Release, Advance, vars,
    ProbesInv, AllFit, Fits, Placed, Method
<1>9. QED
  BY <1>1, <1>2, <1>3, <1>4, <1>5, <1>6, <1>7, <1>8 DEF Next, Work

(* ProbesFit: however compilations of different modules interleave and     *)
(* fail, the probes of a method have the id under which the method is in   *)
(* the table, and the signatures of its module unless initTokens failed in *)
(* the compilation that inserted them: then, and only then, doInstru-      *)
(* mentation goes on with those of an earlier method, or none.             *)
THEOREM ProbesCorrect == Spec => []ProbesFit
<1>1. Init => ProbesInv
  BY DEF Init, ProbesInv, AllFit
<1>2. ProbesInv => ProbesFit
  BY DEF ProbesInv, AllFit, ProbesFit
<1>3. QED
  BY TypeInit, TypeStep, <1>1, <1>2, ProbesStep, PTL DEF Spec

-----------------------------------------------------------------------------
(* Compilations of one method exclude one another, a method that is not in *)
(* the set has no probes, and one that is being rewritten has none yet.    *)
Inserted == {"tokens", "tokenAgain", "moduleAgain", "import", "export"}

Serial == \A t, u \in Threads :
            pc[t] \notin {"idle", "history"} /\ pc[u] \notin {"idle", "history"}
              /\ Method(t) = Method(u) => t = u

Unwritten ==
  /\ \A m \in Methods : m \notin instrumentedMethods => body[m] = <<>>
  /\ \A t \in Threads :
       /\ pc[t] = "insert" => Method(t) \notin instrumentedMethods
       /\ pc[t] \in Inserted => /\ Method(t) \in instrumentedMethods
                                /\ body[Method(t)] = <<>>
       /\ pc[t] = "export" => imported[t] = <<>>

OnceInv == Serial /\ Unwritten /\ RewrittenOnce

LEMMA OnceStep ==
  ASSUME ~ParallelInstantiations, TypeInv, OnceInv, [Next]_vars
  PROVE  OnceInv'
<1> USE InstrumentationAssumption
<1> USE DEF stateVars, sharedVars, localVars, codeVars, gateVars
<1>t. /\ pc \in [Threads -> Counted \cup {"idle", "entered"}]
      /\ function \in [Threads -> Functions \cup {None}]
      /\ imported \in [Threads -> Seq(Layers)]
      /\ body \in [Methods -> Seq(Layers)]
  BY DEF TypeInv, TypeOK
<1>m. ASSUME NEW t \in Threads, pc[t] \notin {"idle", "history"}
      PROVE  Method(t) \in Methods
  BY <1>m DEF TypeInv, Locals, Method
<1>1. ASSUME NEW t \in Threads, NEW f \in Functions, JITCompilationStarted(t, f)
      PROVE  OnceInv'
  <2>1. UNCHANGED <<body, imported, instrumentedMethods>> /\ MayCompile(t, f)
    BY <1>1 DEF JITCompilationStarted
  <2>2. CASE isFinished
    <3>1. UNCHANGED <<pc, function>>
      BY <1>1, <2>2 DEF JITCompilationStarted
    <3>2. QED
      BY <2>1, <3>1 DEF OnceInv, Serial, Unwritten, RewrittenOnce, Method
  <2>3. CASE ~isFinished
    <3>1. /\ pc' = [pc EXCEPT ![t] = "entered"] /\ function' = [function EXCEPT ![t] = f]
      BY <1>1, <2>3 DEF JITCompilationStarted, Goto
    <3>2. ASSUME NEW u \in Threads
          PROVE  /\ pc'[u] = IF u = t THEN "entered" ELSE pc[u]
                 /\ Method(u)' = IF u = t THEN MethodOf[f] ELSE Method(u)
      BY <1>t, <3>1 DEF Method
    <3>3. \A u \in Threads : pc[u] \notin {"idle", "history"} => Method(u) # MethodOf[f]
      BY <2>1 DEF MayCompile
    <3>4. Serial'
      BY <3>2, <3>3 DEF OnceInv, Serial
    <3>5. Unwritten'
      BY <2>1, <3>1, <3>2 DEF OnceInv, Unwritten, Inserted
    <3>6. QED
      BY <2>1, <3>4, <3>5 DEF OnceInv, RewrittenOnce
  <2>4. QED
    BY <2>2, <2>3
<1>2. ASSUME NEW t \in Threads, FindInstrumented(t)
      PROVE  OnceInv'
  <2>1. /\ pc' = [pc EXCEPT ![t] = IF WasInstrumented(t) THEN "leave" ELSE "insert"]
        /\ pc[t] = "find" /\ UNCHANGED <<body, imported, instrumentedMethods, function>>
    BY <1>2 DEF FindInstrumented, Goto
  <2>2. ASSUME NEW u \in Threads
        PROVE  /\ pc'[u] = IF u # t THEN pc[u]
                           ELSE IF WasInstrumented(t) THEN "leave" ELSE "insert"
               /\ Method(u)' = Method(u)
    BY <1>t, <2>1 DEF Method
  <2>3. Serial'
    BY <2>1, <2>2 DEF OnceInv, Serial
  <2>4. Unwritten'
    BY <2>1, <2>2 DEF OnceInv, Unwritten, Inserted, WasInstrumented
  <2>5. QED
    BY <2>1, <2>3, <2>4 DEF OnceInv, RewrittenOnce
<1>3. ASSUME NEW t \in Threads, CollectMethod(t)
      PROVE  OnceInv'
  <2>1. /\ pc' = [pc EXCEPT ![t] = "tokens"] /\ pc[t] = "insert"
        /\ instrumentedMethods' = instrumentedMethods \cup {Method(t)}
        /\ UNCHANGED <<body, imported, function>>
    BY <1>3 DEF CollectMethod, Goto
  <2>2. ASSUME NEW u \in Threads
        PROVE  /\ pc'[u] = IF u = t THEN "tokens" ELSE pc[u]
               /\ Method(u)' = Method(u)
    BY <1>t, <2>1 DEF Method
  <2>3. Serial'
    BY <2>1, <2>2 DEF OnceInv, Serial
  <2>4. body[Method(t)] = <<>> /\ Method(t) \in Methods
    BY <2>1, <1>m DEF OnceInv, Unwritten
  <2>5. \A u \in Threads : pc[u] = "insert" /\ u # t => Method(u) # Method(t)
    BY <2>1 DEF OnceInv, Serial
  <2>6. Unwritten'
    BY <2>1, <2>2, <2>4, <2>5 DEF OnceInv, Unwritten, Inserted
  <2>7. QED
    BY <2>1, <2>3, <2>6 DEF OnceInv, RewrittenOnce
<1>4. ASSUME NEW t \in Threads, ImportBody(t)
      PROVE  OnceInv'
  <2>1. /\ imported' = [imported EXCEPT ![t] = body[Method(t)]]
        /\ pc' = [pc EXCEPT ![t] = "export"] /\ pc[t] = "import"
        /\ UNCHANGED <<body, function, instrumentedMethods>>
    BY <1>4 DEF ImportBody, Goto
  <2>2. ASSUME NEW u \in Threads
        PROVE  /\ pc'[u] = IF u = t THEN "export" ELSE pc[u]
               /\ Method(u)' = Method(u)
               /\ imported'[u] = IF u = t THEN body[Method(t)] ELSE imported[u]
    BY <1>t, <2>1 DEF Method
  <2>3. Serial'
    BY <2>1, <2>2 DEF OnceInv, Serial
  <2>4. Unwritten'
    BY <2>1, <2>2 DEF OnceInv, Unwritten, Inserted
  <2>5. QED
    BY <2>1, <2>3, <2>4 DEF OnceInv, RewrittenOnce
<1>5. ASSUME NEW t \in Threads, ExportBody(t)
      PROVE  OnceInv'
  <2> DEFINE new == [main |-> asMain[t], id |-> methodId[t], signature |-> signature[t]]
             m   == Method(t)
  <2>1. /\ body' = [body EXCEPT ![m] = Append(imported[t], new)]
        /\ pc' = [pc EXCEPT ![t] = "leave"] /\ pc[t] = "export"
        /\ UNCHANGED <<imported, function, instrumentedMethods>>
    BY <1>5 DEF ExportBody, Goto
  <2>2. m \in Methods /\ m \in instrumentedMethods /\ imported[t] = <<>>
    BY <1>m, <2>1 DEF OnceInv, Unwritten, Inserted
  <2>3. ASSUME NEW u \in Threads
        PROVE  /\ pc'[u] = IF u = t THEN "leave" ELSE pc[u]
               /\ Method(u)' = Method(u)
    BY <1>t, <2>1 DEF Method
  <2>4. \A u \in Threads : pc[u] \in Inserted /\ u # t => Method(u) # m
    BY <2>1 DEF OnceInv, Serial, Inserted
  <2>5. Serial'
    BY <2>1, <2>3 DEF OnceInv, Serial
  <2> HIDE DEF new, m
  <2>6. ASSUME NEW n \in Methods
        PROVE  body'[n] = IF n = m THEN <<new>> ELSE body[n]
    BY <1>t, <2>1, <2>2
  <2>7. RewrittenOnce'
    <3>1. ASSUME NEW n \in Methods
          PROVE  Len(body'[n]) <= 1
      <4>1. CASE n = m
        <5>1. body'[n] = <<new>>
          BY <2>6, <4>1
        <5>2. QED
          BY <5>1
      <4>2. CASE n # m
        BY <2>6, <4>2 DEF OnceInv, RewrittenOnce
      <4>3. QED
        BY <4>1, <4>2
    <3>2. QED
      BY <3>1 DEF RewrittenOnce
  <2>8. Unwritten'
    <3>1. \A n \in Methods : n \notin instrumentedMethods => body'[n] = <<>>
      BY <2>2, <2>6 DEF OnceInv, Unwritten
    <3>2. ASSUME NEW u \in Threads, pc'[u] \in Inserted
          PROVE  Method(u)' \in instrumentedMethods /\ body'[Method(u)'] = <<>>
      <4>1. u # t /\ pc[u] \in Inserted /\ Method(u)' = Method(u)
        BY <3>2, <2>3 DEF Inserted
      <4>2. Method(u) # m /\ Method(u) \in Methods
        BY <4>1, <2>4, <1>m DEF Inserted
      <4>3. QED
        BY <4>1, <4>2, <2>6 DEF OnceInv, Unwritten
    <3>3. \A u \in Threads : pc'[u] = "insert" => Method(u)' \notin instrumentedMethods
      BY <2>3 DEF OnceInv, Unwritten
    <3>4. \A u \in Threads : pc'[u] = "export" => imported[u] = <<>>
      BY <2>3 DEF OnceInv, Unwritten
    <3>5. QED
      BY <2>1, <3>1, <3>2, <3>3, <3>4 DEF Unwritten
  <2>9. QED
    BY <2>5, <2>7, <2>8 DEF OnceInv
<1>6. ASSUME NEW t \in Threads,
             \/ InstrumentationIsNeeded(t) \/ CompareModule(t)
             \/ DoInstrumentation(t) \/ CompareTokenAgain(t) \/ CompareModuleAgain(t)
             \/ BlockShutdown(t) \/ Refuse(t) \/ UnblockShutdown(t)
             \/ GetHistory(t) \/ HistoryServed(t)
      PROVE  OnceInv'
  <2>1. UNCHANGED <<body, imported, function, instrumentedMethods>>
    BY <1>6 DEF InstrumentationIsNeeded, CompareModule, DoInstrumentation,
      CompareTokenAgain, CompareModuleAgain, BlockShutdown, Refuse, UnblockShutdown,
      GetHistory, HistoryServed
  <2>2. \A u \in Threads :
          /\ pc'[u] \notin {"idle", "history"} => pc[u] \notin {"idle", "history"}
          /\ pc'[u] \in Inserted => pc[u] \in Inserted
          /\ pc'[u] \in {"insert", "export"} => pc'[u] = pc[u]
    BY <1>6, <1>t DEF InstrumentationIsNeeded, CompareModule, DoInstrumentation,
      CompareTokenAgain, CompareModuleAgain, BlockShutdown, Refuse, UnblockShutdown,
      GetHistory, HistoryServed, Goto, Inserted
  <2>3. QED
    BY <2>1, <2>2 DEF OnceInv, Serial, Unwritten, RewrittenOnce, Method
<1>7. ASSUME NEW t \in Threads, NEW m \in Mains, SetEntryMain(t, m)
      PROVE  OnceInv'
  BY <1>7 DEF SetEntryMain, OnceInv, Serial, Unwritten, RewrittenOnce, Method
<1>8. ASSUME NEW t \in Threads, NEW field \in {"token", "module"}, AssignField(t, field)
      PROVE  OnceInv'
  BY <1>8 DEF AssignField, OnceInv, Serial, Unwritten, RewrittenOnce, Method
<1>9. CASE Finish \/ Shutdown \/ UNCHANGED vars
  BY <1>9 DEF Finish, Shutdown, WaitIsOver, WriteReport, Release, Advance, vars,
    OnceInv, Serial, Unwritten, RewrittenOnce, Method
<1>10. QED
  BY <1>1, <1>2, <1>3, <1>4, <1>5, <1>6, <1>7, <1>8, <1>9 DEF Next, Work

(* RewrittenOnce, where the runtime does not compile two instantiations of *)
(* one method at once: the set alone keeps a method that is compiled again *)
(* from a second set of probes, whichever thread compiles it.              *)
THEOREM RewrittenOnceCorrect == ~ParallelInstantiations => (Spec => []RewrittenOnce)
<1> SUFFICES ASSUME ~ParallelInstantiations PROVE Spec => []RewrittenOnce
  OBVIOUS
<1>1. Init => OnceInv
  BY DEF Init, OnceInv, Serial, Unwritten, RewrittenOnce, Inserted
<1>2. OnceInv => RewrittenOnce
  BY DEF OnceInv
<1>3. TypeInv /\ OnceInv /\ [Next]_vars => OnceInv'
  BY OnceStep
<1>4. QED
  BY TypeInit, TypeStep, <1>1, <1>2, <1>3, PTL DEF Spec
-----------------------------------------------------------------------------
(* The name in mainMethodInfo is put together from named methods, and so   *)
(* is that of a method that passed both comparisons of IsMain.             *)
NamedToken(token)   == \E a \in named : a.token = token
NamedModule(module) == \E b \in named : b.module = module
NamedInParts(m) == /\ NamedToken(m.token) /\ NamedModule(m.module)
                   /\ \E f \in Functions : MethodOf[f] = m

RewrittenAreNamed == \A m \in Methods : body[m] # <<>> => NamedInParts(m)

NameInv ==
  /\ mainToken = None \/ NamedToken(mainToken)
  /\ mainModule = Null \/ NamedModule(mainModule)
  /\ \A t \in Threads :
       /\ unwritten[t] # {} => naming[t] \in named
       /\ pc[t] \in Inserted \cup {"module", "find", "insert"} => NamedToken(Method(t).token)
       /\ pc[t] \in Inserted \cup {"find", "insert"} => NamedModule(Method(t).module)
  /\ RewrittenAreNamed

(* No compiled method has the token of one entry method and the module of  *)
(* another without being one of the two.                                   *)
NamesUnmixed ==
  \A f \in Functions, a, b \in Mains :
    MethodOf[f].token = a.token /\ MethodOf[f].module = b.module => MethodOf[f] \in {a, b}

(* Names only grow, and a comparison that succeeds is with a named part.   *)
LEMMA NameStep ==
  ASSUME TypeInv, NameInv, [Next]_vars
  PROVE  NameInv'
<1> USE InstrumentationAssumption
<1> USE DEF stateVars, sharedVars, localVars, codeVars, gateVars
<1>t. /\ pc \in [Threads -> Counted \cup {"idle", "entered"}]
      /\ function \in [Threads -> Functions \cup {None}]
      /\ body \in [Methods -> Seq(Layers)]
      /\ naming \in [Threads -> Mains \cup {None}]
      /\ unwritten \in [Threads -> SUBSET {"token", "module"}]
  BY DEF TypeInv, TypeOK
<1>m. ASSUME NEW t \in Threads, pc[t] \notin {"idle", "history"}
      PROVE  /\ Method(t) \in Methods /\ Method(t).token # None /\ Method(t).module # Null
             /\ \E f \in Functions : MethodOf[f] = Method(t)
  <2>1. function[t] \in Functions
    BY <1>m DEF TypeInv, Locals
  <2>2. Method(t) \in Methods
    BY <2>1 DEF Method
  <2>3. Method(t).token \in Tokens /\ Method(t).module \in Modules
    BY <2>2, MethodTypes
  <2>4. QED
    BY <2>1, <2>2, <2>3 DEF Method
<1>1. ASSUME NEW t \in Threads, NEW f \in Functions, JITCompilationStarted(t, f)
      PROVE  NameInv'
  <2>1. UNCHANGED <<mainToken, mainModule, named, unwritten, naming, body>>
    BY <1>1 DEF JITCompilationStarted
  <2>2. ASSUME NEW u \in Threads, pc'[u] \in Inserted \cup {"module", "find", "insert"}
        PROVE  pc'[u] = pc[u] /\ Method(u)' = Method(u)
    BY <1>1, <1>t, <2>2 DEF JITCompilationStarted, Goto, Method, Inserted
  <2>3. QED
    BY <2>1, <2>2 DEF NameInv, NamedToken, NamedModule, NamedInParts, RewrittenAreNamed
<1>2. ASSUME NEW t \in Threads, InstrumentationIsNeeded(t)
      PROVE  NameInv'
  <2>1. /\ pc[t] = "instrument" /\ pc' = [pc EXCEPT ![t] = IF TokenMatches(t) THEN "module" ELSE "leave"]
        /\ UNCHANGED <<mainToken, mainModule, named, unwritten, naming, body, function>>
    BY <1>2 DEF InstrumentationIsNeeded, Goto
  <2>2. TokenMatches(t) => NamedToken(Method(t).token)
    BY <1>m, <2>1 DEF TokenMatches, NameInv
  <2>3. ASSUME NEW u \in Threads, pc'[u] \in Inserted \cup {"module", "find", "insert"}
        PROVE  pc'[u] = pc[u] \/ (u = t /\ pc'[u] = "module" /\ NamedToken(Method(u).token))
    <3>1. CASE u = t
      <4>1. pc'[t] = IF TokenMatches(t) THEN "module" ELSE "leave"
        BY <1>t, <2>1
      <4>2. pc'[t] = "module" /\ TokenMatches(t)
        BY <2>3, <3>1, <4>1 DEF Inserted
      <4>3. QED
        BY <2>2, <3>1, <4>2
    <3>2. CASE u # t
      <4>1. pc'[u] = pc[u]
        BY <1>t, <2>1, <3>2
      <4>2. QED
        BY <4>1
    <3>3. QED
      BY <3>1, <3>2
  <2>4. \A u \in Threads : Method(u)' = Method(u)
    BY <2>1 DEF Method
  <2>5. QED
    <3>1. RewrittenAreNamed'
      BY <2>1 DEF NameInv, NamedToken, NamedModule, NamedInParts, RewrittenAreNamed
    <3>2. ASSUME NEW u \in Threads, pc'[u] \in Inserted \cup {"module", "find", "insert"}
          PROVE  /\ NamedToken(Method(u).token)'
                 /\ pc'[u] # "module" => NamedModule(Method(u).module)'
      <4>1. NamedToken(Method(u).token) /\ (pc'[u] # "module" => NamedModule(Method(u).module))
        BY <2>3, <3>2 DEF NameInv, Inserted
      <4>2. QED
        BY <4>1, <2>1, <2>4 DEF NamedToken, NamedModule
    <3>3. /\ mainToken' = None \/ NamedToken(mainToken)'
          /\ mainModule' = Null \/ NamedModule(mainModule)'
          /\ \A u \in Threads : unwritten'[u] # {} => naming'[u] \in named'
      BY <2>1 DEF NameInv, NamedToken, NamedModule
    <3>4. QED
      BY <3>1, <3>2, <3>3 DEF NameInv, Inserted
<1>3. ASSUME NEW t \in Threads, CompareModule(t)
      PROVE  NameInv'
  <2>1. /\ pc[t] = "module" /\ pc' = [pc EXCEPT ![t] = IF ModuleMatches(t) THEN "find" ELSE "leave"]
        /\ UNCHANGED <<mainToken, mainModule, named, unwritten, naming, body, function>>
    BY <1>3 DEF CompareModule, Goto
  <2>2. ModuleMatches(t) => NamedModule(Method(t).module)
    BY <1>m, <2>1 DEF ModuleMatches, NameInv
  <2>3. ASSUME NEW u \in Threads, pc'[u] \in Inserted \cup {"module", "find", "insert"}
        PROVE  pc'[u] = pc[u] \/ (u = t /\ pc[u] = "module" /\ NamedModule(Method(u).module))
    <3>1. CASE u = t
      <4>1. pc'[t] = IF ModuleMatches(t) THEN "find" ELSE "leave"
        BY <1>t, <2>1
      <4>2. ModuleMatches(t)
        BY <2>3, <3>1, <4>1 DEF Inserted
      <4>3. QED
        BY <2>1, <2>2, <3>1, <4>2
    <3>2. CASE u # t
      <4>1. pc'[u] = pc[u]
        BY <1>t, <2>1, <3>2
      <4>2. QED
        BY <4>1
    <3>3. QED
      BY <3>1, <3>2
  <2>4. \A u \in Threads : Method(u)' = Method(u)
    BY <2>1 DEF Method
  <2>5. QED
    <3>1. RewrittenAreNamed'
      BY <2>1 DEF NameInv, NamedToken, NamedModule, NamedInParts, RewrittenAreNamed
    <3>2. ASSUME NEW u \in Threads, pc'[u] \in Inserted \cup {"module", "find", "insert"}
          PROVE  /\ NamedToken(Method(u).token)'
                 /\ pc'[u] # "module" => NamedModule(Method(u).module)'
      <4>1. NamedToken(Method(u).token) /\ (pc'[u] # "module" => NamedModule(Method(u).module))
        BY <2>3, <3>2 DEF NameInv, Inserted
      <4>2. QED
        BY <4>1, <2>1, <2>4 DEF NamedToken, NamedModule
    <3>3. /\ mainToken' = None \/ NamedToken(mainToken)'
          /\ mainModule' = Null \/ NamedModule(mainModule)'
          /\ \A u \in Threads : unwritten'[u] # {} => naming'[u] \in named'
      BY <2>1 DEF NameInv, NamedToken, NamedModule
    <3>4. QED
      BY <3>1, <3>2, <3>3 DEF NameInv, Inserted
<1>4. ASSUME NEW t \in Threads, ExportBody(t)
      PROVE  NameInv'
  <2> DEFINE m == Method(t)
  <2>1. /\ pc[t] = "export" /\ pc' = [pc EXCEPT ![t] = "leave"]
        /\ \E b : body' = [body EXCEPT ![m] = b]
        /\ UNCHANGED <<mainToken, mainModule, named, unwritten, naming, function>>
    BY <1>4 DEF ExportBody, Goto
  <2>2. NamedInParts(m)
    BY <1>m, <2>1 DEF NameInv, NamedInParts, Inserted
  <2>3. ASSUME NEW u \in Threads, pc'[u] \in Inserted \cup {"module", "find", "insert"}
        PROVE  pc'[u] = pc[u]
    BY <1>t, <2>1, <2>3 DEF Inserted
  <2>4. \A u \in Threads : Method(u)' = Method(u)
    BY <2>1 DEF Method
  <2> HIDE DEF m
  <2>5. ASSUME NEW n \in Methods, body'[n] # <<>>
        PROVE  NamedInParts(n)
    BY <1>t, <2>1, <2>2, <2>5 DEF NameInv, RewrittenAreNamed
  <2>6. RewrittenAreNamed'
    BY <2>1, <2>5 DEF RewrittenAreNamed, NamedInParts, NamedToken, NamedModule
  <2>7. QED
    BY <2>1, <2>3, <2>4, <2>6 DEF NameInv, NamedToken, NamedModule
<1>5. ASSUME NEW t \in Threads,
             \/ FindInstrumented(t) \/ CollectMethod(t)
             \/ DoInstrumentation(t) \/ CompareTokenAgain(t) \/ CompareModuleAgain(t)
             \/ BlockShutdown(t) \/ ImportBody(t) \/ Refuse(t) \/ UnblockShutdown(t)
             \/ GetHistory(t) \/ HistoryServed(t)
      PROVE  NameInv'
  <2>1. UNCHANGED <<mainToken, mainModule, named, unwritten, naming, body, function>>
    BY <1>5 DEF FindInstrumented, CollectMethod, DoInstrumentation, CompareTokenAgain,
      CompareModuleAgain, BlockShutdown, ImportBody, Refuse, UnblockShutdown, GetHistory,
      HistoryServed
  <2>2. \A u \in Threads : pc'[u] \in Inserted \cup {"module", "find", "insert"} =>
          pc'[u] = pc[u] \/ pc[u] \in Inserted \cup {"find", "insert"}
    BY <1>5, <1>t DEF FindInstrumented, CollectMethod, DoInstrumentation, CompareTokenAgain,
      CompareModuleAgain, BlockShutdown, ImportBody, Refuse, UnblockShutdown, GetHistory,
      HistoryServed, Goto, Inserted
  <2>3. \A u \in Threads : Method(u)' = Method(u)
    BY <2>1 DEF Method
  <2>4. QED
    BY <2>1, <2>2, <2>3 DEF NameInv, NamedToken, NamedModule, NamedInParts, RewrittenAreNamed, Inserted
<1>6. ASSUME NEW t \in Threads, NEW m \in Mains, SetEntryMain(t, m)
      PROVE  NameInv'
  <2>1. /\ named' = named \cup {m} /\ naming' = [naming EXCEPT ![t] = m]
        /\ unwritten' = [unwritten EXCEPT ![t] = {"token", "module"}]
        /\ UNCHANGED <<mainToken, mainModule, pc, function, body>>
    BY <1>6 DEF SetEntryMain
  <2>2. \A x : (NamedToken(x) => \E a \in named' : a.token = x)
               /\ (NamedModule(x) => \E b \in named' : b.module = x)
    BY <2>1 DEF NamedToken, NamedModule
  <2>3. ASSUME NEW u \in Threads
        PROVE  /\ unwritten'[u] # {} => naming'[u] \in named'
               /\ Method(u)' = Method(u)
    BY <1>t, <2>1 DEF NameInv, Method
  <2>4. RewrittenAreNamed'
    BY <2>1, <2>2 DEF NameInv, RewrittenAreNamed, NamedInParts, NamedToken, NamedModule
  <2>5. QED
    BY <2>1, <2>2, <2>3, <2>4 DEF NameInv, NamedToken, NamedModule
<1>7. ASSUME NEW t \in Threads, NEW field \in {"token", "module"}, AssignField(t, field)
      PROVE  NameInv'
  <2>1. /\ unwritten' = [unwritten EXCEPT ![t] = @ \ {field}] /\ field \in unwritten[t]
        /\ mainToken' \in {mainToken, naming[t].token}
        /\ mainModule' \in {mainModule, naming[t].module}
        /\ UNCHANGED <<naming, named, pc, function, body>>
    BY <1>7 DEF AssignField
  <2>2. naming[t] \in named
    BY <2>1 DEF NameInv
  <2>3. /\ mainToken' = None \/ NamedToken(mainToken')
        /\ mainModule' = Null \/ NamedModule(mainModule')
    BY <2>1, <2>2 DEF NameInv, NamedToken, NamedModule
  <2>4. \A u \in Threads : /\ unwritten'[u] # {} => unwritten[u] # {}
                           /\ Method(u)' = Method(u)
    BY <1>t, <2>1 DEF Method
  <2>5. RewrittenAreNamed'
    BY <2>1 DEF NameInv, RewrittenAreNamed, NamedInParts, NamedToken, NamedModule
  <2>6. QED
    BY <2>1, <2>3, <2>4, <2>5 DEF NameInv, NamedToken, NamedModule
<1>8. CASE Finish \/ Shutdown \/ UNCHANGED vars
  <2>1. UNCHANGED <<mainToken, mainModule, named, unwritten, naming, body, function, pc>>
    BY <1>8 DEF Finish, Shutdown, WaitIsOver, WriteReport, Release, Advance, vars
  <2>2. QED
    BY <2>1 DEF NameInv, NamedToken, NamedModule, NamedInParts, RewrittenAreNamed, Method
<1>9. QED
  BY <1>1, <1>2, <1>3, <1>4, <1>5, <1>6, <1>7, <1>8 DEF Next, Work

(* Initially nothing is named, or the main of a passive run. *)
LEMMA NameInit == Init => NameInv
BY DEF Init, NameInv, NamedToken, NamedModule, RewrittenAreNamed, Inserted

(* Without any condition: a method that gets probes has the token of a     *)
(* named method, the module of a named one, and was compiled.              *)
THEOREM RewrittenAreNamedCorrect == Spec => []RewrittenAreNamed
<1>1. NameInv => RewrittenAreNamed
  BY DEF NameInv
<1>2. QED
  BY TypeInit, TypeStep, NameInit, NameStep, <1>1, PTL DEF Spec

(* OnlyMainsRewritten, where the parts of two entry methods' names do not  *)
(* make the name of a third method that is compiled: what IsMain compares  *)
(* while setEntryMain assigns is then the name of one of the two.          *)
THEOREM OnlyMainsCorrect == NamesUnmixed => (Spec => []OnlyMainsRewritten)
<1> SUFFICES ASSUME NamesUnmixed PROVE Spec => []OnlyMainsRewritten
  OBVIOUS
<1>1. TypeInv /\ NameInv => OnlyMainsRewritten
  <2> SUFFICES ASSUME TypeInv, NameInv, NEW m \in Methods, body[m] # <<>>
               PROVE  m \in named
    BY DEF OnlyMainsRewritten
  <2>1. NamedInParts(m)
    BY DEF NameInv, RewrittenAreNamed
  <2>2. PICK a \in named : a.token = m.token
    BY <2>1 DEF NamedInParts, NamedToken
  <2>3. PICK b \in named : b.module = m.module
    BY <2>1 DEF NamedInParts, NamedModule
  <2>4. a \in Mains /\ b \in Mains
    BY DEF TypeInv, TypeOK
  <2>5. PICK f \in Functions : MethodOf[f] = m
    BY <2>1 DEF NamedInParts
  <2>6. m \in {a, b}
    BY <2>2, <2>3, <2>4, <2>5 DEF NamesUnmixed
  <2>7. QED
    BY <2>6
<1>2. QED
  BY TypeInit, TypeStep, NameInit, NameStep, <1>1, PTL DEF Spec

-----------------------------------------------------------------------------
(* One client, and no other thread compiles entry methods.                 *)
OneBatch == /\ \E c \in Threads : Clients = {c}
            /\ \A f \in Common : MethodOf[f] \notin Mains

HasProbes(layers) == layers # <<>> /\ layers[1].main
Settled(m) == m \in refused \/ HasProbes(body[m])

(* What a client has written is what it names.                             *)
Written ==
  \A t \in Threads :
    /\ naming[t] # None => t \in Clients /\ ~isPassiveRun
    /\ unwritten[t] # {} => naming[t] # None /\ pc[t] = "idle"
    /\ naming[t] # None /\ "token" \notin unwritten[t]  => mainToken = naming[t].token
    /\ naming[t] # None /\ "module" \notin unwritten[t] => mainModule = naming[t].module

(* An entry method is compiled by the client that named it, both tests of  *)
(* IsMain find it, and it leaves with its probes.                          *)
CompilingMain(t) == pc[t] \notin {"idle", "history"} /\ Method(t) \in Mains

CompilesAsMain(t) ==
  CompilingMain(t) =>
    /\ Method(t) = naming[t]
    /\ pc[t] \in {"import", "export"} => asMain[t]
    /\ pc[t] = "export" => imported[t] = <<>> \/ HasProbes(imported[t])
    /\ pc[t] = "leave" => Settled(Method(t))

MainBodies == \A m \in Mains : body[m] = <<>> \/ HasProbes(body[m])

(* What the search finds has its probes, or is about to get them.          *)
MainsSettled ==
  \A m \in Mains \cap instrumentedMethods :
    Settled(m) \/ \E t \in Threads : pc[t] \in Inserted /\ Method(t) = m

MainCode ==
  ~isFinished => \A f \in Compiled : MethodOf[f] \in Mains =>
                    MethodOf[f] \in refused \/ HasProbes(code[f])

EntryCompiled ==
  (\A t \in Threads : CompilesAsMain(t)) /\ MainBodies /\ MainsSettled /\ MainCode

EntryInv == Written /\ (~isPassiveRun => EntryCompiled)

(* Only the one client writes, and it writes what it names. *)
LEMMA WrittenStep ==
  ASSUME OneBatch, TypeInv, Written, [Next]_vars
  PROVE  Written'
<1> USE InstrumentationAssumption
<1> USE DEF stateVars, sharedVars, localVars, codeVars, gateVars
<1>t. /\ pc \in [Threads -> Counted \cup {"idle", "entered"}]
      /\ naming \in [Threads -> Mains \cup {None}]
      /\ unwritten \in [Threads -> SUBSET {"token", "module"}]
      /\ \A t, u \in Clients : t = u
      /\ \A m \in Mains : m # None
  BY DEF TypeInv, TypeOK, OneBatch
<1>1. ASSUME NEW t \in Threads, NEW m \in Mains, SetEntryMain(t, m)
      PROVE  Written'
  <2>1. /\ t \in Clients /\ ~isPassiveRun /\ pc[t] = "idle"
        /\ naming' = [naming EXCEPT ![t] = m]
        /\ unwritten' = [unwritten EXCEPT ![t] = {"token", "module"}]
        /\ UNCHANGED <<isPassiveRun, mainToken, mainModule, pc>>
    BY <1>1 DEF SetEntryMain
  <2>2. ASSUME NEW u \in Threads, u # t
        PROVE  naming'[u] = naming[u] /\ unwritten'[u] = unwritten[u]
    BY <1>t, <2>1, <2>2
  <2>3. naming'[t] = m /\ unwritten'[t] = {"token", "module"} /\ m # None
    BY <1>t, <2>1
  <2>4. QED
    BY <2>1, <2>2, <2>3 DEF Written
<1>2. ASSUME NEW t \in Threads, NEW field \in {"token", "module"}, AssignField(t, field)
      PROVE  Written'
  <2>1. /\ field \in unwritten[t]
        /\ unwritten' = [unwritten EXCEPT ![t] = @ \ {field}]
        /\ mainToken' = IF field = "token" THEN naming[t].token ELSE mainToken
        /\ mainModule' = IF field = "module" THEN naming[t].module ELSE mainModule
        /\ UNCHANGED <<isPassiveRun, naming, pc>>
    BY <1>2 DEF AssignField
  <2>2. naming[t] # None /\ pc[t] = "idle" /\ t \in Clients
    BY <2>1 DEF Written
  <2>3. \A u \in Threads : u # t => naming[u] = None
    BY <1>t, <2>2 DEF Written
  <2>4. \A u \in Threads : unwritten'[u] = IF u = t THEN unwritten[t] \ {field} ELSE unwritten[u]
    BY <1>t, <2>1
  <2>5. ASSUME NEW u \in Threads
        PROVE  /\ naming[u] # None => u \in Clients /\ ~isPassiveRun
               /\ unwritten'[u] # {} => naming[u] # None /\ pc[u] = "idle"
    BY <2>2, <2>4 DEF Written
  <2>6. "token" \notin unwritten'[t] => mainToken' = naming[t].token
    BY <2>1, <2>2, <2>4 DEF Written
  <2>7. "module" \notin unwritten'[t] => mainModule' = naming[t].module
    BY <2>1, <2>2, <2>4 DEF Written
  <2>8. QED
    BY <2>1, <2>3, <2>5, <2>6, <2>7 DEF Written
<1>3. ASSUME UNCHANGED <<isPassiveRun, naming, unwritten, mainToken, mainModule>>,
             \A u \in Threads : pc'[u] # "idle" => pc[u] # "idle" \/ unwritten[u] = {}
      PROVE  Written'
  BY <1>3 DEF Written
<1>4. ASSUME NEW t \in Threads, NEW f \in Functions, JITCompilationStarted(t, f)
      PROVE  Written'
  <2>1. \A u \in Threads : pc'[u] # "idle" => pc[u] # "idle" \/ unwritten[u] = {}
    BY <1>t, <1>4 DEF JITCompilationStarted, Goto
  <2>2. UNCHANGED <<isPassiveRun, naming, unwritten, mainToken, mainModule>>
    BY <1>4 DEF JITCompilationStarted
  <2>3. QED
    BY <1>3, <2>1, <2>2
<1>5. ASSUME NEW t \in Threads, GetHistory(t)
      PROVE  Written'
  <2>1. \A u \in Threads : pc'[u] # "idle" => pc[u] # "idle" \/ unwritten[u] = {}
    BY <1>t, <1>5 DEF GetHistory, Goto
  <2>2. UNCHANGED <<isPassiveRun, naming, unwritten, mainToken, mainModule>>
    BY <1>5 DEF GetHistory
  <2>3. QED
    BY <1>3, <2>1, <2>2
<1>6. ASSUME NEW t \in Threads, Work(t)
      PROVE  Written'
  <2>1. UNCHANGED <<isPassiveRun, naming, unwritten, mainToken, mainModule>>
    BY <1>6 DEF Work, InstrumentationIsNeeded, CompareModule, FindInstrumented, CollectMethod,
      DoInstrumentation, CompareTokenAgain, CompareModuleAgain, BlockShutdown, ImportBody,
      ExportBody, Refuse, UnblockShutdown, HistoryServed
  <2>2. pc[t] # "idle" /\ \E place : pc' = [pc EXCEPT ![t] = place]
    BY <1>6 DEF Work, InstrumentationIsNeeded, CompareModule, FindInstrumented, CollectMethod,
      DoInstrumentation, CompareTokenAgain, CompareModuleAgain, BlockShutdown, ImportBody,
      ExportBody, Refuse, UnblockShutdown, HistoryServed, Goto
  <2>3. \A u \in Threads : pc'[u] # "idle" => pc[u] # "idle"
    BY <1>t, <2>2
  <2>4. QED
    BY <1>3, <2>1, <2>3
<1>7. CASE Finish \/ Shutdown \/ UNCHANGED vars
  <2>1. UNCHANGED <<isPassiveRun, naming, unwritten, mainToken, mainModule, pc>>
    BY <1>7 DEF Finish, Shutdown, WaitIsOver, WriteReport, Release, Advance, vars
  <2>2. QED
    BY <1>3, <2>1
<1>8. QED
  BY <1>1, <1>2, <1>4, <1>5, <1>6, <1>7 DEF Next

(* While a client compiles its entry method, IsMain finds the method.      *)
LEMMA MainIsFound ==
  ASSUME TypeInv, Written, NEW t \in Threads, CompilingMain(t), Method(t) = naming[t]
  PROVE  TokenMatches(t) /\ ModuleMatches(t)
<1>1. naming[t] # None /\ unwritten[t] = {}
  BY InstrumentationAssumption DEF Written, CompilingMain
<1>2. mainToken = naming[t].token /\ mainModule = naming[t].module
  BY <1>1 DEF Written
<1>3. naming[t].module \in Modules
  BY InstrumentationAssumption, MethodTypes DEF CompilingMain
<1>4. QED
  BY <1>2, <1>3, InstrumentationAssumption DEF TokenMatches, ModuleMatches

(* Every step of a compilation keeps the method on its way to its probes. *)
LEMMA EntryStep ==
  ASSUME OneBatch, TypeInv, Written, EntryCompiled, ~isPassiveRun, [Next]_vars
  PROVE  EntryCompiled'
<1> USE InstrumentationAssumption
<1> USE DEF stateVars, sharedVars, localVars, codeVars, gateVars
<1>t. /\ pc \in [Threads -> Counted \cup {"idle", "entered"}]
      /\ function \in [Threads -> Functions \cup {None}]
      /\ asMain \in [Threads -> BOOLEAN]
      /\ imported \in [Threads -> Seq(Layers)]
      /\ naming \in [Threads -> Mains \cup {None}]
      /\ body \in [Methods -> Seq(Layers)]
      /\ code \in [Functions -> Seq(Layers) \cup {None}]
      /\ Mains \subseteq Methods
      /\ \A f \in Common : MethodOf[f] \notin Mains
  BY DEF TypeInv, TypeOK, OneBatch
<1>m. ASSUME NEW t \in Threads, pc[t] \notin {"idle", "history"}
      PROVE  function[t] \in Functions /\ Method(t) \in Methods
  BY <1>m DEF TypeInv, Locals, Method
(* Only the client compiles entry methods. *)
<1>c. ASSUME NEW t \in Threads, NEW u \in Threads, CompilingMain(t), CompilingMain(u)
      PROVE  t = u
  <2>1. naming[t] = Method(t) /\ naming[u] = Method(u)
    BY <1>c DEF EntryCompiled, CompilesAsMain
  <2>2. naming[t] # None /\ naming[u] # None
    BY <1>c, <2>1 DEF CompilingMain
  <2>3. t \in Clients /\ u \in Clients
    BY <2>2 DEF Written
  <2>4. QED
    BY <2>3 DEF OneBatch
(* A step of a compilation that leaves bodies, sets and code alone. *)
<1>k. ASSUME NEW t \in Threads, NEW place \in Inserted \cup {"instrument", "module", "find", "insert", "leave"},
             pc[t] \in Inserted => place \in Inserted,
             pc' = [pc EXCEPT ![t] = place],
             UNCHANGED <<body, refused, instrumentedMethods, code, isFinished, function, naming>>,
             \A u \in Threads : u # t => asMain'[u] = asMain[u] /\ imported'[u] = imported[u],
             CompilesAsMain(t)'
      PROVE  EntryCompiled'
  <2>1. \A u \in Threads : Method(u)' = Method(u)
    BY <1>k DEF Method
  <2>2. ASSUME NEW u \in Threads, u # t
        PROVE  CompilesAsMain(u)'
    <3>1. pc'[u] = pc[u] /\ asMain'[u] = asMain[u] /\ imported'[u] = imported[u]
      BY <1>t, <1>k, <2>2
    <3>2. CompilesAsMain(u)
      BY DEF EntryCompiled
    <3>3. QED
      BY <1>k, <2>1, <3>1, <3>2 DEF CompilesAsMain, CompilingMain, Settled, HasProbes
  <2>3. \A u \in Threads : pc[u] \in Inserted => pc'[u] \in Inserted
    BY <1>t, <1>k
  <2>4. MainsSettled'
    BY <1>k, <2>1, <2>3 DEF EntryCompiled, MainsSettled, Settled, HasProbes
  <2>5. MainBodies' /\ MainCode'
    BY <1>k DEF EntryCompiled, MainBodies, MainCode, Compiled, HasProbes
  <2>6. QED
    BY <1>k, <2>2, <2>4, <2>5 DEF EntryCompiled
(* A step that only moves a thread in or out of the profiler. *)
<1>l. ASSUME NEW t \in Threads, NEW place \in {"idle", "history"}, pc[t] \in {"idle", "history"},
             pc' = [pc EXCEPT ![t] = place],
             UNCHANGED <<body, refused, instrumentedMethods, code, isFinished, function, naming,
                         asMain, imported>>
      PROVE  EntryCompiled'
  <2>1. \A u \in Threads : Method(u)' = Method(u)
    BY <1>l DEF Method
  <2>2. \A u \in Threads : pc'[u] = pc[u] \/ (pc[u] \in {"idle", "history"} /\ pc'[u] \in {"idle", "history"})
    BY <1>t, <1>l
  <2>3. \A u \in Threads : CompilesAsMain(u)'
    BY <1>l, <2>1, <2>2 DEF EntryCompiled, CompilesAsMain, CompilingMain, Settled, HasProbes
  <2>4. MainsSettled'
    BY <1>l, <2>1, <2>2 DEF EntryCompiled, MainsSettled, Settled, HasProbes, Inserted
  <2>5. MainBodies' /\ MainCode'
    BY <1>l DEF EntryCompiled, MainBodies, MainCode, Compiled, HasProbes
  <2>6. QED
    BY <2>3, <2>4, <2>5 DEF EntryCompiled
<1>1. ASSUME NEW t \in Threads, NEW f \in Functions, JITCompilationStarted(t, f)
      PROVE  EntryCompiled'
  <2>1. /\ pc[t] = "idle" /\ MayCompile(t, f)
        /\ UNCHANGED <<body, refused, instrumentedMethods, isFinished, naming, asMain, imported>>
    BY <1>1 DEF JITCompilationStarted
  <2>2. MainBodies'
    BY <2>1 DEF EntryCompiled, MainBodies, HasProbes
  <2>3. CASE isFinished
    <3>1. UNCHANGED <<pc, function>>
      BY <1>1, <2>3 DEF JITCompilationStarted
    <3>2. (\A u \in Threads : CompilesAsMain(u)') /\ MainsSettled'
      BY <2>1, <3>1 DEF EntryCompiled, CompilesAsMain, CompilingMain, MainsSettled, Settled,
        HasProbes, Method
    <3>3. MainCode'
      BY <2>1, <2>3 DEF MainCode
    <3>4. QED
      BY <2>2, <3>2, <3>3 DEF EntryCompiled
  <2>4. CASE ~isFinished
    <3>1. /\ pc' = [pc EXCEPT ![t] = "entered"] /\ function' = [function EXCEPT ![t] = f]
          /\ code' = code
      BY <1>1, <2>4 DEF JITCompilationStarted, Goto
    <3>2. pc'[t] = "entered" /\ Method(t)' = MethodOf[f]
      BY <1>t, <3>1 DEF Method
    <3>3. \A u \in Threads : u # t => pc'[u] = pc[u] /\ Method(u)' = Method(u)
      BY <1>t, <3>1 DEF Method
    <3>4. MethodOf[f] \in Mains => MethodOf[f] = naming[t]
      BY <1>t, <2>1 DEF MayCompile
    <3>5. CompilesAsMain(t)'
      BY <2>1, <3>2, <3>4 DEF CompilesAsMain, CompilingMain
    <3>6. \A u \in Threads : u # t => CompilesAsMain(u)'
      BY <2>1, <3>3 DEF EntryCompiled, CompilesAsMain, CompilingMain, Settled, HasProbes
    <3>7. MainsSettled'
      <4>1. \A u \in Threads : pc[u] \in Inserted => pc'[u] \in Inserted /\ Method(u)' = Method(u)
        BY <2>1, <3>3 DEF Inserted
      <4>2. QED
        BY <2>1, <4>1 DEF EntryCompiled, MainsSettled, Settled, HasProbes
    <3>8. MainCode'
      BY <2>1, <3>1 DEF EntryCompiled, MainCode, Compiled, HasProbes
    <3>9. QED
      BY <2>2, <3>5, <3>6, <3>7, <3>8 DEF EntryCompiled
  <2>5. QED
    BY <2>3, <2>4
<1>2. ASSUME NEW t \in Threads, InstrumentationIsNeeded(t) \/ CompareModule(t)
      PROVE  EntryCompiled'
  <2>1. /\ pc[t] \in {"instrument", "module"}
        /\ \E place \in {"module", "find", "leave"} :
             /\ pc' = [pc EXCEPT ![t] = place]
             /\ place = "leave" => ~TokenMatches(t) \/ ~ModuleMatches(t)
        /\ UNCHANGED <<body, refused, instrumentedMethods, code, isFinished, function, naming,
                       asMain, imported>>
    BY <1>2 DEF InstrumentationIsNeeded, CompareModule, Goto
  <2>2. PICK place \in {"module", "find", "leave"} :
             /\ pc' = [pc EXCEPT ![t] = place]
             /\ place = "leave" => ~TokenMatches(t) \/ ~ModuleMatches(t)
    BY <2>1
  <2>3. CompilingMain(t) => Method(t) = naming[t] /\ place # "leave"
    <3>1. CompilingMain(t) => Method(t) = naming[t]
      BY DEF EntryCompiled, CompilesAsMain
    <3>2. QED
      BY <3>1, <2>2, MainIsFound
  <2>4. pc'[t] = place /\ Method(t)' = Method(t)
    BY <1>t, <2>1, <2>2 DEF Method
  <2>5. CompilesAsMain(t)'
    BY <2>1, <2>3, <2>4 DEF CompilesAsMain, CompilingMain
  <2>6. QED
    BY <1>k, <2>1, <2>2, <2>5 DEF Inserted
<1>3. ASSUME NEW t \in Threads, FindInstrumented(t)
      PROVE  EntryCompiled'
  <2>1. /\ pc[t] = "find"
        /\ UNCHANGED <<body, refused, instrumentedMethods, code, isFinished, function, naming,
                       asMain, imported>>
    BY <1>3 DEF FindInstrumented
  <2>2. PICK place \in {"insert", "leave"} :
             /\ pc' = [pc EXCEPT ![t] = place]
             /\ place = "leave" => Method(t) \in instrumentedMethods
    BY <1>3 DEF FindInstrumented, Goto, WasInstrumented
  <2>3. CompilingMain(t) /\ place = "leave" => Settled(Method(t))
    <3>1. SUFFICES ASSUME CompilingMain(t), Method(t) \in instrumentedMethods
                   PROVE  Settled(Method(t))
      BY <2>2
    <3>2. ASSUME NEW u \in Threads, pc[u] \in Inserted, Method(u) = Method(t)
          PROVE  FALSE
      <4>1. CompilingMain(u)
        BY <3>1, <3>2 DEF CompilingMain, Inserted
      <4>2. u = t
        BY <1>c, <3>1, <4>1
      <4>3. QED
        BY <2>1, <3>2, <4>2 DEF Inserted
    <3>3. QED
      BY <3>1, <3>2 DEF EntryCompiled, MainsSettled, CompilingMain
  <2>4. pc'[t] = place /\ Method(t)' = Method(t)
    BY <1>t, <2>1, <2>2 DEF Method
  <2>5. CompilesAsMain(t)'
    <3>1. CompilesAsMain(t)
      BY DEF EntryCompiled
    <3>2. Settled(Method(t)) => Settled(Method(t))'
      BY <2>1, <2>4 DEF Settled, HasProbes
    <3>3. QED
      BY <2>1, <2>3, <2>4, <3>1, <3>2 DEF CompilesAsMain, CompilingMain
  <2>6. QED
    BY <1>k, <2>1, <2>2, <2>5 DEF Inserted
<1>4. ASSUME NEW t \in Threads, CollectMethod(t)
      PROVE  EntryCompiled'
  <2>1. /\ pc[t] = "insert" /\ pc' = [pc EXCEPT ![t] = "tokens"]
        /\ instrumentedMethods' = instrumentedMethods \cup {Method(t)}
        /\ UNCHANGED <<body, refused, code, isFinished, function, naming, asMain, imported>>
    BY <1>4 DEF CollectMethod, Goto
  <2>2. \A u \in Threads : Method(u)' = Method(u)
    BY <2>1 DEF Method
  <2>3. \A u \in Threads : pc'[u] = IF u = t THEN "tokens" ELSE pc[u]
    BY <1>t, <2>1
  <2>4. \A u \in Threads : CompilesAsMain(u)'
    BY <2>1, <2>2, <2>3 DEF EntryCompiled, CompilesAsMain, CompilingMain, Settled, HasProbes
  <2>5. MainsSettled'
    <3>1. ASSUME NEW m \in Mains \cap instrumentedMethods'
          PROVE  Settled(m) \/ \E u \in Threads : pc'[u] \in Inserted /\ Method(u) = m
      <4>1. CASE m = Method(t)
        BY <2>3, <4>1 DEF Inserted
      <4>2. CASE m # Method(t)
        <5>1. Settled(m) \/ \E u \in Threads : pc[u] \in Inserted /\ Method(u) = m
          BY <2>1, <4>2 DEF EntryCompiled, MainsSettled
        <5>2. \A u \in Threads : pc[u] \in Inserted => pc'[u] \in Inserted
          BY <2>3 DEF Inserted
        <5>3. QED
          BY <5>1, <5>2
      <4>3. QED
        BY <4>1, <4>2
    <3>2. QED
      BY <2>1, <2>2, <3>1 DEF MainsSettled, Settled, HasProbes
  <2>6. MainBodies' /\ MainCode'
    BY <2>1 DEF EntryCompiled, MainBodies, MainCode, Compiled, HasProbes
  <2>7. QED
    BY <2>4, <2>5, <2>6 DEF EntryCompiled
<1>5. ASSUME NEW t \in Threads, DoInstrumentation(t) \/ CompareTokenAgain(t)
      PROVE  EntryCompiled'
  <2>1. /\ pc[t] \in {"tokens", "tokenAgain"}
        /\ UNCHANGED <<body, refused, instrumentedMethods, code, isFinished, function, naming, imported>>
        /\ asMain' = asMain \/ asMain' = [asMain EXCEPT ![t] = FALSE]
    BY <1>5 DEF DoInstrumentation, CompareTokenAgain
  <2>2. PICK place \in {"tokenAgain", "moduleAgain", "import"} :
             /\ pc' = [pc EXCEPT ![t] = place]
             /\ place = "import" => ~TokenMatches(t)
    BY <1>5 DEF DoInstrumentation, CompareTokenAgain, Goto
  <2>3. CompilingMain(t) => Method(t) = naming[t] /\ place # "import"
    <3>1. CompilingMain(t) => Method(t) = naming[t]
      BY DEF EntryCompiled, CompilesAsMain
    <3>2. QED
      BY <3>1, <2>2, MainIsFound
  <2>4. pc'[t] = place /\ Method(t)' = Method(t)
    BY <1>t, <2>1, <2>2 DEF Method
  <2>5. CompilesAsMain(t)'
    BY <2>1, <2>3, <2>4 DEF CompilesAsMain, CompilingMain
  <2>6. \A u \in Threads : u # t => asMain'[u] = asMain[u] /\ imported'[u] = imported[u]
    BY <1>t, <2>1
  <2>7. QED
    BY <1>k, <2>1, <2>2, <2>5, <2>6 DEF Inserted
<1>6. ASSUME NEW t \in Threads, CompareModuleAgain(t)
      PROVE  EntryCompiled'
  <2>1. /\ pc[t] = "moduleAgain" /\ pc' = [pc EXCEPT ![t] = "import"]
        /\ asMain' = [asMain EXCEPT ![t] = ModuleMatches(t)]
        /\ UNCHANGED <<body, refused, instrumentedMethods, code, isFinished, function, naming, imported>>
    BY <1>6 DEF CompareModuleAgain, Goto
  <2>2. CompilingMain(t) => Method(t) = naming[t] /\ ModuleMatches(t)
    BY MainIsFound DEF EntryCompiled, CompilesAsMain
  <2>3. pc'[t] = "import" /\ Method(t)' = Method(t) /\ (ModuleMatches(t) => asMain'[t])
    BY <1>t, <2>1 DEF Method
  <2>4. CompilesAsMain(t)'
    BY <2>1, <2>2, <2>3 DEF CompilesAsMain, CompilingMain
  <2>5. \A u \in Threads : u # t => asMain'[u] = asMain[u] /\ imported'[u] = imported[u]
    BY <1>t, <2>1
  <2>6. QED
    BY <1>k, <2>1, <2>4, <2>5 DEF Inserted
<1>7. ASSUME NEW t \in Threads, ImportBody(t)
      PROVE  EntryCompiled'
  <2>1. /\ pc[t] = "import" /\ pc' = [pc EXCEPT ![t] = "export"]
        /\ imported' = [imported EXCEPT ![t] = body[Method(t)]]
        /\ UNCHANGED <<body, refused, instrumentedMethods, code, isFinished, function, naming, asMain>>
    BY <1>7 DEF ImportBody, Goto
  <2>2. /\ pc'[t] = "export" /\ Method(t)' = Method(t) /\ imported'[t] = body[Method(t)]
    BY <1>t, <2>1 DEF Method
  <2>3. CompilingMain(t) => body[Method(t)] = <<>> \/ HasProbes(body[Method(t)])
    BY DEF EntryCompiled, MainBodies, CompilingMain
  <2>4. CompilesAsMain(t)
    BY DEF EntryCompiled
  <2>5. CompilesAsMain(t)'
    BY <2>1, <2>2, <2>3, <2>4 DEF CompilesAsMain, CompilingMain, HasProbes
  <2>6. \A u \in Threads : u # t => asMain'[u] = asMain[u] /\ imported'[u] = imported[u]
    BY <1>t, <2>1
  <2>7. QED
    BY <1>k, <2>1, <2>5, <2>6 DEF Inserted
<1>8. ASSUME NEW t \in Threads, ExportBody(t)
      PROVE  EntryCompiled'
  <2> DEFINE m   == Method(t)
             new == [main |-> asMain[t], id |-> methodId[t], signature |-> signature[t]]
             b   == Append(imported[t], new)
  <2>1. /\ pc[t] = "export" /\ pc' = [pc EXCEPT ![t] = "leave"]
        /\ body' = [body EXCEPT ![m] = b]
        /\ UNCHANGED <<refused, instrumentedMethods, code, isFinished, function, naming, asMain, imported>>
    BY <1>8 DEF ExportBody, Goto
  <2>2. m \in Mains => HasProbes(b)
    <3>1. SUFFICES ASSUME m \in Mains
                   PROVE  HasProbes(b)
      OBVIOUS
    <3>2. asMain[t] /\ (imported[t] = <<>> \/ HasProbes(imported[t]))
      BY <2>1, <3>1 DEF EntryCompiled, CompilesAsMain, CompilingMain
    <3>3. new.main = TRUE
      BY <1>t, <3>2
    <3>4. imported[t] \in Seq(Layers)
      BY <1>t
    <3> HIDE DEF new
    <3>5. Len(b) = Len(imported[t]) + 1 /\ b[1] = IF Len(imported[t]) = 0 THEN new ELSE imported[t][1]
      BY <3>4
    <3>6. imported[t] = <<>> <=> Len(imported[t]) = 0
      BY <3>4
    <3>7. Len(imported[t]) \in Nat
      BY <3>4
    <3> HIDE DEF b
    <3>8. b # <<>>
      BY <3>5, <3>7
    <3>9. QED
      BY <3>2, <3>3, <3>5, <3>6, <3>8 DEF HasProbes
  <2>3. \A u \in Threads : pc'[u] = IF u = t THEN "leave" ELSE pc[u]
    BY <1>t, <2>1
  <2>4. \A u \in Threads : Method(u)' = Method(u)
    BY <2>1 DEF Method
  <2>5. m \in Methods
    BY <1>m, <2>1
  <2> HIDE DEF m, b
  <2>6. \A n \in Mains : body'[n] = IF n = m THEN b ELSE body[n]
    BY <1>t, <2>1, <2>5
  <2>7. \A n \in Mains : (Settled(n) => Settled(n)') /\ (n = m => Settled(n)')
    BY <2>1, <2>2, <2>6 DEF Settled, HasProbes
  <2>8. MainBodies'
    BY <2>2, <2>6 DEF EntryCompiled, MainBodies, HasProbes
  <2>9. MainsSettled'
    <3>1. ASSUME NEW n \in Mains \cap instrumentedMethods, ~Settled(n)'
          PROVE  \E u \in Threads : pc'[u] \in Inserted /\ Method(u)' = n
      <4>1. n # m /\ ~Settled(n)
        BY <2>7, <3>1
      <4>2. PICK u \in Threads : pc[u] \in Inserted /\ Method(u) = n
        BY <4>1 DEF EntryCompiled, MainsSettled
      <4>3. u # t
        BY <4>1, <4>2 DEF m
      <4>4. QED
        BY <2>3, <2>4, <4>2, <4>3
    <3>2. QED
      BY <2>1, <3>1 DEF MainsSettled
  <2>10. ASSUME NEW u \in Threads
         PROVE  CompilesAsMain(u)'
    <3>1. CompilesAsMain(u)
      BY DEF EntryCompiled
    <3>2. CompilingMain(u)' => CompilingMain(u)
      BY <2>1, <2>3, <2>4 DEF CompilingMain
    <3>3. CASE u = t
      BY <2>1, <2>3, <2>4, <2>7, <3>1, <3>2, <3>3 DEF CompilesAsMain, CompilingMain, m
    <3>4. CASE u # t
      <4>1. pc'[u] = pc[u]
        BY <2>3, <3>4
      <4>2. CompilingMain(u) /\ Settled(Method(u)) => Settled(Method(u))'
        BY <2>4, <2>7 DEF CompilingMain, Settled, HasProbes
      <4>3. QED
        BY <2>1, <2>4, <3>1, <3>2, <4>1, <4>2 DEF CompilesAsMain, HasProbes
    <3>5. QED
      BY <3>3, <3>4
  <2>11. MainCode'
    BY <2>1 DEF EntryCompiled, MainCode, Compiled, HasProbes
  <2>12. QED
    BY <2>8, <2>9, <2>10, <2>11 DEF EntryCompiled
<1>9. ASSUME NEW t \in Threads, Refuse(t)
      PROVE  EntryCompiled'
  <2>1. /\ pc[t] \in {"instrument", "tokens", "import", "export"}
        /\ pc' = [pc EXCEPT ![t] = "leave"]
        /\ refused' = refused \cup ({Method(t)} \cap Mains)
        /\ UNCHANGED <<body, instrumentedMethods, code, isFinished, function, naming, asMain, imported>>
    BY <1>9 DEF Refuse, Goto
  <2>2. \A u \in Threads : Method(u)' = Method(u)
    BY <2>1 DEF Method
  <2>3. \A u \in Threads : pc'[u] = IF u = t THEN "leave" ELSE pc[u]
    BY <1>t, <2>1
  <2>4. \A n \in Mains : (Settled(n) => Settled(n)') /\ (n = Method(t) => Settled(n)')
    BY <2>1 DEF Settled, HasProbes
  <2>5. ASSUME NEW u \in Threads
        PROVE  CompilesAsMain(u)'
    <3>1. CompilesAsMain(u)
      BY DEF EntryCompiled
    <3>2. CompilingMain(u)' => CompilingMain(u)
      BY <2>1, <2>2, <2>3 DEF CompilingMain
    <3>3. CompilingMain(u) /\ (u = t \/ Settled(Method(u))) => Settled(Method(u))'
      BY <2>2, <2>4 DEF CompilingMain, Settled, HasProbes
    <3>4. CASE u = t
      BY <2>1, <2>2, <2>3, <3>1, <3>2, <3>3, <3>4 DEF CompilesAsMain
    <3>5. CASE u # t
      BY <2>1, <2>2, <2>3, <3>1, <3>2, <3>3, <3>5 DEF CompilesAsMain, HasProbes
    <3>6. QED
      BY <3>4, <3>5
  <2>6. MainsSettled'
    <3>1. ASSUME NEW n \in Mains \cap instrumentedMethods, ~Settled(n)'
          PROVE  \E u \in Threads : pc'[u] \in Inserted /\ Method(u)' = n
      <4>1. n # Method(t) /\ ~Settled(n)
        BY <2>4, <3>1
      <4>2. PICK u \in Threads : pc[u] \in Inserted /\ Method(u) = n
        BY <4>1 DEF EntryCompiled, MainsSettled
      <4>3. QED
        BY <2>2, <2>3, <4>1, <4>2
    <3>2. QED
      BY <2>1, <3>1 DEF MainsSettled
  <2>7. MainBodies' /\ MainCode'
    BY <2>1 DEF EntryCompiled, MainBodies, MainCode, Compiled, HasProbes
  <2>8. QED
    BY <2>5, <2>6, <2>7 DEF EntryCompiled
<1>10. ASSUME NEW t \in Threads, UnblockShutdown(t)
       PROVE  EntryCompiled'
  <2> DEFINE f == function[t]
  <2>1. /\ pc[t] = "leave" /\ pc' = [pc EXCEPT ![t] = "idle"]
        /\ code' = [code EXCEPT ![f] = body[MethodOf[f]]]
        /\ UNCHANGED <<body, refused, instrumentedMethods, isFinished, function, naming, asMain, imported>>
    BY <1>10 DEF UnblockShutdown, Goto, FinishCompilation
  <2>2. \A u \in Threads : Method(u)' = Method(u)
    BY <2>1 DEF Method
  <2>3. \A u \in Threads : pc'[u] = IF u = t THEN "idle" ELSE pc[u]
    BY <1>t, <2>1
  <2>4. \A u \in Threads : CompilesAsMain(u)'
    BY <2>1, <2>2, <2>3 DEF EntryCompiled, CompilesAsMain, CompilingMain, Settled, HasProbes
  <2>5. MainsSettled'
    <3>1. \A u \in Threads : pc[u] \in Inserted => pc'[u] \in Inserted
      BY <2>1, <2>3 DEF Inserted
    <3>2. QED
      BY <2>1, <2>2, <3>1 DEF EntryCompiled, MainsSettled, Settled, HasProbes
  <2>6. MainBodies'
    BY <2>1 DEF EntryCompiled, MainBodies, HasProbes
  <2>7. f \in Functions
    BY <1>m, <2>1
  <2>8. MethodOf[f] \in Mains => Settled(MethodOf[f])
    <3>1. MethodOf[f] \in Mains => CompilingMain(t)
      BY <2>1 DEF CompilingMain, Method
    <3>2. QED
      BY <2>1, <3>1 DEF EntryCompiled, CompilesAsMain, Method
  <2> HIDE DEF f
  <2>9. \A g \in Functions : code'[g] = IF g = f THEN body[MethodOf[f]] ELSE code[g]
    BY <1>t, <2>1, <2>7
  <2>10. MainCode'
    <3>1. ASSUME ~isFinished, NEW g \in Functions, code'[g] # None, MethodOf[g] \in Mains
          PROVE  MethodOf[g] \in refused \/ HasProbes(code'[g])
      <4>1. CASE g = f
        BY <2>8, <2>9, <3>1, <4>1 DEF Settled
      <4>2. CASE g # f
        BY <2>9, <3>1, <4>2 DEF EntryCompiled, MainCode, Compiled
      <4>3. QED
        BY <4>1, <4>2
    <3>2. QED
      BY <2>1, <3>1 DEF MainCode, Compiled, HasProbes
  <2>11. QED
    BY <2>4, <2>5, <2>6, <2>10 DEF EntryCompiled
<1>11. ASSUME NEW t \in Threads, BlockShutdown(t)
       PROVE  EntryCompiled'
  <2>1. /\ pc[t] = "entered" /\ pc' = [pc EXCEPT ![t] = "instrument"]
        /\ UNCHANGED <<body, refused, instrumentedMethods, code, isFinished, function, naming, asMain, imported>>
    BY <1>11 DEF BlockShutdown, Goto
  <2>2. pc'[t] = "instrument" /\ Method(t)' = Method(t)
    BY <1>t, <2>1 DEF Method
  <2>3. CompilesAsMain(t)
    BY DEF EntryCompiled
  <2>4. CompilesAsMain(t)'
    BY <2>1, <2>2, <2>3 DEF CompilesAsMain, CompilingMain
  <2>5. QED
    BY <1>k, <2>1, <2>4 DEF Inserted
<1>12. ASSUME NEW t \in Threads, GetHistory(t) \/ HistoryServed(t)
       PROVE  EntryCompiled'
  <2>1. PICK place \in {"idle", "history"} : pc[t] \in {"idle", "history"} /\ pc' = [pc EXCEPT ![t] = place]
    BY <1>12 DEF GetHistory, HistoryServed, Goto
  <2>2. UNCHANGED <<body, refused, instrumentedMethods, code, isFinished, function, naming, asMain, imported>>
    BY <1>12 DEF GetHistory, HistoryServed
  <2>3. QED
    BY <1>l, <2>1, <2>2
<1>13. ASSUME NEW t \in Threads, NEW m \in Mains, SetEntryMain(t, m)
       PROVE  EntryCompiled'
  <2>1. /\ pc[t] = "idle" /\ naming' = [naming EXCEPT ![t] = m]
        /\ UNCHANGED <<pc, body, refused, instrumentedMethods, code, isFinished, function, asMain, imported>>
    BY <1>13 DEF SetEntryMain
  <2>2. \A u \in Threads : u # t => naming'[u] = naming[u]
    BY <1>t, <2>1
  <2>3. \A u \in Threads : CompilesAsMain(u)'
    BY <2>1, <2>2 DEF EntryCompiled, CompilesAsMain, CompilingMain, Settled, HasProbes, Method
  <2>4. MainsSettled' /\ MainBodies' /\ MainCode'
    BY <2>1 DEF EntryCompiled, MainsSettled, Settled, MainBodies, MainCode, Compiled, HasProbes, Method
  <2>5. QED
    BY <2>3, <2>4 DEF EntryCompiled
<1>14. ASSUME UNCHANGED <<pc, naming, body, refused, instrumentedMethods, code, function, asMain, imported>>,
              isFinished => isFinished'
       PROVE  EntryCompiled'
  <2>1. (\A u \in Threads : CompilesAsMain(u)') /\ MainsSettled' /\ MainBodies'
    BY <1>14 DEF EntryCompiled, CompilesAsMain, CompilingMain, MainsSettled, Settled, MainBodies,
      HasProbes, Method
  <2>2. MainCode'
    BY <1>14 DEF EntryCompiled, MainCode, Compiled, HasProbes
  <2>3. QED
    BY <2>1, <2>2 DEF EntryCompiled
<1>15. ASSUME NEW t \in Threads, NEW field \in {"token", "module"}, AssignField(t, field)
       PROVE  EntryCompiled'
  BY <1>14, <1>15 DEF AssignField
<1>16. CASE Finish \/ Shutdown \/ UNCHANGED vars
  BY <1>14, <1>16 DEF Finish, Shutdown, WaitIsOver, WriteReport, Release, Advance, vars
<1>17. QED
  BY <1>1, <1>2, <1>3, <1>4, <1>5, <1>6, <1>7, <1>8, <1>9, <1>10, <1>11, <1>12, <1>13, <1>15, <1>16
    DEF Next, Work

(* EntryMainHasProbes, for one client whose entry methods no other thread  *)
(* compiles: whatever was named, compiled or refused before, the method a  *)
(* batch has named is compiled with main's probes or was refused.          *)
THEOREM EntryMainCorrect == OneBatch => (Spec => []EntryMainHasProbes)
<1> SUFFICES ASSUME OneBatch PROVE Spec => []EntryMainHasProbes
  OBVIOUS
<1>1. Init => EntryInv
  BY InstrumentationAssumption DEF Init, EntryInv, Written, EntryCompiled, CompilesAsMain,
    CompilingMain, MainBodies, MainsSettled, MainCode, Compiled
<1>2. TypeInv /\ EntryInv /\ [Next]_vars => EntryInv'
  <2> SUFFICES ASSUME TypeInv, EntryInv, [Next]_vars PROVE EntryInv'
    OBVIOUS
  <2>1. Written'
    BY WrittenStep DEF EntryInv
  <2>2. isPassiveRun' = isPassiveRun
    BY DEF Next, JITCompilationStarted, SetEntryMain, AssignField, GetHistory, Work,
      BlockShutdown, InstrumentationIsNeeded, CompareModule, FindInstrumented, CollectMethod,
      DoInstrumentation, CompareTokenAgain, CompareModuleAgain, ImportBody, ExportBody, Refuse,
      UnblockShutdown, HistoryServed, Finish, Shutdown, WaitIsOver, WriteReport, Release,
      Advance, vars, stateVars
  <2>3. ~isPassiveRun => EntryCompiled'
    BY EntryStep DEF EntryInv
  <2>4. QED
    BY <2>1, <2>2, <2>3 DEF EntryInv
<1>3. TypeInv /\ EntryInv => EntryMainHasProbes
  <2> SUFFICES ASSUME TypeInv, EntryInv, NEW t \in Clients, NEW f \in Compiled,
                      MethodOf[f] = naming[t], naming[t] \notin refused, ~isFinished
               PROVE  HasProbes(code[f])
    BY DEF EntryMainHasProbes, HasProbes
  <2>1. t \in Threads /\ f \in Functions
    BY InstrumentationAssumption DEF Compiled
  <2>2. naming[t] \in Mains \cup {None}
    BY <2>1 DEF TypeInv, TypeOK
  <2>3. MethodOf[f] \in Methods
    BY <2>1, InstrumentationAssumption
  <2>4. naming[t] # None
    BY <2>3, InstrumentationAssumption
  <2>5. EntryCompiled
    BY <2>1, <2>4 DEF EntryInv, Written
  <2>6. QED
    BY <2>2, <2>4, <2>5 DEF EntryCompiled, MainCode
<1>4. QED
  BY TypeInit, TypeStep, <1>1, <1>2, <1>3, PTL DEF Spec
=============================================================================
