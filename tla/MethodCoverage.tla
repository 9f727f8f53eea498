--------------------------- MODULE MethodCoverage ---------------------------
(***************************************************************************)
(* The coverage of one method, from its body to the blocks reported as     *)
(* visited: the executor finds the basic blocks (ControlFlow), the         *)
(* profiler rewrites the body when it is compiled (ILRewriting), the       *)
(* runtime executes the rewritten body (ILMachine, external), its probes   *)
(* report offsets, and CoverageTool turns the offsets into blocks.         *)
(*                                                                         *)
(* One activation of one method: how reports of several activations are    *)
(* collected and sent is the subject of CoverageReports.                   *)
(***************************************************************************)
EXTENDS ControlFlow, ILRewriting

CONSTANT Bodies   (* the method bodies considered *)

VARIABLES
  compiled,    (* the method was compiled, so rewritten                     *)
  rewritten,   (* the body the runtime executes                             *)
  ip, pend, exit,   (* the activation: see ILMachine                        *)
  reported,    (* the offsets in the history of the invocation              *)
  pops,        (* how often a probe has taken the frame off the balance     *)
  began, done  (* history: the original instructions that have begun, and   *)
               (* those that have been executed without an exception        *)

activation == <<ip, pend, exit, reported, pops, began, done>>
vars == <<body, cfgVars, compiled, rewritten, activation>>

Runtime == INSTANCE ILMachine WITH body <- rewritten

Init ==
  /\ body \in Bodies
  /\ CfgInit
  /\ compiled = FALSE
  /\ rewritten = body
  /\ ip = 0 /\ pend = Runtime!NotPending /\ exit = "running"
  /\ reported = {} /\ pops = 0 /\ began = {} /\ done = {}

(* Execute builds the control flow graph before it invokes the method. *)
Analyse ==
  /\ CfgStep
  /\ UNCHANGED <<compiled, rewritten, activation>>

(* A batch whose traversal failed ends there; in a passive run, with no    *)
(* executor at all, main is compiled all the same.                         *)
Compile ==
  /\ CfgDone /\ ~compiled
  /\ compiled' = TRUE
  /\ rewritten' = RewriteIL(body)
  /\ UNCHANGED <<body, cfgVars, activation>>

Running == InstrAt(rewritten, ip)

(* LeaveMain and Tailcall call stackBalanceDown. *)
Pops(probe) == IF probe \in {"LeaveMain", "Tailcall"} THEN 1 ELSE 0

Execute ==
  /\ compiled
  /\ Runtime!Step
  /\ reported' = IF Running.op = "probe" THEN reported \cup {Running.at} ELSE reported
  /\ pops' = pops + Pops(Running.probe)
  /\ began' = began \cup ({Running.src} \ {Inserted})
  /\ done' = IF \/ Running.src = Inserted
                \/ /\ Running.op \in {"call", "calli", "stsfld"}
                   /\ exit' = "thrown" \/ ip' # AfterInstr(rewritten, ip)
             THEN done ELSE done \cup {Running.src}
  /\ UNCHANGED <<body, cfgVars, compiled, rewritten>>

Finished == exit # "running" /\ UNCHANGED vars

Next == Analyse \/ Compile \/ Execute \/ Finished

Spec == Init /\ [][Next]_vars

------------------------------------------------------------------------------
(* The original instruction the rewritten body is about to execute: what    *)
(* the rewriter inserts leads to the next one that is not inserted.  An     *)
(* offset between instructions would be none.                               *)
Origin(o) ==
  LET from == IndexAt(rewritten, o)
      real == {i \in from..Len(rewritten.code) : rewritten.code[i].src # Inserted}
  IN  IF ~compiled THEN o
      ELSE IF ~IsInstr(rewritten, o) THEN Inserted
      ELSE rewritten.code[CHOOSE i \in real : \A j \in real : i <= j].src

Original == INSTANCE ILMachine
              WITH ip <- Origin(ip), pend <- IF pend >= 0 THEN Origin(pend) ELSE pend

(* Whatever the probes are and wherever they go, the rewritten body does    *)
(* what the original does: same instructions in the same order, same        *)
(* handlers, same way out.  Jumps must reach the instruction they reached,  *)
(* at their new offset and in their new length, and clauses must protect    *)
(* what they protected (AddCoverageProbeBefore, Export).                    *)
BehaviourKept == Original!Behaviour

(* Probes are inserted inside the block of code they belong to: no          *)
(* instruction leaves its try block, handler or filter, and no probe runs   *)
(* outside the region of the instruction it reports, except that of the     *)
(* beginning (CorrectHandlers; m_pTryEnd and m_pHandlerEnd are kept in      *)
(* different ways).                                                         *)
RegionsKept ==
  compiled =>
    \A i \in DOMAIN rewritten.code, c \in DOMAIN body.clauses :
      LET instr == rewritten.code[i]
          of    == IF instr.op = "probe" THEN instr.at ELSE instr.src
          old   == body.clauses[c]
          new   == rewritten.clauses[c]
      IN  of # Inserted /\ instr.probe # "EnterMain" =>
            /\ Within(instr.off, new.try) <=> Within(of, old.try)
            /\ Within(instr.off, new.handler) <=> Within(of, old.handler)
            /\ InFilter(new, instr.off) <=> InFilter(old, of)

(* The tracker counts one frame of main per activation (ThreadTracking):    *)
(* on every way out by ret or by a tail call exactly one probe takes it     *)
(* away; an exception leaves it to UnwindFunctionLeave.                     *)
FrameIsPopped ==
  exit # "running" => pops = IF exit = "thrown" THEN 0 ELSE 1

(* ComputeCoverage: a block is visited when its final offset is reported. *)
VisitedBlocks ==
  {b \in BlocksOf(graph) :
     \E o \in reported : ResolveBasicBlock(graph, o) = b /\ graph.final[b] = o}

(* The blocks ComputeCoverage counts are those the activation executed: a   *)
(* block whose last instruction was executed is counted, once control is    *)
(* at the next original instruction or out, and a block is counted only if  *)
(* its last instruction is about to begin or has begun.  The rewriter and   *)
(* the control flow graph find the ends of blocks independently, one from   *)
(* a list of opcodes and jump targets, the other by traversal.              *)
CoverageIsExecution ==
  compiled /\ ~failed /\ IsInstr(rewritten, ip) =>
    /\ \A b \in VisitedBlocks :
         graph.final[b] \in began \cup (IF exit = "running" THEN {Origin(ip)} ELSE {})
    /\ exit # "running" \/ Running.src # Inserted =>
         \A b \in BlocksOf(graph) : graph.final[b] \in done => b \in VisitedBlocks
=============================================================================
