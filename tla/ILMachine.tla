------------------------------ MODULE ILMachine ------------------------------
(***************************************************************************)
(* What the runtime does with one activation of a method body: the         *)
(* semantics the rewriter has to preserve.  External to the program.  Data *)
(* is left out: a conditional branch goes either way, a call, a store to a *)
(* static field (its class constructor) or a throw may raise an exception. *)
(* A body has at most one exception clause; what leaves the activation is  *)
(* always caught further up, by MethodBase.Invoke at the latest, so that   *)
(* finally blocks do run.                                                  *)
(***************************************************************************)
EXTENDS ILBody

VARIABLES
  body,   (* the method body that runs                                      *)
  ip,     (* offset of the instruction to execute                           *)
  pend,   (* what the end of a finally block does: go on to an offset,      *)
          (* Unwinding, or NotPending                                       *)
  exit    (* "running", "returned", "tailcalled" or "thrown"                *)

machine == <<body, ip, pend, exit>>

NotPending == -1
Unwinding  == -2

Instr == InstrAt(body, ip)
Clauses == {body.clauses[c] : c \in DOMAIN body.clauses}

Goto(o) == ip' = o /\ UNCHANGED <<body, pend, exit>>
Exit(how) == exit' = how /\ UNCHANGED <<body, ip, pend>>

Enter(b) == body = b /\ ip = 0 /\ pend = NotPending /\ exit = "running"

Continue ==
  /\ Instr.op \in {"nop", "probe", "volatile", "tail", "stsfld", "call", "calli"} \cup
                  (Conditional)
  /\ Instr.op \in {"call", "calli"} => ~UnderTail(body, ip)
  /\ Goto(AfterInstr(body, ip))

Jump ==
  /\ Instr.op \in Branches \ Leaves
  /\ \E k \in DOMAIN Instr.to : Goto(Instr.to[k])

(* leave runs the finally block of the try block it leaves. *)
Leave ==
  /\ Instr.op \in Leaves
  /\ LET target == Instr.to[1]
         crossed == {c \in Clauses : /\ c.kind = "finally"
                                     /\ Within(ip, c.try) /\ ~Within(target, c.try)}
     IN  \/ crossed = {} /\ Goto(target)
         \/ \E c \in crossed : /\ ip' = c.handler[1]
                               /\ pend' = target
                               /\ UNCHANGED <<body, exit>>

Return ==
  /\ Instr.op = "ret"
  /\ Exit("returned")

TailCall ==
  /\ Instr.op \in {"call", "calli"} /\ UnderTail(body, ip)
  /\ Exit("tailcalled")

(* The first pass finds a handler or leaves the activation; a catch clause *)
(* may be of another type.                                                 *)
Raise ==
  /\ Instr.op \in {"call", "calli", "stsfld", "throw"}
  /\ Instr.op \in {"call", "calli"} => ~UnderTail(body, ip)
  /\ \/ /\ \A c \in Clauses : Within(ip, c.try) => c.kind = "catch"
        /\ Exit("thrown")
     \/ \E c \in Clauses :
          /\ Within(ip, c.try)
          /\ ip' = IF c.kind = "filter" THEN c.filter ELSE c.handler[1]
          /\ pend' = IF c.kind = "finally" THEN Unwinding ELSE pend
          /\ UNCHANGED <<body, exit>>

EndFinally ==
  /\ Instr.op = "endfinally"
  /\ \/ pend = Unwinding /\ Exit("thrown")
     \/ /\ pend # Unwinding
        /\ ip' = pend /\ pend' = NotPending
        /\ UNCHANGED <<body, exit>>

EndFilter ==
  /\ Instr.op = "endfilter"
  /\ \/ \E c \in Clauses : InFilter(c, ip) /\ Goto(c.handler[1])
     \/ Exit("thrown")

Step ==
  /\ exit = "running"
  /\ Continue \/ Jump \/ Leave \/ Return \/ TailCall \/ Raise \/ EndFinally \/ EndFilter

Behaviour == Enter(body) /\ [][Step]_machine
=============================================================================
