------------------------------- MODULE ILBody -------------------------------
(***************************************************************************)
(* CIL method bodies as the three readers of a body see them: the rewriter *)
(* of the profiler, the control flow graph of the executor and the         *)
(* runtime.  An instruction is an opcode, its byte offset and the offsets  *)
(* it may jump to; operands that matter to none of the three are left out. *)
(*                                                                         *)
(* One opcode stands for each class the code distinguishes: "call" for     *)
(* call, callvirt and newobj; "brtrue" for every conditional branch;       *)
(* "throw" for throw and rethrow; "volatile" for the prefixes other than   *)
(* tail.; "nop" for everything that neither jumps nor is probed.           *)
(***************************************************************************)
EXTENDS Integers, Sequences, SequencesExt

(* Short branches keep their displacement in one signed byte. *)
LongForm == [br_s |-> "br", brtrue_s |-> "brtrue", leave_s |-> "leave"]
ShortBranches == DOMAIN LongForm
LongBranches  == {LongForm[op] : op \in ShortBranches}
Leaves        == {"leave", "leave_s"}
Unconditional == {"br", "br_s"} \cup Leaves
Conditional   == {"brtrue", "brtrue_s", "switch"}
Branches      == Unconditional \cup Conditional

(* Opcode byte or bytes with the operand; each target of a switch adds 4. *)
Size == [nop |-> 1, ret |-> 1, throw |-> 1, endfinally |-> 1, endfilter |-> 2,
         volatile |-> 2, tail |-> 2, call |-> 5, calli |-> 5, stsfld |-> 5,
         br_s |-> 2, brtrue_s |-> 2, leave_s |-> 2,
         br |-> 5, brtrue |-> 5, leave |-> 5, switch |-> 5]
Opcodes == DOMAIN Size
TargetSize == 4

(* The offsets at which items of these sizes lie, the end included. *)
OffsetsOf(sizes) ==
  FoldLeft(LAMBDA offsets, size : Append(offsets, Last(offsets) + size), <<0>>, sizes)

(***************************************************************************)
(* A body is written with instruction numbers; MethodBody lays it out in   *)
(* bytes.  A clause protects [try[1], try[2]) with a handler of kind       *)
(* "catch", "finally" or "filter"; a filter block runs from filter to the  *)
(* beginning of the handler.                                               *)
(***************************************************************************)
MethodBody(instrs, clauses) ==
  LET offset == OffsetsOf([i \in DOMAIN instrs |->
                             Size[instrs[i].op] +
                             (IF instrs[i].op = "switch" THEN TargetSize * Len(instrs[i].to) ELSE 0)])
      Bytes(range) == <<offset[range[1]], offset[range[2]]>>
  IN  [code |-> [i \in DOMAIN instrs |->
                   [op  |-> instrs[i].op,
                    off |-> offset[i],
                    to  |-> [k \in DOMAIN instrs[i].to |-> offset[instrs[i].to[k]]]]],
       clauses |-> [c \in DOMAIN clauses |->
                      [kind    |-> clauses[c].kind,
                       try     |-> Bytes(clauses[c].try),
                       handler |-> Bytes(clauses[c].handler),
                       filter  |-> offset[clauses[c].filter]]],
       size |-> Last(offset)]

IndexAt(body, o)  == CHOOSE i \in DOMAIN body.code : body.code[i].off = o
InstrAt(body, o)  == body.code[IndexAt(body, o)]
IsInstr(body, o)  == \E i \in DOMAIN body.code : body.code[i].off = o
(* Where the next instruction begins. *)
AfterInstr(body, o) ==
  LET i == IndexAt(body, o)
  IN  IF i = Len(body.code) THEN body.size ELSE body.code[i + 1].off

Within(o, range) == range[1] <= o /\ o < range[2]
InFilter(clause, o) == clause.kind = "filter" /\ Within(o, <<clause.filter, clause.handler[1]>>)

(* A call under tail. does not come back: it replaces the frame. *)
UnderTail(body, o) ==
  LET i == IndexAt(body, o) IN i > 1 /\ body.code[i - 1].op = "tail"
=============================================================================
