---------------------------- MODULE ILRewriting ----------------------------
(***************************************************************************)
(* RewriteIL: a method body is imported into a linked list, probes are     *)
(* inserted, and the list is exported to bytes again.  A pure function of  *)
(* the body: MethodCoverage runs it.                                       *)
(*                                                                         *)
(* The list is a record of the ids of its instructions in order (the       *)
(* m_pNext and m_pPrev links), the instruction each id points to, and the  *)
(* exception clauses, which point to ids.  Imported instructions are known *)
(* by their offset; end is the sentinel.  The three pushes and the calli   *)
(* of a probe are one instruction: nothing jumps between them.             *)
(*                                                                         *)
(* src is a ghost: the offset of the original instruction whose work an    *)
(* instruction does, Inserted if it is the rewriter's own.                 *)
(***************************************************************************)
EXTENDS ILBody, Functions

Inserted == -1

ProbeSize == 24       (* ldc.i4, ldc.i4, ldc.i8, calli *)
EnterProbeSize == 25  (* and the ldc.i4.0 of isSpontaneous *)
AllSizes == Size @@ [probe |-> ProbeSize, enter |-> EnterProbeSize, switch_arg |-> TargetSize]

(* arg is the target of a branch, or the number of targets of a switch. *)
Node(op, arg, off, src) ==
  [op |-> op, arg |-> arg, off |-> off, src |-> src, probe |-> "none", at |-> 0]
NewNode(op) == Node(op, 0, 0, Inserted)
ProbeNode(probe, at) == [NewNode("probe") EXCEPT !.probe = probe, !.at = at]

------------------------------------------------------------------------------
(* The list. *)
Position(r, x) == CHOOSE i \in DOMAIN r.list : r.list[i] = x

PrevOf(r, x) ==
  IF x = r.end THEN Last(r.list)
  ELSE IF Position(r, x) = 1 THEN r.end ELSE r.list[Position(r, x) - 1]

NextOf(r, x) ==
  IF x = r.end THEN Head(r.list)
  ELSE IF x = Last(r.list) THEN r.end ELSE r.list[Position(r, x) + 1]

OpAt(r, x) == IF x = r.end THEN "sentinel" ELSE r.node[x].op

(* InsertBefore, and InsertAfter, of several new instructions in a row. *)
NewIds(r, n) == [k \in 1..n |-> r.fresh + k - 1]
InsertBefore(r, x, nodes) ==
  LET ids == NewIds(r, Len(nodes))
      i   == IF x = r.end THEN Len(r.list) ELSE Position(r, x) - 1
  IN  [r EXCEPT !.list = SubSeq(@, 1, i) \o ids \o SubSeq(@, i + 1, Len(@)),
                !.node = @ @@ [id \in {ids[k] : k \in DOMAIN ids} |-> nodes[id - r.fresh + 1]],
                !.fresh = @ + Len(nodes)]
InsertAfter(r, x, nodes) == InsertBefore(r, NextOf(r, x), nodes)

------------------------------------------------------------------------------
(* Import. The targets of a switch are instructions of their own, which    *)
(* follow it; countOffsets gives each instruction its original offset.     *)
ImportIL(body) ==
  LET Nodes(instr) ==
        IF instr.op = "switch"
        THEN <<Node("switch", Len(instr.to), instr.off, instr.off)>> \o
             [k \in DOMAIN instr.to |->
                Node("switch_arg", instr.to[k],
                     instr.off + Size["switch"] + TargetSize * (k - 1), Inserted)]
        ELSE <<Node(instr.op, IF instr.to = <<>> THEN 0 ELSE instr.to[1], instr.off, instr.off)>>
      nodes == FlattenSeq([i \in DOMAIN body.code |-> Nodes(body.code[i])])
  IN  [list  |-> [i \in DOMAIN nodes |-> nodes[i].off],
       node  |-> [id \in {nodes[i].off : i \in DOMAIN nodes} |->
                    nodes[CHOOSE i \in DOMAIN nodes : nodes[i].off = id]],
       end   |-> body.size,
       fresh |-> body.size + 1,
       eh    |-> <<>>]

(* A clause points to the first instruction after its try block, but to    *)
(* the last one of its handler.                                            *)
ImportEH(r, body) ==
  [r EXCEPT !.eh =
     [c \in DOMAIN body.clauses |->
        LET clause == body.clauses[c]
        IN  [kind |-> clause.kind, filter |-> clause.filter,
             tryBegin |-> clause.try[1], tryEnd |-> clause.try[2],
             handlerBegin |-> clause.handler[1], handlerEnd |-> PrevOf(r, clause.handler[2])]]]

Import(body) == ImportEH(ImportIL(body), body)

------------------------------------------------------------------------------
(* One probe. *)
(* Seeded defect: the end of a handler stays at the instruction it was. *)
CorrectNoHandler(eh, x, new) == eh

CorrectHandlers(eh, x, new) ==
  [c \in DOMAIN eh |-> IF eh[c].handlerEnd = x THEN [eh[c] EXCEPT !.handlerEnd = new] ELSE eh[c]]

(* The probe and a nop after x. *)
AddCoverageProbeAfter(r, x, probe) ==
  LET s == InsertAfter(r, x, <<ProbeNode(probe, r.node[x].off), NewNode("nop")>>)
  IN  [s EXCEPT !.eh = CorrectHandlers(@, x, s.fresh - 1)]

(* x becomes a nop, so that what jumps to it meets the probe, and a copy   *)
(* of what it was follows the probe.                                       *)
AddCoverageProbeBefore(r, x, probe) ==
  LET copy == [r.node[x] EXCEPT !.off = 0]
      s    == InsertAfter(r, x, <<ProbeNode(probe, r.node[x].off), copy>>)
  IN  [s EXCEPT !.node[x].op = "nop", !.node[x].src = Inserted,
                !.eh = CorrectHandlers(@, x, s.fresh - 1)]

AddEnterProbe(r) ==
  LET first == Head(r.list)
  IN  InsertBefore(r, first, <<[ProbeNode("EnterMain", r.node[first].off) EXCEPT !.op = "enter"]>>)

(* Where a probe goes: next to target; parent is the branch it serves. *)
Insertion(target, parent, probe, before) ==
  [target |-> target, parent |-> parent, probe |-> probe, before |-> before]
NoParent == -1
Priority(target, probe, before) == Insertion(target, NoParent, probe, before)

MakeProbeInsertion(r, p) ==
  IF p.before THEN AddCoverageProbeBefore(r, p.target, p.probe)
              ELSE AddCoverageProbeAfter(r, p.target, p.probe)

------------------------------------------------------------------------------
(* The scan for the last instructions of basic blocks, in list order.  s   *)
(* has the list, whether a tail. was seen and not yet its ret, and the two *)
(* vectors of insertions.                                                  *)
IsPrefixOp(op) == op \in {"tail", "volatile"}

JumpTargets(r, x) ==
  IF r.node[x].op = "switch"
  THEN [k \in 1..r.node[x].arg |-> r.node[r.list[Position(r, x) + k]].arg]
  ELSE <<r.node[x].arg>>

(* Seeded defect: the probe goes after the target instead of before it. *)
ScanBranchAtTarget(s, x) ==
  LET targets == JumpTargets(s.r, x)
  IN  [s EXCEPT !.priority = Append(@, Priority(x, "Branch", TRUE)),
                !.target = @ \o [k \in DOMAIN targets |->
                                   Insertion(targets[k], x, "Coverage", FALSE)]]

ScanBranch(s, x) ==
  LET targets == JumpTargets(s.r, x)
  IN  [s EXCEPT !.priority = Append(@, Priority(x, "Branch", TRUE)),
                !.target = @ \o [k \in DOMAIN targets |->
                                   Insertion(PrevOf(s.r, targets[k]), x, "Coverage", FALSE)]]

ScanStsfld(s, x) ==
  LET before == PrevOf(s.r, x)
  IN  [s EXCEPT !.priority =
         Append(@, Priority(IF IsPrefixOp(OpAt(s.r, before)) THEN before ELSE x, "Stsfld", TRUE))]

(* tail. becomes a nop with the offset of the ret, and a new tail. gets    *)
(* the offset of the call.                                                 *)
ScanTailcall(s, x) ==
  LET call == NextOf(s.r, x)
      ret  == NextOf(s.r, call)
      r    == InsertAfter(s.r, x, <<[s.r.node[x] EXCEPT !.off = s.r.node[call].off]>>)
  IN  [s EXCEPT !.tail = TRUE,
                !.r = [r EXCEPT !.node[x].op = "nop", !.node[x].src = Inserted,
                                !.node[x].off = s.r.node[ret].off],
                !.priority = @ \o <<Priority(s.r.fresh, "Tailcall", TRUE), Priority(x, "Coverage", TRUE)>>]

(* Seeded defect: the flag is never reset. *)
ScanRetAfterTail(s, x, leave) ==
  IF s.tail THEN s ELSE [s EXCEPT !.priority = Append(@, Priority(x, leave, TRUE))]

ScanRet(s, x, leave) ==
  IF s.tail THEN [s EXCEPT !.tail = FALSE]
            ELSE [s EXCEPT !.priority = Append(@, Priority(x, leave, TRUE))]

ScanProbed(s, x, probe, before) == [s EXCEPT !.priority = Append(@, Priority(x, probe, before))]

ScanInstr(s, x) ==
  LET op == s.r.node[x].op
  IN  CASE op \in Branches                        -> ScanBranch(s, x)
        [] op = "stsfld"                          -> ScanStsfld(s, x)
        [] op = "tail"                            -> ScanTailcall(s, x)
        [] op \in {"call", "calli"} /\ ~s.tail    -> ScanProbed(s, x, "Call", FALSE)
        [] op = "ret"                             -> ScanRet(s, x, "LeaveMain")
        [] op \in {"endfinally", "endfilter"}     -> ScanProbed(s, x, "Coverage", TRUE)
        [] op = "throw"                           -> ScanProbed(s, x, "Throw", TRUE)
        [] OTHER                                  -> s

HandlerInsertions(eh) == [c \in DOMAIN eh |-> Priority(eh[c].handlerBegin, "Throw", TRUE)]

------------------------------------------------------------------------------
(* The insertions.  t has the list and the offsets already covered. *)
InsertPriority(t, p) ==
  LET r == MakeProbeInsertion(t.r, p)
  IN  [r |-> r, covered |-> t.covered \cup {r.node[p.target].off}]

IsTailcallRet(r, x) == OpAt(r, x) = "ret" /\ OpAt(r, PrevOf(r, PrevOf(r, x))) = "tail"

(* A branch to the ret of a tail call: a probe and a ret of their own after *)
(* the branch, which is sent there; a branch that may fall through skips   *)
(* them.  The ghost of the skip is the branch: it is not executed yet.     *)
RerouteBranch(r, p) ==
  LET branch == r.node[p.parent]
      ret    == r.node[NextOf(r, p.target)].src
      s      == InsertAfter(r, p.parent, <<ProbeNode("LeaveMain", r.node[p.target].off),
                                           Node("ret", 0, 0, ret)>>)
      t      == [s EXCEPT !.node[p.parent].arg = r.fresh]
  IN  IF branch.op \in {"br", "br_s"} THEN t
      ELSE InsertAfter(t, p.parent, <<Node("br", NextOf(t, r.fresh + 1), 0, p.parent)>>)

InsertTarget(t, p) ==
  LET off == t.r.node[p.target].off
  IN  IF p.target = t.r.end \/ off \in t.covered THEN t
      ELSE [r |-> IF IsTailcallRet(t.r, NextOf(t.r, p.target))
                  THEN RerouteBranch(t.r, p)
                  ELSE AddCoverageProbeAfter(t.r, p.target, p.probe),
            covered |-> t.covered \cup {off}]

AddProbes(r) ==
  LET scanned  == FoldLeft(ScanInstr, [r |-> r, tail |-> FALSE, priority |-> <<>>, target |-> <<>>], r.list)
      priority == FoldLeft(InsertPriority, [r |-> scanned.r, covered |-> {}],
                           scanned.priority \o HandlerInsertions(scanned.r.eh))
  IN  AddEnterProbe(FoldLeft(InsertTarget, priority, scanned.target).r)

------------------------------------------------------------------------------
(* Export.  Short branches whose displacement does not fit in a signed     *)
(* byte are given their long form and everything is laid out again, until  *)
(* all fit.                                                                *)
Layout(r) ==
  LET offsets == OffsetsOf([i \in DOMAIN r.list |-> AllSizes[r.node[r.list[i]].op]])
  IN  [id \in DOMAIN r.node |-> offsets[Position(r, id)]] @@ [id \in {r.end} |-> Last(offsets)]

Int8(n) == ((n + 128) % 256) - 128

Delta(r, layout, x) == layout[r.node[x].arg] - layout[NextOf(r, x)]

WidenBranches(r) ==
  LET layout == Layout(r)
      Wide(x) == /\ r.node[x].op \in ShortBranches
                 /\ Int8(Delta(r, layout, x)) # Delta(r, layout, x)
  IN  [r EXCEPT !.node = [x \in DOMAIN @ |->
                            IF Wide(x) THEN [@[x] EXCEPT !.op = LongForm[@]] ELSE @[x]]]

(* Seeded defect: what one pass has widened is not laid out again. *)
FitOnce(r) == WidenBranches(r)

(* One pass per branch is enough: a pass that widens nothing is the last. *)
Fit(r) == FoldLeft(LAMBDA s, x : WidenBranches(s), r, r.list)

(* The bytes, decoded again: where a branch lands is computed from the     *)
(* displacement that was written, one byte wide in the short forms.        *)
Export(r) ==
  LET layout == Layout(r)
      Encoded(x) == IF r.node[x].op \in ShortBranches
                    THEN Int8(Delta(r, layout, x)) ELSE Delta(r, layout, x)
      Targets(x) == CASE r.node[x].op = "switch" ->
                           [k \in DOMAIN JumpTargets(r, x) |-> layout[JumpTargets(r, x)[k]]]
                      [] r.node[x].op \in Branches -> <<layout[NextOf(r, x)] + Encoded(x)>>
                      [] OTHER -> <<>>
      kept == SelectSeq(r.list, LAMBDA x : r.node[x].op # "switch_arg")
      Clause(c) == [kind    |-> c.kind,
                    try     |-> <<layout[c.tryBegin], layout[c.tryEnd]>>,
                    handler |-> <<layout[c.handlerBegin], layout[NextOf(r, c.handlerEnd)]>>,
                    filter  |-> layout[c.filter]]
  IN  [code |-> [i \in DOMAIN kept |->
                   LET x == kept[i] IN
                   [op  |-> IF r.node[x].op = "enter" THEN "probe" ELSE r.node[x].op,
                    off |-> layout[x], to |-> Targets(x), src |-> r.node[x].src,
                    probe |-> r.node[x].probe, at |-> r.node[x].at]],
       clauses |-> [c \in DOMAIN r.eh |-> Clause(r.eh[c])],
       size |-> layout[r.end]]

RewriteIL(body) == Export(Fit(AddProbes(Import(body))))
=============================================================================
