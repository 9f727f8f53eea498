----------------------------- MODULE ControlFlow -----------------------------
(***************************************************************************)
(* CfgInfo: the basic blocks of a method body, found by one depth-first    *)
(* traversal that splits a block when something turns out to jump into it. *)
(* The traversal is written in continuation passing style; work is the     *)
(* continuation, the tasks still to do, the next one first.                *)
(***************************************************************************)
EXTENDS ILBody, FiniteSets

VARIABLES
  body,    (* the method body                                               *)
  graph,   (* the blocks found so far                                       *)
  used,    (* offsets of the instructions visited                           *)
  work,    (* the tasks to do                                               *)
  failed   (* the traversal threw                                           *)

cfgVars == <<graph, used, work, failed>>

(* Blocks are numbered in the order they are made: block b goes from       *)
(* start[b] to its last instruction, final[b].  owner is                   *)
(* vertexToBasicBlock, NoBlock for None.  out and inc are the edges of     *)
(* either end; sound is FALSE once an assertion has failed.                *)
NoBlock == 0
EmptyGraph ==
  [start |-> <<>>, final |-> <<>>, out |-> <<>>, inc |-> <<>>,
   owner |-> [v \in 0..body.size |-> NoBlock], sound |-> TRUE]

BlocksOf(g) == DOMAIN g.start

(* A task: what to do, the block it is done from, and the offset. *)
Task(do, block, at) == [do |-> do, block |-> block, at |-> at]

(* Offset 0, then each handler with its filter. *)
StartVertices ==
  <<0>> \o FlattenSeq([c \in DOMAIN body.clauses |->
              IF body.clauses[c].kind = "filter"
              THEN <<body.clauses[c].handler[1], body.clauses[c].filter>>
              ELSE <<body.clauses[c].handler[1]>>])

CfgInit ==
  /\ graph = EmptyGraph
  /\ used = {}
  /\ work = [v \in DOMAIN StartVertices |-> Task("start", NoBlock, StartVertices[v])]
  /\ failed = FALSE

------------------------------------------------------------------------------
(* MethodInstrBuilder decodes a body instruction by instruction, but skips *)
(* no operand of a switch: the bytes of its table, little endian, are      *)
(* decoded as instructions too.  One with an operand of 4 or 8 bytes may   *)
(* swallow the beginning of the instruction after the table.               *)
OperandSize(byte) ==
  CASE byte \in (14..19) \cup {31} \cup (43..55) \cup {222} -> 1
    [] byte \in {32, 34} \cup (39..41) \cup (56..68) \cup (111..117) \cup {121} \cup
               (123..129) \cup {140, 141, 143} \cup (163..165) \cup {194, 198, 208, 221} -> 4
    [] byte \in {33, 35} -> 8
    [] OTHER -> 0

(* The offset at which the decoder leaves a table.  Numbers below 254. *)
LeavesTable(instr) ==
  LET table == instr.off + 1
      words == <<Len(instr.to)>> \o
               [k \in DOMAIN instr.to |-> instr.to[k] - AfterInstr(body, instr.off)]
      Byte(j) == IF j % 4 = 0 THEN words[j \div 4 + 1] ELSE 0
      Decode(next, j) == IF table + j < next THEN next ELSE next + 1 + OperandSize(Byte(j))
  IN  FoldLeft(Decode, table, [j \in 1..(4 * Len(words)) |-> j - 1])

Switches == {i \in DOMAIN body.code : body.code[i].op = "switch"}
Undecoded ==
  {AfterInstr(body, body.code[i].off) :
     i \in {j \in Switches : LeavesTable(body.code[j]) > AfterInstr(body, body.code[j].off)}}

------------------------------------------------------------------------------
(* The last instruction of block b that begins before v: the nearest byte  *)
(* that belongs to b, then the instruction it lies in.                     *)
FindFinalVertex(g, v, b) ==
  LET mine == {u \in 0..(v - 1) : g.owner[u] = b}
      near == CHOOSE u \in mine : \A w \in mine : w <= u
      begin == {u \in 0..near : IsInstr(body, u)}
  IN  IF mine = {} THEN 0 ELSE CHOOSE u \in begin : \A w \in begin : w <= u

NewBlock(g, v) ==
  [g EXCEPT !.start = Append(@, v), !.final = Append(@, v),
            !.out = Append(@, {}), !.inc = Append(@, {})]

(* Seeded defect: the edges into b go on leading to its second half. *)
SplitWithoutRedirecting(g, b, v) ==
  LET n == Len(g.start) + 1
      h == NewBlock(g, g.start[b])
  IN  [h EXCEPT !.start[b] = v,
                !.final[n] = FindFinalVertex(g, v, b),
                !.owner = [u \in DOMAIN @ |-> IF g.start[b] <= u /\ u < v THEN n ELSE @[u]],
                !.out[n] = {b}, !.inc[b] = @ \cup {n}]

(* Block b keeps what begins at v; a new block takes what lies before, and *)
(* the edges into b.                                                       *)
SplitBasicBlock(g, b, v) ==
  LET n == Len(g.start) + 1
      h == NewBlock(g, g.start[b])
      parents == g.inc[b]
      Redirected(p) == IF p \in parents THEN (h.out[p] \ {b}) \cup {n} ELSE h.out[p]
  IN  [start |-> [h.start EXCEPT ![b] = v],
       final |-> [h.final EXCEPT ![n] = FindFinalVertex(g, v, b)],
       owner |-> [u \in DOMAIN g.owner |-> IF g.start[b] <= u /\ u < v THEN n ELSE g.owner[u]],
       out   |-> [[p \in DOMAIN h.out |-> Redirected(p)] EXCEPT ![n] = {b}],
       inc   |-> [h.inc EXCEPT ![b] = {n}, ![n] = parents],
       sound |-> g.sound /\ \A p \in parents : b \in g.out[p]]

(* Afterwards the block that begins at v is owner[v]. *)
MakeNewBasicBlock(g, v) ==
  LET b == g.owner[v]
  IN  IF b = NoBlock THEN [NewBlock(g, v) EXCEPT !.owner[v] = Len(g.start) + 1]
      ELSE IF g.start[b] = v THEN g
      ELSE SplitBasicBlock(g, b, v)

AddEdge(g, src, dst) ==
  [g EXCEPT !.inc[dst] = @ \cup {src}, !.out[src] = @ \cup {dst},
            !.sound = @ /\ src \notin g.inc[dst] /\ dst \notin g.out[src]]

------------------------------------------------------------------------------
Current == Head(work)
Doing(tasks) == work' = tasks \o Tail(work) /\ UNCHANGED <<body, failed>>
IsDecoded(o) == o \notin Undecoded
Visiting(ops) ==
  /\ work # <<>> /\ Current.do = "visit"
  /\ Current.at \notin used /\ IsDecoded(Current.at)
  /\ used' = used \cup {Current.at}
  /\ InstrAt(body, Current.at).op \in ops
Own == [graph EXCEPT !.owner[Current.at] = Current.block]
Ended(g, at) == [g EXCEPT !.final[Current.block] = at]

(* A root of the traversal. *)
StartVertex ==
  /\ work # <<>> /\ Current.do = "start"
  /\ graph' = MakeNewBasicBlock(graph, Current.at)
  /\ Doing(<<Task("visit", graph'.owner[Current.at], Current.at)>>)
  /\ UNCHANGED used

(* dealWithJump, and processCall from where the block of the call ends. *)
DealWithJump ==
  /\ work # <<>> /\ Current.do = "jump"
  /\ LET g == MakeNewBasicBlock(graph, Current.at)
     IN  /\ graph' = AddEdge(g, Current.block, g.owner[Current.at])
         /\ Doing(<<Task("visit", g.owner[Current.at], Current.at)>>)
  /\ UNCHANGED used

(* A visited instruction: the block falls into another one, or is where it *)
(* was.                                                                    *)
VisitUsed ==
  /\ work # <<>> /\ Current.do = "visit"
  /\ Current.at \in used
  /\ LET other == graph.owner[Current.at]
     IN  graph' = IF other = Current.block THEN graph
                  ELSE AddEdge(Ended(graph, FindFinalVertex(graph, Current.at, Current.block)),
                               Current.block, other)
  /\ Doing(<<>>)
  /\ UNCHANGED used

VisitFallThrough ==
  /\ Visiting({"nop", "calli", "stsfld", "volatile"})
  /\ graph' = Ended(Own, AfterInstr(body, Current.at))
  /\ Doing(<<Task("visit", Current.block, AfterInstr(body, Current.at))>>)

VisitCall ==
  /\ Visiting({"call"})
  /\ graph' = Ended(Own, Current.at)
  /\ Doing(<<Task("jump", Current.block, AfterInstr(body, Current.at))>>)

Throws == failed' = TRUE /\ work' = <<>> /\ UNCHANGED body

(* tail. counts as a call: parseCallSite takes the bytes of the call that  *)
(* follows for a method token, and fails to resolve it.                    *)
VisitTailcall ==
  /\ Visiting({"tail"})
  /\ graph' = Own
  /\ Throws

(* The lookup in OffsetToInstr throws. *)
VisitUndecoded ==
  /\ work # <<>> /\ Current.do = "visit"
  /\ Current.at \notin used /\ ~IsDecoded(Current.at)
  /\ used' = used \cup {Current.at}
  /\ graph' = Own
  /\ Throws

(* Return and ExceptionMechanism. *)
VisitEnd ==
  /\ Visiting({"ret", "throw", "endfinally", "endfilter"})
  /\ graph' = Ended(Own, Current.at)
  /\ Doing(<<>>)

VisitBranch ==
  /\ Visiting(Unconditional)
  /\ graph' = Ended(Own, Current.at)
  /\ Doing(<<Task("jump", Current.block, InstrAt(body, Current.at).to[1])>>)

(* The fall through first, then each target once. *)
VisitConditional ==
  /\ Visiting(Conditional)
  /\ graph' = Ended(Own, Current.at)
  /\ LET all == <<AfterInstr(body, Current.at)>> \o InstrAt(body, Current.at).to
         firsts == SelectSeq([k \in DOMAIN all |-> IF \E j \in 1..(k - 1) : all[j] = all[k]
                                                   THEN -1 ELSE all[k]],
                             LAMBDA v : v # -1)
     IN  Doing([k \in DOMAIN firsts |-> Task("jump", Current.block, firsts[k])])

CfgStep ==
  \/ StartVertex \/ DealWithJump
  \/ VisitUsed \/ VisitFallThrough \/ VisitCall \/ VisitTailcall \/ VisitUndecoded
  \/ VisitEnd \/ VisitBranch \/ VisitConditional

CfgDone == work = <<>>

------------------------------------------------------------------------------
(* sortedBasicBlocks, and the binary search for the block of an offset. *)
Sorted(g) == SortSeq([b \in BlocksOf(g) |-> b], LAMBDA a, b : g.start[a] < g.start[b])

ResolveBasicBlock(g, offset) ==
  LET sorted == Sorted(g)
      n == Len(sorted)
      Start(m) == g.start[sorted[m + 1]]
      Search[l \in -1..n, r \in -1..n] ==
        LET mid == (l + r) \div 2
            leftIsLefter == Start(mid) <= offset
            rightIsRighter == mid + 1 >= n \/ Start(mid + 1) > offset
        IN  IF l >= r THEN l
            ELSE IF leftIsLefter /\ rightIsRighter THEN mid
            ELSE IF ~rightIsRighter THEN Search[mid + 1, r]
            ELSE Search[l, mid - 1]
  IN  sorted[Search[0, n - 1] + 1]

------------------------------------------------------------------------------
(* What the blocks should be, from the definition of a basic block.        *)
Successors(o) ==
  LET instr == InstrAt(body, o)
  IN  (IF instr.op \in Conditional \cup {"nop", "call", "calli", "stsfld", "volatile"}
       THEN {AfterInstr(body, o)} ELSE {})
      \cup {instr.to[k] : k \in DOMAIN instr.to}

Roots == {StartVertices[v] : v \in DOMAIN StartVertices}
ReachableInstrs ==
  LET Grow(S, i) == S \cup UNION {Successors(o) : o \in S}
  IN  FoldLeft(Grow, Roots, body.code)

Leaders ==
  Roots \cup UNION {Successors(o) : o \in {v \in ReachableInstrs :
                                             InstrAt(body, v).op \in Branches \cup {"call"}}}

(* The last instruction of the block of a leader. *)
EndsBlock(o) == \A next \in Successors(o) : next \in Leaders
LastOf(leader) ==
  LET ends == {o \in ReachableInstrs : leader <= o /\ EndsBlock(o)}
  IN  CHOOSE o \in ends : \A other \in ends : o <= other

(* When the traversal has ended, its blocks are the maximal sequences of   *)
(* reachable instructions that are entered at the first and left at the    *)
(* last, its edges are the jumps and falls between them, seen alike from   *)
(* both ends, and no assertion of CFG.fs failed: block splits, whatever    *)
(* the order in which jumps into a block are discovered, lose nothing.     *)
CfgIsCanonical ==
  CfgDone /\ ~failed =>
    /\ graph.sound
    /\ Len(graph.start) = Cardinality(Leaders)
    /\ {<<graph.start[b], graph.final[b]>> : b \in BlocksOf(graph)} =
         {<<leader, LastOf(leader)>> : leader \in Leaders}
    /\ \A b \in BlocksOf(graph) :
         /\ {graph.start[c] : c \in graph.out[b]} = Successors(graph.final[b])
         /\ graph.inc[b] = {c \in BlocksOf(graph) : b \in graph.out[c]}
    /\ \A o \in ReachableInstrs : graph.owner[o] = ResolveBasicBlock(graph, o)
=============================================================================
