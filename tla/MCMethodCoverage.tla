-------------------------- MODULE MCMethodCoverage --------------------------
(* Small valid method bodies for TLC. *)
EXTENDS MethodCoverage

I(op) == [op |-> op, to |-> <<>>]
J(op, target) == [op |-> op, to |-> <<target>>]
S(targets) == [op |-> "switch", to |-> targets]

(* A body a compiler may produce: control does not run off its end, a      *)
(* prefix is followed by its instruction and nothing jumps between them.   *)
IsValid(instrs) ==
  LET n == Len(instrs)
      Target(t) == \E i \in 1..n : \E k \in DOMAIN instrs[i].to : instrs[i].to[k] = t
  IN  /\ instrs[n].op \in {"ret", "throw", "br_s"}
      /\ \A i \in 1..n :
           /\ instrs[i].op = "volatile" => instrs[i + 1].op = "stsfld" /\ ~Target(i + 1)
           /\ instrs[i].op = "tail" => /\ i + 2 <= n
                                       /\ instrs[i + 1].op \in {"call", "calli"} /\ ~Target(i + 1)
                                       /\ instrs[i + 2].op = "ret"

Of(instrs) == MethodBody(instrs, <<>>)

(* Every valid body of n instructions among these. *)
Plain(n, ops) ==
  LET choices == {I(op) : op \in ops \ Branches}
                 \cup {J(op, t) : op \in ops \cap (Branches \ {"switch"}), t \in 1..n}
                 \cup (IF "switch" \in ops THEN {S(<<t, n>>) : t \in 1..n} ELSE {})
  IN  {Of(instrs) : instrs \in {s \in [1..n -> choices] : IsValid(s)}}

(* A tail call whose ret is entered only from it, after each instruction.   *)
TailBodies ==
  {Of(<<first, I("tail"), I(call), I("ret"), I("ret")>>) :
     first \in {I("nop"), I("call"), I("stsfld"), J("brtrue_s", 2), J("brtrue_s", 5), J("br_s", 5)},
     call \in {"call", "calli"}}

(* One protected region: begin, try block, handler, rest. *)
TryBodies ==
  LET ends == {I("call"), I("throw"), I("nop"), I("stsfld")}
      Clause(kind, t, h, f, e) == <<[kind |-> kind, try |-> <<t, f>>, filter |-> f, handler |-> <<h, e>>]>>
  IN  {MethodBody(<<first, x, J("leave_s", 6), y, J("leave_s", 6), I("ret")>>, Clause("catch", t, 4, 4, 6)) :
         first \in {I("nop"), I("call"), J("brtrue_s", 6)}, x \in ends \cup {J("brtrue_s", 2)},
         y \in ends \cup {J("brtrue_s", 4)}, t \in {1, 2}}
      \cup
      {MethodBody(<<x, J("leave_s", 5), y, I("endfinally"), z, I("ret")>>, Clause("finally", 1, 3, 3, 5)) :
         x \in ends \cup {J("br_s", 1), J("brtrue_s", 2)}, y \in ends \cup {J("brtrue_s", 4)},
         z \in {I("nop"), I("call"), J("brtrue_s", 5)}}
      \cup
      {MethodBody(<<x, J("leave_s", 4), I("endfinally"), I("ret")>>, Clause("finally", 1, 3, 3, 4)) : x \in ends}
      \cup
      {MethodBody(<<x, J("leave_s", 7), y, I("endfilter"), z, J("leave_s", 7), I("ret")>>,
                  Clause("filter", 1, 5, 3, 7)) :
         x \in ends, y \in ends \cup {J("brtrue_s", 4)}, z \in ends}

(* Branches over code that grows to what a signed byte can just, or just   *)
(* not, jump over: forwards, backwards, and over another branch whose own  *)
(* growth decides.                                                         *)
Repeat(instr, n) == [i \in 1..n |-> instr]
LongBodies ==
  {Of(<<J("brtrue_s", m + 5)>> \o Repeat(I("call"), 3) \o Repeat(I("nop"), m) \o <<I("ret")>>) :
     m \in 11..14}
  \cup
  {Of(Repeat(I("call"), 3) \o Repeat(I("nop"), m) \o <<J("brtrue_s", 1), I("ret")>>) : m \in 9..12}
  \cup
  {Of(<<J("brtrue_s", m + 5), J("br_s", m + 7)>> \o Repeat(I("call"), 2) \o
      Repeat(I("nop"), m) \o <<I("ret"), I("throw"), I("ret")>>) : m \in 12..16}

(* A switch over m instructions: the last displacement, as an opcode, has   *)
(* an operand or not.                                                      *)
SwitchOver(m) == Of(<<S(<<2, m + 2>>)>> \o Repeat(I("nop"), m) \o <<I("ret")>>)

MCBodies ==
  UNION {Plain(n, {"nop", "call", "calli", "stsfld", "volatile", "ret", "throw",
                   "br_s", "brtrue_s", "switch"}) : n \in 1..3}
  \cup Plain(4, {"nop", "call", "br_s", "brtrue_s", "ret"})
  \cup TailBodies \cup TryBodies \cup LongBodies
  \cup {SwitchOver(m) : m \in {13, 14, 31, 32, 33}}

(* A branch to the ret of a tail call. *)
TailTargetBodies ==
  {Of(<<J("brtrue_s", 4), I("tail"), I("call"), I("ret")>>)}
=============================================================================
