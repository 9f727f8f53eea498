------------------------- MODULE MCExecutorService -------------------------
(***************************************************************************)
(* Two request threads with short batches from a small pool of tests, and  *)
(* one thread with one test over every graph of three arrays.              *)
(***************************************************************************)
EXTENDS ExecutorService

CONSTANTS t1, t2, mA, mB, mC, mN, mG, a1, a2, a3, e1, T, E, d1

MCObjects == 1 .. 3
MCKey == [o \in MCObjects |-> o]

(* a1, a2 and a3 are arrays, e1 is an exception.                           *)
MCTypeOf == [a \in {a1, a2, a3, e1} |-> IF a = e1 THEN E ELSE T]
MCSizeOf == [a \in {a1, a2, a3, e1} |-> IF a = e1 THEN 0 ELSE IF a = a3 THEN 1 ELSE 2]

(* mA, mC and mG are methods of one module, mB of another one; mN is not   *)
(* found and mG has no graph.  Exceptions come from an assembly of theirs. *)
Info(token, module) == [token |-> token, assembly |-> <<"s">>, module |-> module]
MCInfoOf == [m \in {mA, mB, mC, mN, mG} |->
               CASE m = mA -> Info(1, <<"p">>)
                 [] m = mB -> Info(1, <<"q", "r">>)
                 [] m = mC -> Info(2, <<"p">>)
                 [] m = mN -> Info(0, <<"p">>)
                 [] m = mG -> Info(3, <<"p">>)]
MCExpectedCoverage == [m \in {mA, mB, mC, mN, mG} |-> IF m = mC THEN None ELSE 2]
MCAssemblyOf == [type \in {T, E} |-> IF type = E THEN <<"r">> ELSE <<"s">>]

(* One that resolves to a block of mA, one that does not resolve.          *)
Stray(table) ==
  [methods |-> table,
   reports |-> <<[threadId |-> 0, records |-> <<[method |-> 0, offset |-> 7]>>]>>]
MCGarbage == {Stray(0 :> MCInfoOf[mA]), Stray(<<>>)}

-----------------------------------------------------------------------------
(* Calls: of a method that returns, of one that throws.                    *)
B(n) == <<[kind |-> "block", offset |-> n]>>
Call(m, inside) == <<[kind |-> "enter", method |-> m]>> \o inside \o <<[kind |-> "leave"]>>
Cut(m, inside) == <<[kind |-> "enter", method |-> m]>> \o inside \o <<[kind |-> "unwind"]>>

Outcome(kind, writes, value, type, trace) ==
  [kind |-> kind, writes |-> writes, value |-> value, type |-> type, trace |-> trace]
Give(writes, value, trace) == Outcome("returns", writes, value, None, trace)
Raise(trace) == Outcome("throws", <<>>, Null, E, trace)
Reject == Outcome("rejects", <<>>, Null, None, <<>>)

TestOf(method, arrange, args, expected, outcomes) ==
  [method |-> method, arrange |-> arrange, args |-> args, expected |-> expected,
   outcomes |-> outcomes]

Set(a, i, v) == [instance |-> a, index |-> i, value |-> v]

Equal    == TestOf(mA, <<Set(a1, 1, d1)>>, <<a1>>, d1,
                   {Give(<<>>, d1, Call(mA, B(1) \o Call(mA, B(2)))),
                    Give(<<>>, Null, Call(mA, B(1)))})
Raising  == TestOf(mA, <<>>, <<>>, e1, {Raise(Cut(mA, B(1))), Reject})
Surprise == TestOf(mB, <<>>, <<>>, d1, {Raise(Cut(mB, B(1) \o B(3)))})
Nameless == TestOf(mB, <<Set(a1, 1, Unknown)>>, <<a1>>, d1, {Reject})
TooFar   == TestOf(mB, <<Set(a3, 2, d1)>>, <<a3>>, d1, {Reject})
Writing  == TestOf(mB, <<Set(a1, 1, a2), Set(a2, 1, a1)>>, <<a1>>, a1,
                   {Give(<<Set(a2, 2, d1)>>, a2, Call(mB, B(2) \o Call(mA, B(1)))),
                    Give(<<Set(a1, 1, Null)>>, a3, Call(mB, Cut(mA, B(1)) \o B(2)))})
Untagged == TestOf(mC, <<>>, <<>>, Null, {Give(<<>>, Null, Call(mC, B(1)))})
Absent   == TestOf(mN, <<>>, <<>>, Null, {Reject})
Tangled  == TestOf(mG, <<>>, <<>>, Null, {Reject})

Pool == <<None, <<>>, <<Equal>>, <<Raising, Surprise>>, <<Nameless>>, <<TooFar, Writing>>,
          <<Untagged, Absent>>, <<Absent>>, <<Tangled>>>>

(* Every array of a graph has Null, d1 or an array in every element.       *)
Elements == {Null, d1, a1, a2, a3}
Graphs == {<<Set(a1, 1, v[1]), Set(a1, 2, v[2]), Set(a2, 1, v[3]), Set(a2, 2, v[4]),
             Set(a3, 1, v[5])>> : v \in [1 .. 5 -> Elements]}

Twin(graph) == <<TestOf(mA, graph, <<a1>>, a1, {Give(<<>>, a2, Call(mA, B(1)))})>>

(* Any two of the pool; which thread gets which of them is no difference.  *)
Pairs == {p \in (1 .. Len(Pool)) \X (1 .. Len(Pool)) : p[1] <= p[2]}

MCBatches ==
  {(t1 :> Pool[p[1]]) @@ (t2 :> Pool[p[2]]) : p \in Pairs}
    \cup {(t1 :> Twin(g)) @@ (t2 :> None) : g \in Graphs}
=============================================================================
