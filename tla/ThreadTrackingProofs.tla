------------------------ MODULE ThreadTrackingProofs ------------------------
(***************************************************************************)
(* Proofs of the invariants of ThreadTracking: in programs with one main,  *)
(* compiled to one function, that raise no exception in a finally block,   *)
(* the profiler follows every thread, for any number of threads, any depth *)
(* of the stack and any nesting of filters.                                *)
(***************************************************************************)
EXTENDS ThreadTrackerProofs

(* The environment the claims are made for; what breaks without each part  *)
(* is in the README.                                                       *)
Confined ==
  /\ \E m \in Methods : Mains = {m}
  /\ \A f, g \in Functions : MethodOf[f] \in Mains /\ MethodOf[g] \in Mains => f = g
  /\ \A f \in TailCallees : MethodOf[f] \in Mains
  /\ EscapeDepth <= 1
  /\ ~FinallyThrows

(* And for the assertions: nobody else calls main, and Invoke enters it.   *)
Invoked == Spawned = {} /\ ~InvokeFails

-----------------------------------------------------------------------------
(* The parts of the inductive invariant.  They speak of one thread: s is   *)
(* its stack, e the exception in flight, r its tracker; P is the set of    *)
(* functions with probes.                                                  *)
MainEntry(P, x) == x.kind = "method" /\ x.fn \in P

MainFrames(P, s, n) == {i \in 1..n : MainEntry(P, s[i])}

FiltersAbove(P, s, n) ==
  {i \in 1..n : s[i].kind = "filter" /\ \E j \in 1..i : MainEntry(P, s[j])}

(* An exception e that goes through the first n entries of s: only methods *)
(* are between it and its target, or the one filter it escapes from.       *)
InFlight(P, s, n, e) ==
  /\ e.target <= n
  /\ \A i \in (e.target + 1)..n :
       \/ s[i].kind = "method"
       \/ /\ i = e.target + 1 /\ s[i].kind = "filter"
          /\ Cardinality(MainFrames(P, s, i)) <= 1

(* Funclets wait for exceptions in flight, and never above a finally. *)
Nesting(P, s, e) ==
  /\ e.phase # "none" => /\ InFlight(P, s, Len(s), e)
                         /\ \A j \in 1..Len(s) : s[j].kind # "finally"
  /\ \A i \in 1..Len(s) :
       /\ s[i].kind # "method" => /\ InFlight(P, s, i - 1, s[i].resume)
                                  /\ \A j \in 1..(i - 1) : s[j].kind # "finally"
       /\ s[i].kind = "filter" => s[i].resume.phase = "search"
       /\ s[i].kind = "finally" => s[i].resume.phase = "entered"

Frames(P, s)  == Cardinality(MainFrames(P, s, Len(s)))
Filters(P, s) == Cardinality(FiltersAbove(P, s, Len(s)))

(* The storages count frames and filters. *)
Counting(P, s, e, r) ==
  /\ r.balance = IF Frames(P, s) = 0 THEN None ELSE Frames(P, s)
  /\ r.inFilter = IF Frames(P, s) = 0 THEN None
                  ELSE Filters(P, s) + (IF e.phase = "swallowed" THEN 1 ELSE 0)

(* UnwindFunctionLeave finds the function that was entered, also after     *)
(* finally blocks that called main themselves.                             *)
Leaving(P, s, e, r) ==
  /\ e.phase = "entered" /\ Frames(P, s) # 0 => r.unwind = s[Len(s)].fn
  /\ \A i \in 1..Len(s) :
       s[i].kind = "finally" /\ MainFrames(P, s, i - 1) # {} => r.unwind = s[i - 1].fn

(* The history of an invocation exists while main is on the stack, and its *)
(* records are of this invocation, the nth; those before it were reported. *)
Reporting(P, s, r, n) ==
  /\ r.coverage = IF Frames(P, s) = 0 THEN None ELSE [of |-> {n}]
  /\ Frames(P, s) # 0 => n > 0
  /\ Len(r.reports) = IF Frames(P, s) = 0 THEN n ELSE n - 1
  /\ \A i \in 1..Len(r.reports) : r.reports[i].of = {i}

Following(P, s, e, r, n) ==
  /\ Nesting(P, s, e) /\ Counting(P, s, e, r) /\ Leaving(P, s, e, r) /\ Reporting(P, s, r, n)

(* A thread is mapped from SetCurrentThreadId to the end of main, which is *)
(* the first frame of a thread unless the run is passive.                  *)
Mapping(P, s, r, a, q) ==
  /\ a => s = <<>> /\ q # None
  /\ q # None => s = <<>> /\ entryMain # None
  /\ isPassiveRun => q = None
  /\ ~isPassiveRun => /\ (r.threadId # None) <=> (a \/ s # <<>>)
                      /\ s # <<>> => MainEntry(P, s[1])

OneMain ==
  /\ entryMain \in Mains \cup {None}
  /\ \A f \in Functions : f \in probed <=> f = mainFunctionId
  /\ \A f \in probed : MethodOf[f] \in Mains
  /\ \A t \in Threads : \A i \in 1..Len(stack[t]) : stack[t][i].fn \in compiled

MainsAreProbed ==
  /\ isPassiveRun => entryMain # None
  /\ entryMain = None => compiled = {}
  /\ \A f \in compiled : MethodOf[f] \in Mains => f \in probed

Followed == \A t \in Threads : Following(probed, stack[t], exn[t], tracker[t], started[t])

Mapped == \A t \in Threads : Mapping(probed, stack[t], tracker[t], armed[t], request[t])

-----------------------------------------------------------------------------
(* Frames and filters can be counted; without main no filter is above it.  *)
LEMMA FiniteParts ==
  ASSUME NEW P, NEW s, NEW n \in Nat
  PROVE  /\ IsFiniteSet(MainFrames(P, s, n)) /\ IsFiniteSet(FiltersAbove(P, s, n))
         /\ Cardinality(MainFrames(P, s, n)) \in Nat /\ Cardinality(FiltersAbove(P, s, n)) \in Nat
         /\ Cardinality(MainFrames(P, s, n)) = 0 <=> MainFrames(P, s, n) = {}
         /\ MainFrames(P, s, n) = {} => Cardinality(FiltersAbove(P, s, n)) = 0
<1>1. IsFiniteSet(1..n) BY FS_Interval
<1>2. MainFrames(P, s, n) \subseteq 1..n /\ FiltersAbove(P, s, n) \subseteq 1..n
  BY DEF MainFrames, FiltersAbove
<1>3. IsFiniteSet(MainFrames(P, s, n)) /\ IsFiniteSet(FiltersAbove(P, s, n))
  BY <1>1, <1>2, FS_Subset
<1>4. MainFrames(P, s, n) = {} => FiltersAbove(P, s, n) = {}
  BY DEF MainFrames, FiltersAbove
<1>5. QED BY <1>3, <1>4, FS_CardinalityType, FS_EmptySet

(* What is said of the first entries depends on these entries only.        *)
LEMMA Alike ==
  ASSUME NEW P, NEW Q, NEW s, NEW u, NEW n \in Nat,
         \A i \in 1..n : /\ s[i].kind = u[i].kind
                         /\ MainEntry(P, s[i]) <=> MainEntry(Q, u[i])
  PROVE  \A m \in 0..n : /\ MainFrames(P, s, m) = MainFrames(Q, u, m)
                         /\ FiltersAbove(P, s, m) = FiltersAbove(Q, u, m)
                         /\ \A e \in Exns : InFlight(P, s, m, e) => InFlight(Q, u, m, e)
<1>1. \A m \in 0..n : /\ MainFrames(P, s, m) = MainFrames(Q, u, m)
                      /\ FiltersAbove(P, s, m) = FiltersAbove(Q, u, m)
  BY DEF MainFrames, FiltersAbove
<1>2. ASSUME NEW m \in 0..n, NEW e \in Exns, InFlight(P, s, m, e) PROVE InFlight(Q, u, m, e)
  <2>1. e.target \in Nat BY DEF Exns
  <2>2. \A i \in (e.target + 1)..m : i \in 1..n /\ i \in 0..n BY <2>1
  <2>3. QED BY <1>1, <1>2, <2>1, <2>2 DEF InFlight
<1>3. QED BY <1>1, <1>2

(* What a push adds to the counts.                                         *)
LEMMA PushCount ==
  ASSUME NEW P, NEW s \in Seq(Entries), NEW x \in Entries
  PROVE  /\ Frames(P, s) \in Nat /\ Filters(P, s) \in Nat
         /\ Frames(P, s) = 0 <=> MainFrames(P, s, Len(s)) = {}
         /\ Frames(P, s) = 0 => Filters(P, s) = 0
         /\ Frames(P, Append(s, x)) = Frames(P, s) + (IF MainEntry(P, x) THEN 1 ELSE 0)
         /\ Filters(P, Append(s, x)) =
              Filters(P, s) + (IF x.kind = "filter" /\ Frames(P, s) # 0 THEN 1 ELSE 0)
         /\ \A m \in 0..Len(s) : /\ MainFrames(P, Append(s, x), m) = MainFrames(P, s, m)
                                 /\ \A e \in Exns : InFlight(P, s, m, e) <=> InFlight(P, Append(s, x), m, e)
<1> DEFINE n == Len(s)
           u == Append(s, x)
<1>1. /\ n \in Nat /\ Len(u) = n + 1 /\ u[n + 1] = x
      /\ \A i \in 1..n : u[i] = s[i]
  BY PushFacts
<1> HIDE DEF u, n
<1>2. \A m \in 0..n : /\ MainFrames(P, u, m) = MainFrames(P, s, m)
                      /\ FiltersAbove(P, u, m) = FiltersAbove(P, s, m)
                      /\ \A e \in Exns : InFlight(P, s, m, e) <=> InFlight(P, u, m, e)
  <2>1. \A m \in 0..n : /\ MainFrames(P, s, m) = MainFrames(P, u, m)
                        /\ FiltersAbove(P, s, m) = FiltersAbove(P, u, m)
                        /\ \A e \in Exns : InFlight(P, s, m, e) => InFlight(P, u, m, e)
    BY <1>1, Alike
  <2>2. \A m \in 0..n : \A e \in Exns : InFlight(P, u, m, e) => InFlight(P, s, m, e)
    BY <1>1, Alike
  <2>3. QED BY <2>1, <2>2
<1>3. MainFrames(P, u, n + 1) = IF MainEntry(P, x) THEN MainFrames(P, s, n) \cup {n + 1}
                                ELSE MainFrames(P, s, n)
  BY <1>1 DEF MainFrames
<1>4. FiltersAbove(P, u, n + 1) =
        IF x.kind = "filter" /\ MainFrames(P, s, n) # {}
        THEN FiltersAbove(P, s, n) \cup {n + 1} ELSE FiltersAbove(P, s, n)
  <2>1. (x.kind = "filter" /\ \E j \in 1..(n + 1) : MainEntry(P, u[j]))
          <=> (x.kind = "filter" /\ MainFrames(P, s, n) # {})
    BY <1>1 DEF MainFrames, MainEntry
  <2>2. \A i \in 1..n : (\E j \in 1..i : MainEntry(P, u[j])) <=> (\E j \in 1..i : MainEntry(P, s[j]))
    BY <1>1
  <2>3. \A i \in 1..(n + 1) : i \in FiltersAbove(P, u, n + 1) <=>
          \/ i \in 1..n /\ i \in FiltersAbove(P, s, n)
          \/ i = n + 1 /\ x.kind = "filter" /\ MainFrames(P, s, n) # {}
    BY <1>1, <2>1, <2>2 DEF FiltersAbove
  <2>4. FiltersAbove(P, u, n + 1) \subseteq 1..(n + 1) /\ FiltersAbove(P, s, n) \subseteq 1..n
    BY DEF FiltersAbove
  <2> DEFINE new == FiltersAbove(P, u, n + 1)
             old == FiltersAbove(P, s, n)
             counted == x.kind = "filter" /\ MainFrames(P, s, n) # {}
  <2>5. \A i : i \in new <=> i \in old \/ (i = n + 1 /\ counted)
    BY <1>1, <2>3, <2>4
  <2> HIDE DEF new, old, counted
  <2>6. new = IF counted THEN old \cup {n + 1} ELSE old BY <2>5
  <2>7. QED BY <2>6 DEF new, old, counted
<1>5. /\ n + 1 \notin MainFrames(P, s, n) /\ n + 1 \notin FiltersAbove(P, s, n)
  BY <1>1 DEF MainFrames, FiltersAbove
<1>6. /\ IsFiniteSet(MainFrames(P, s, n)) /\ IsFiniteSet(FiltersAbove(P, s, n))
      /\ Cardinality(MainFrames(P, s, n)) \in Nat /\ Cardinality(FiltersAbove(P, s, n)) \in Nat
      /\ Cardinality(MainFrames(P, s, n)) = 0 <=> MainFrames(P, s, n) = {}
      /\ MainFrames(P, s, n) = {} => Cardinality(FiltersAbove(P, s, n)) = 0
  BY <1>1, FiniteParts
<1>7. /\ Cardinality(MainFrames(P, s, n) \cup {n + 1}) = Cardinality(MainFrames(P, s, n)) + 1
      /\ Cardinality(FiltersAbove(P, s, n) \cup {n + 1}) = Cardinality(FiltersAbove(P, s, n)) + 1
  BY <1>5, <1>6, FS_AddElement
<1>8. /\ Frames(P, s) = Cardinality(MainFrames(P, s, n))
      /\ Filters(P, s) = Cardinality(FiltersAbove(P, s, n))
      /\ Frames(P, u) = Cardinality(MainFrames(P, u, n + 1))
      /\ Filters(P, u) = Cardinality(FiltersAbove(P, u, n + 1))
  BY <1>1 DEF Frames, Filters, n
<1>9. Frames(P, u) = Frames(P, s) + (IF MainEntry(P, x) THEN 1 ELSE 0)
  BY <1>3, <1>6, <1>7, <1>8
<1>10. Filters(P, u) = Filters(P, s) + (IF x.kind = "filter" /\ Frames(P, s) # 0 THEN 1 ELSE 0)
  BY <1>4, <1>6, <1>7, <1>8
<1>11. QED BY <1>2, <1>6, <1>8, <1>9, <1>10 DEF u, n

(* A pop is undone by a push. *)
LEMMA PopCount ==
  ASSUME NEW P, NEW s \in Seq(Entries), s # <<>>
  PROVE  LET p == Pop(s)
             x == s[Len(s)]
         IN  /\ Frames(P, p) \in Nat /\ Filters(P, p) \in Nat
             /\ Frames(P, p) = 0 <=> MainFrames(P, p, Len(p)) = {}
             /\ Frames(P, p) = 0 => Filters(P, p) = 0
             /\ Frames(P, s) = Frames(P, p) + (IF MainEntry(P, x) THEN 1 ELSE 0)
             /\ Filters(P, s) =
                  Filters(P, p) + (IF x.kind = "filter" /\ Frames(P, p) # 0 THEN 1 ELSE 0)
             /\ \A m \in 0..(Len(s) - 1) :
                  /\ MainFrames(P, s, m) = MainFrames(P, p, m)
                  /\ \A e \in Exns : InFlight(P, s, m, e) <=> InFlight(P, p, m, e)
<1> DEFINE p == Pop(s)
           x == s[Len(s)]
<1>1. /\ p \in Seq(Entries) /\ Len(s) \in Nat /\ Len(s) >= 1 /\ Len(p) = Len(s) - 1
      /\ \A i \in 1..(Len(s) - 1) : p[i] = s[i]
      /\ x \in Entries
  <2>1. Len(s) \in Nat /\ Len(s) >= 1 BY PopFacts
  <2>2. QED BY <2>1, PopFacts
<1> HIDE DEF p, x
<1>2. s = Append(p, x)
  <2>1. /\ Append(p, x) \in Seq(Entries) /\ Len(Append(p, x)) = Len(s)
        /\ \A i \in 1..(Len(s) - 1) : Append(p, x)[i] = s[i]
        /\ Append(p, x)[Len(s)] = x
    <3>1. Len(p) + 1 = Len(s) BY <1>1
    <3>2. QED BY <1>1, <3>1, PushFacts
  <2>2. \A i \in 1..Len(s) : Append(p, x)[i] = s[i] BY <1>1, <2>1 DEF x
  <2>3. QED BY <2>1, <2>2, SeqEqual
<1>3. Len(p) = Len(s) - 1 BY <1>1
<1>4. /\ Frames(P, p) \in Nat /\ Filters(P, p) \in Nat
      /\ Frames(P, p) = 0 <=> MainFrames(P, p, Len(p)) = {}
      /\ Frames(P, p) = 0 => Filters(P, p) = 0
      /\ Frames(P, s) = Frames(P, p) + (IF MainEntry(P, x) THEN 1 ELSE 0)
      /\ Filters(P, s) = Filters(P, p) + (IF x.kind = "filter" /\ Frames(P, p) # 0 THEN 1 ELSE 0)
      /\ \A m \in 0..Len(p) : /\ MainFrames(P, s, m) = MainFrames(P, p, m)
                              /\ \A e \in Exns : InFlight(P, p, m, e) <=> InFlight(P, s, m, e)
  <2>1. p \in Seq(Entries) /\ x \in Entries BY <1>1
  <2>2. QED BY <1>2, <2>1, PushCount
<1>5. QED BY <1>3, <1>4 DEF p, x

(* A call, a filter and a finally keep the order of what waits for what.   *)
LEMMA PushNesting ==
  ASSUME NEW P, NEW s \in Seq(Entries), NEW x \in Entries, NEW e \in Exns, NEW f \in Exns,
         Nesting(P, s, e), f.phase = "none",
         \/ x.kind = "method" /\ e.phase = "none"
         \/ x.kind = "filter" /\ e.phase = "search" /\ x.resume = e
         \/ x.kind = "finally" /\ e.phase = "entered" /\ x.resume = e
  PROVE  Nesting(P, Append(s, x), f)
<1> DEFINE u == Append(s, x)
           n == Len(s)
<1>1. /\ n \in Nat /\ Len(u) = n + 1 /\ u[n + 1] = x
      /\ \A i \in 1..n : u[i] = s[i] /\ s[i] \in Entries
  BY PushFacts
<1>2. \A m \in 0..n : \A g \in Exns : InFlight(P, s, m, g) => InFlight(P, u, m, g)
  BY PushCount
<1> HIDE DEF u, n
<1>3. \A i \in 1..n : i - 1 \in 0..n /\ s[i].resume \in Exns BY <1>1 DEF Entries
<1>4. ASSUME NEW i \in 1..n
      PROVE  /\ u[i].kind # "method" => /\ InFlight(P, u, i - 1, u[i].resume)
                                        /\ \A j \in 1..(i - 1) : u[j].kind # "finally"
             /\ u[i].kind = "filter" => u[i].resume.phase = "search"
             /\ u[i].kind = "finally" => u[i].resume.phase = "entered"
  <2>1. u[i] = s[i] /\ \A j \in 1..(i - 1) : u[j] = s[j] BY <1>1
  <2>2. /\ s[i].kind # "method" => /\ InFlight(P, s, i - 1, s[i].resume)
                                   /\ \A j \in 1..(i - 1) : s[j].kind # "finally"
        /\ s[i].kind = "filter" => s[i].resume.phase = "search"
        /\ s[i].kind = "finally" => s[i].resume.phase = "entered"
    BY DEF Nesting, n
  <2>3. QED BY <1>2, <1>3, <2>1, <2>2
<1>5. /\ x.kind # "method" => /\ InFlight(P, u, n, x.resume)
                              /\ \A j \in 1..n : u[j].kind # "finally"
      /\ x.kind = "filter" => x.resume.phase = "search"
      /\ x.kind = "finally" => x.resume.phase = "entered"
  <2>1. CASE x.kind = "method" BY <2>1
  <2>2. CASE x.kind # "method"
    <3>1. x.resume = e /\ e.phase # "none" BY <2>2
    <3>2. InFlight(P, s, n, e) /\ \A j \in 1..n : s[j].kind # "finally"
      BY <3>1 DEF Nesting, n
    <3>3. QED BY <1>1, <1>2, <2>2, <3>1, <3>2
  <2>3. QED BY <2>1, <2>2
<1>6. \A i \in 1..Len(u) : i \in 1..n \/ i = n + 1 BY <1>1
<1>7. n + 1 - 1 = n BY <1>1
<1>8. Nesting(P, u, f) BY <1>1, <1>4, <1>5, <1>6, <1>7 DEF Nesting
<1>9. QED BY <1>8 DEF u

(* So does their end, when the exception that goes on is in flight.        *)
LEMMA PopNesting ==
  ASSUME NEW P, NEW s \in Seq(Entries), s # <<>>, NEW e \in Exns, NEW f \in Exns,
         Nesting(P, s, e),
         f.phase # "none" => /\ InFlight(P, s, Len(s) - 1, f)
                             /\ \A j \in 1..(Len(s) - 1) : s[j].kind # "finally"
  PROVE  Nesting(P, Pop(s), f)
<1> DEFINE p == Pop(s)
           n == Len(s) - 1
<1>1. /\ p \in Seq(Entries) /\ n \in Nat /\ Len(p) = n /\ Len(s) = n + 1
      /\ \A i \in 1..n : p[i] = s[i] /\ s[i] \in Entries
  BY PopFacts
<1>2. \A m \in 0..n : \A g \in Exns : InFlight(P, s, m, g) => InFlight(P, p, m, g)
  BY PopCount
<1>3. \A i \in 1..n : i - 1 \in 0..n /\ s[i].resume \in Exns BY <1>1 DEF Entries
<1>4. f.phase # "none" => InFlight(P, s, n, f) /\ \A j \in 1..n : s[j].kind # "finally"
  OBVIOUS
<1> HIDE DEF p, n
<1>5. ASSUME NEW i \in 1..n
      PROVE  /\ p[i].kind # "method" => /\ InFlight(P, p, i - 1, p[i].resume)
                                        /\ \A j \in 1..(i - 1) : p[j].kind # "finally"
             /\ p[i].kind = "filter" => p[i].resume.phase = "search"
             /\ p[i].kind = "finally" => p[i].resume.phase = "entered"
  <2>1. p[i] = s[i] /\ \A j \in 1..(i - 1) : p[j] = s[j] BY <1>1
  <2>2. i \in 1..Len(s) BY <1>1
  <2>3. /\ s[i].kind # "method" => /\ InFlight(P, s, i - 1, s[i].resume)
                                   /\ \A j \in 1..(i - 1) : s[j].kind # "finally"
        /\ s[i].kind = "filter" => s[i].resume.phase = "search"
        /\ s[i].kind = "finally" => s[i].resume.phase = "entered"
    BY <2>2 DEF Nesting
  <2>4. QED BY <1>2, <1>3, <2>1, <2>3
<1>6. f.phase # "none" => InFlight(P, p, n, f) /\ \A j \in 1..n : p[j].kind # "finally"
  BY <1>1, <1>2, <1>4
<1>7. Nesting(P, p, f) BY <1>1, <1>5, <1>6 DEF Nesting
<1>8. QED BY <1>7 DEF p

(* Who finds which function, after a push and after a pop.                 *)
LEMMA PushLeaving ==
  ASSUME NEW P, NEW s \in Seq(Entries), NEW x \in Entries, NEW e \in Exns, NEW f \in Exns,
         NEW r, NEW q, Leaving(P, s, e, r), f.phase # "entered", q.unwind = r.unwind,
         x.kind = "finally" => e.phase = "entered"
  PROVE  Leaving(P, Append(s, x), f, q)
<1> DEFINE u == Append(s, x)
           n == Len(s)
<1>1. /\ n \in Nat /\ Len(u) = n + 1 /\ u[n + 1] = x
      /\ \A i \in 1..n : u[i] = s[i]
  BY PushFacts
<1>2. /\ \A m \in 0..n : MainFrames(P, u, m) = MainFrames(P, s, m)
      /\ Frames(P, s) = 0 <=> MainFrames(P, s, n) = {}
  BY PushCount
<1>3. /\ e.phase = "entered" /\ Frames(P, s) # 0 => r.unwind = s[n].fn
      /\ \A i \in 1..n : s[i].kind = "finally" /\ MainFrames(P, s, i - 1) # {} => r.unwind = s[i - 1].fn
  BY DEF Leaving, n
<1> HIDE DEF u, n
<1>4. ASSUME NEW i \in 1..n, u[i].kind = "finally", MainFrames(P, u, i - 1) # {}
      PROVE  q.unwind = u[i - 1].fn
  <2>1. i - 1 \in 0..n /\ u[i] = s[i] BY <1>1
  <2>2. MainFrames(P, s, i - 1) # {} BY <1>2, <1>4, <2>1
  <2>3. i - 1 \in 1..n BY <1>1, <2>1, <2>2 DEF MainFrames
  <2>4. QED BY <1>1, <1>3, <1>4, <2>1, <2>2, <2>3
<1>5. ASSUME x.kind = "finally", MainFrames(P, u, n) # {}
      PROVE  q.unwind = u[n].fn
  <2>1. MainFrames(P, s, n) # {} BY <1>1, <1>2, <1>5
  <2>2. n \in 1..n BY <1>1, <2>1 DEF MainFrames
  <2>3. QED BY <1>1, <1>2, <1>3, <1>5, <2>1, <2>2
<1>6. \A i \in 1..Len(u) : i \in 1..n \/ i = n + 1 BY <1>1
<1>7. n + 1 - 1 = n BY <1>1
<1>8. Leaving(P, u, f, q) BY <1>1, <1>4, <1>5, <1>6, <1>7 DEF Leaving
<1>9. QED BY <1>8 DEF u

(* A finally that returns hands the function back to its exception.        *)
LEMMA PopLeaving ==
  ASSUME NEW P, NEW s \in Seq(Entries), s # <<>>, NEW e \in Exns, NEW f \in Exns,
         NEW r, NEW q, Leaving(P, s, e, r),
         \/ q.unwind = r.unwind
         \/ \A j \in 1..(Len(s) - 1) : s[j].kind # "finally",
         f.phase = "entered" => s[Len(s)].kind = "finally" /\ q.unwind = r.unwind
  PROVE  Leaving(P, Pop(s), f, q)
<1> DEFINE p == Pop(s)
           n == Len(s) - 1
<1>1. /\ n \in Nat /\ Len(p) = n /\ Len(s) = n + 1
      /\ \A i \in 1..n : p[i] = s[i]
  <2>1. /\ Len(s) \in Nat /\ Len(s) >= 1 /\ Len(p) = Len(s) - 1
        /\ \A i \in 1..(Len(s) - 1) : p[i] = s[i]
    BY PopFacts
  <2>2. QED BY <2>1
<1>2. /\ \A m \in 0..n : MainFrames(P, s, m) = MainFrames(P, p, m)
      /\ Frames(P, p) = 0 <=> MainFrames(P, p, n) = {}
  BY <1>1, PopCount
<1>3. \A i \in 1..Len(s) : s[i].kind = "finally" /\ MainFrames(P, s, i - 1) # {} => r.unwind = s[i - 1].fn
  BY DEF Leaving
<1>4. /\ q.unwind = r.unwind \/ \A j \in 1..n : s[j].kind # "finally"
      /\ f.phase = "entered" => s[n + 1].kind = "finally" /\ q.unwind = r.unwind
  BY <1>1
<1> HIDE DEF p, n
<1>5. ASSUME NEW i \in 1..n, p[i].kind = "finally", MainFrames(P, p, i - 1) # {}
      PROVE  q.unwind = p[i - 1].fn
  <2>1. i - 1 \in 0..n /\ p[i] = s[i] /\ i \in 1..Len(s) BY <1>1
  <2>2. MainFrames(P, s, i - 1) # {} BY <1>2, <1>5, <2>1
  <2>3. i - 1 \in 1..n BY <1>1, <2>1, <2>2 DEF MainFrames
  <2>4. QED BY <1>1, <1>3, <1>4, <1>5, <2>1, <2>2, <2>3
<1>6. ASSUME f.phase = "entered", Frames(P, p) # 0
      PROVE  q.unwind = p[n].fn
  <2>1. MainFrames(P, s, n) # {} BY <1>1, <1>2, <1>6
  <2>2. n \in 1..n /\ n + 1 \in 1..Len(s) /\ n + 1 - 1 = n BY <1>1, <2>1 DEF MainFrames
  <2>3. QED BY <1>1, <1>3, <1>4, <1>6, <2>1, <2>2
<1>7. Leaving(P, p, f, q) BY <1>1, <1>5, <1>6 DEF Leaving
<1>8. QED BY <1>7 DEF p

(* What the storages hold of a thread that is followed. *)
Known(P, s, e, r, n) ==
  /\ Frames(P, s) \in Nat /\ Filters(P, s) \in Nat
  /\ Frames(P, s) = 0 => /\ r.balance = None /\ r.inFilter = None /\ r.coverage = None
                         /\ Len(r.reports) = n
  /\ Frames(P, s) # 0 => /\ r.balance = Frames(P, s) /\ r.balance # None
                         /\ r.inFilter = Filters(P, s) + (IF e.phase = "swallowed" THEN 1 ELSE 0)
                         /\ r.inFilter # None
                         /\ r.coverage = [of |-> {n}] /\ r.coverage \in Histories
                         /\ r.coverage # None
                         /\ n > 0 /\ Len(r.reports) = n - 1
  /\ \A i \in 1..Len(r.reports) : r.reports[i].of = {i}

(* What Following says, by cases on the frames of main.                    *)
LEMMA FollowingFacts ==
  ASSUME NEW P, NEW s \in Seq(Entries), NEW e, NEW r, NEW n \in Nat,
         Following(P, s, e, r, n)
  PROVE  Known(P, s, e, r, n)
<1>1. Len(s) \in Nat OBVIOUS
<1>2. Frames(P, s) \in Nat /\ Filters(P, s) \in Nat BY <1>1, FiniteParts DEF Frames, Filters
<1>3. None \notin Int /\ None \notin Histories /\ [of |-> {n}] \in Histories
  BY TrackingAssumption DEF Histories
<1>4. Counting(P, s, e, r) /\ Reporting(P, s, r, n) BY DEF Following
<1>5. CASE Frames(P, s) = 0 BY <1>2, <1>4, <1>5 DEF Counting, Reporting, Known
<1>6. CASE Frames(P, s) # 0
  <2> DEFINE pending == IF e.phase = "swallowed" THEN 1 ELSE 0
  <2>1. pending \in Nat OBVIOUS
  <2>2. r.balance = Frames(P, s) /\ r.inFilter = Filters(P, s) + pending
    BY <1>4, <1>6 DEF Counting
  <2>3. /\ r.coverage = [of |-> {n}] /\ n > 0 /\ Len(r.reports) = n - 1
        /\ \A i \in 1..Len(r.reports) : r.reports[i].of = {i}
    BY <1>4, <1>6 DEF Reporting
  <2> HIDE DEF pending
  <2>4. /\ r.balance # None /\ r.inFilter # None /\ r.coverage \in Histories
        /\ r.coverage # None
    <3>1. Frames(P, s) \in Int /\ Filters(P, s) + pending \in Int BY <1>2, <2>1
    <3>2. r.balance \in Int /\ r.inFilter \in Int BY <2>2, <3>1
    <3>3. r.coverage \in Histories BY <1>3, <2>3
    <3>4. QED BY <1>3, <3>2, <3>3
  <2>5. QED BY <1>2, <1>6, <2>2, <2>3, <2>4 DEF Known, pending
<1>7. QED BY <1>5, <1>6

(* A report added to the exact reports before it. *)
LEMMA NextReport ==
  ASSUME NEW r \in Slots, NEW n \in Nat, n > 0, Len(r.reports) = n - 1, NEW id \in Int,
         \A i \in 1..Len(r.reports) : r.reports[i].of = {i}
  PROVE  LET a == Append(r.reports, [id |-> id, of |-> {n}])
         IN  Len(a) = n /\ \A i \in 1..Len(a) : a[i].of = {i}
<1> DEFINE v == [id |-> id, of |-> {n}]
           a == Append(r.reports, v)
<1>1. r.reports \in Seq([id : Int, of : SUBSET Nat]) BY DEF Slots
<1>2. Len(a) = n /\ a[n] = v /\ \A i \in 1..(n - 1) : a[i] = r.reports[i] BY <1>1
<1>3. v.of = {n} OBVIOUS
<1>4. \A i \in 1..n : i \in 1..(n - 1) \/ i = n OBVIOUS
<1> HIDE DEF a, v
<1>5. Len(a) = n /\ \A i \in 1..Len(a) : a[i].of = {i} BY <1>2, <1>3, <1>4
<1>6. QED BY <1>5 DEF a, v

(* The steps of the program. *)
LEMMA CallFollows ==
  ASSUME NEW P, NEW s \in Seq(Entries), NEW e \in Exns, NEW r \in Slots, NEW n \in Nat,
         NEW f \in Functions, e.phase = "none", Following(P, s, e, r, n)
  PROVE  LET m == IF f \in P /\ Frames(P, s) = 0 THEN n + 1 ELSE n
             q == IF f \in P THEN TrackEnterMain(r, m) ELSE r
         IN  /\ Following(P, Append(s, Frame(f)), e, q, m)
             /\ q.failed = r.failed /\ q.threadId = r.threadId
<1> DEFINE m == IF f \in P /\ Frames(P, s) = 0 THEN n + 1 ELSE n
           q == IF f \in P THEN TrackEnterMain(r, m) ELSE r
           x == Frame(f)
           u == Append(s, x)
<1>0. Known(P, s, e, r, n) BY FollowingFacts
<1>1. /\ x \in Entries /\ x.kind = "method" /\ (MainEntry(P, x) <=> f \in P)
  BY DEF Frame, Entries, NoExn, Exns, MainEntry
<1>2. Nesting(P, s, e) /\ Leaving(P, s, e, r) BY DEF Following
<1>3. f \in P /\ Frames(P, s) = 0 =>
        /\ View(q) = <<r.threadId, 1, r.unwind, 0, [of |-> {n + 1}], r.reports, r.crashed>>
        /\ q.failed = r.failed
  <2>1. SUFFICES ASSUME f \in P, Frames(P, s) = 0
                 PROVE  /\ View(q) = <<r.threadId, 1, r.unwind, 0, [of |-> {n + 1}], r.reports,
                                       r.crashed>>
                        /\ q.failed = r.failed
    OBVIOUS
  <2>2. q = TrackEnterMain(r, n + 1) BY <2>1
  <2>3. r.balance = None /\ r.inFilter = None /\ r.coverage = None BY <1>0, <2>1 DEF Known
  <2>4. n + 1 \in Nat OBVIOUS
  <2> HIDE DEF q
  <2>5. QED BY <2>2, <2>3, <2>4, EnterMainFacts
<1>4. f \in P /\ Frames(P, s) # 0 =>
        /\ View(q) = <<r.threadId, r.balance + 1, r.unwind, r.inFilter, r.coverage, r.reports,
                       r.crashed>>
        /\ q.failed = r.failed
  BY <1>0, EnterMainFacts DEF Known
<1>5. f \notin P => q = r OBVIOUS
<1> HIDE DEF q, x
<1>6. /\ Frames(P, s) \in Nat /\ Filters(P, s) \in Nat /\ (Frames(P, s) = 0 => Filters(P, s) = 0)
      /\ Frames(P, u) = Frames(P, s) + (IF f \in P THEN 1 ELSE 0)
      /\ Filters(P, u) = Filters(P, s)
  BY <1>1, PushCount
<1>7. q.unwind = r.unwind /\ q.reports = r.reports /\ q.threadId = r.threadId
  BY <1>3, <1>4, <1>5 DEF View
<1>8. Nesting(P, u, e) BY <1>1, <1>2, PushNesting
<1>9. Leaving(P, u, e, q) BY <1>1, <1>2, <1>7, PushLeaving
<1> HIDE DEF u
<1>10. Counting(P, u, e, q) /\ Reporting(P, u, q, m)
  <2>1. CASE f \notin P BY <1>5, <1>6, <2>1 DEF Following, Counting, Reporting
  <2>2. CASE f \in P /\ Frames(P, s) = 0
    <3>1. q.balance = 1 /\ q.inFilter = 0 /\ q.coverage = [of |-> {n + 1}]
      BY <1>3, <2>2 DEF View
    <3>2. m = n + 1 /\ Frames(P, u) = 1 /\ Filters(P, u) = 0 BY <1>6, <2>2
    <3>3. Len(r.reports) = n /\ \A i \in 1..Len(r.reports) : r.reports[i].of = {i}
      BY <1>0, <2>2 DEF Known
    <3> HIDE DEF m
    <3>4. QED BY <1>7, <3>1, <3>2, <3>3 DEF Counting, Reporting
  <2>3. CASE f \in P /\ Frames(P, s) # 0
    <3>1. q.balance = r.balance + 1 /\ q.inFilter = r.inFilter /\ q.coverage = r.coverage
      BY <1>4, <2>3 DEF View
    <3>2. m = n /\ Frames(P, u) = Frames(P, s) + 1 /\ Filters(P, u) = Filters(P, s) /\ Frames(P, u) # 0
      BY <1>6, <2>3
    <3>3. /\ r.balance = Frames(P, s) /\ r.inFilter = Filters(P, s)
          /\ r.coverage = [of |-> {n}] /\ n > 0 /\ Len(r.reports) = n - 1
          /\ \A i \in 1..Len(r.reports) : r.reports[i].of = {i}
      BY <1>0, <2>3 DEF Known
    <3> HIDE DEF m
    <3>4. Counting(P, u, e, q) BY <1>6, <2>3, <3>1, <3>2, <3>3 DEF Counting
    <3>5. Reporting(P, u, q, m) BY <1>7, <3>1, <3>2, <3>3 DEF Reporting
    <3>6. QED BY <3>4, <3>5
  <2>4. QED BY <2>1, <2>2, <2>3
<1>11. q.failed = r.failed BY <1>3, <1>4, <1>5
<1>12. QED BY <1>7, <1>8, <1>9, <1>10, <1>11 DEF Following, q, u, x

(* The return of main leaves a frame, the return of others does not.       *)
LEMMA ReturnFollows ==
  ASSUME NEW P, NEW s \in Seq(Entries), s # <<>>, NEW e \in Exns, NEW r \in Slots, ~r.crashed,
         NEW n \in Nat, e.phase = "none", s[Len(s)].kind = "method", Following(P, s, e, r, n)
  PROVE  LET q == IF MainEntry(P, s[Len(s)]) THEN TrackLeaveMain(r, n) ELSE r
         IN  /\ Following(P, Pop(s), e, q, n)
             /\ isPassiveRun \/ r.threadId # None \/ Frames(P, s) = 0 => q.failed = r.failed
             /\ q.threadId = IF /\ ~isPassiveRun
                               /\ Frames(P, s) # 0 /\ Frames(P, Pop(s)) = 0
                            THEN None ELSE r.threadId
<1> DEFINE x == s[Len(s)]
           q == IF MainEntry(P, x) THEN TrackLeaveMain(r, n) ELSE r
           p == Pop(s)
           id == IF Exist(r, "threadId") THEN r.threadId ELSE 0
<1>0. Known(P, s, e, r, n) BY FollowingFacts
<1>1. Nesting(P, s, e) /\ Leaving(P, s, e, r) BY DEF Following
<1>2. /\ Frames(P, p) \in Nat /\ Filters(P, p) \in Nat /\ (Frames(P, p) = 0 => Filters(P, p) = 0)
      /\ Frames(P, s) = Frames(P, p) + (IF MainEntry(P, x) THEN 1 ELSE 0)
      /\ Filters(P, s) = Filters(P, p)
  BY PopCount
<1>3. ~MainEntry(P, x) => q = r OBVIOUS
<1>4. MainEntry(P, x) => q = TrackLeaveMain(r, n) OBVIOUS
<1> HIDE DEF p, q, x
<1>5. ASSUME MainEntry(P, x), Frames(P, p) = 0
      PROVE  /\ q.balance = None /\ q.inFilter = None /\ q.coverage = None /\ q.unwind = r.unwind
             /\ q.reports = Append(r.reports, [id |-> id, of |-> {n}])
             /\ isPassiveRun \/ r.threadId # None => q.failed = r.failed
             /\ q.threadId = IF isPassiveRun THEN r.threadId ELSE None
  <2>1. Frames(P, s) = 1 /\ Filters(P, s) = 0 BY <1>2, <1>5
  <2>2. /\ r.balance = 1 /\ r.balance # None /\ r.inFilter = 0
        /\ r.coverage = [of |-> {n}] /\ r.coverage \in Histories /\ r.coverage # None
    BY <1>0, <2>1 DEF Known
  <2>3. r.coverage.of \cup {n} = {n} BY <2>2
  <2> HIDE DEF id
  <2>4. /\ View(q) = <<IF isPassiveRun THEN r.threadId ELSE None, None, r.unwind, None, None,
                       Append(r.reports, [id |-> id, of |-> r.coverage.of \cup {n}]), r.crashed>>
        /\ isPassiveRun \/ r.threadId # None => q.failed = r.failed
    BY <1>4, <1>5, <2>2, LeaveMainFacts DEF id
  <2>5. QED BY <2>3, <2>4 DEF View
<1>6. ASSUME MainEntry(P, x), Frames(P, p) # 0
      PROVE  /\ q.balance = Frames(P, p) /\ q.inFilter = Filters(P, p)
             /\ q.coverage = [of |-> {n}] /\ q.unwind = r.unwind
             /\ q.reports = r.reports /\ q.failed = r.failed /\ q.threadId = r.threadId
  <2>1. Frames(P, s) # 0 /\ Frames(P, s) # 1 /\ Frames(P, s) >= 1 /\ Frames(P, s) - 1 = Frames(P, p)
    BY <1>2, <1>6
  <2>2. /\ r.balance = Frames(P, s) /\ r.balance # None /\ r.inFilter = Filters(P, s)
        /\ r.coverage = [of |-> {n}] /\ r.coverage \in Histories /\ r.coverage # None
    BY <1>0, <2>1 DEF Known
  <2>3. r.coverage.of \cup {n} = {n} BY <2>2
  <2>4. /\ View(q) = <<r.threadId, r.balance - 1, r.unwind, r.inFilter,
                       [of |-> r.coverage.of \cup {n}], r.reports, r.crashed>>
        /\ q.failed = r.failed
    BY <1>4, <1>6, <2>1, <2>2, LeaveMainFacts
  <2>5. QED BY <1>2, <2>1, <2>2, <2>3, <2>4 DEF View
<1>7. q.unwind = r.unwind BY <1>3, <1>5, <1>6
<1>8. Nesting(P, p, e) BY <1>1, PopNesting DEF p
<1>9. Leaving(P, p, e, q) BY <1>1, <1>7, PopLeaving DEF p
<1>10. Counting(P, p, e, q) /\ Reporting(P, p, q, n)
  <2>1. CASE ~MainEntry(P, x) BY <1>2, <1>3, <2>1 DEF Following, Counting, Reporting
  <2>2. CASE MainEntry(P, x) /\ Frames(P, p) = 0
    <3>1. Frames(P, s) # 0 BY <1>2, <2>2
    <3>2. n > 0 /\ Len(r.reports) = n - 1 /\ \A i \in 1..Len(r.reports) : r.reports[i].of = {i}
      BY <1>0, <3>1 DEF Known
    <3>3. id \in Int BY DEF Exist, Slots
    <3>4. Len(q.reports) = n /\ \A i \in 1..Len(q.reports) : q.reports[i].of = {i}
      <4> HIDE DEF id
      <4>1. LET a == Append(r.reports, [id |-> id, of |-> {n}])
            IN  Len(a) = n /\ \A i \in 1..Len(a) : a[i].of = {i}
        BY <3>2, <3>3, NextReport
      <4>2. q.reports = Append(r.reports, [id |-> id, of |-> {n}]) BY <1>5, <2>2
      <4>3. QED BY <4>1, <4>2
    <3>5. QED BY <1>5, <2>2, <3>4 DEF Counting, Reporting
  <2>3. CASE MainEntry(P, x) /\ Frames(P, p) # 0
    <3>1. Frames(P, s) # 0 BY <1>2, <2>3
    <3>2. n > 0 /\ Len(r.reports) = n - 1 /\ \A i \in 1..Len(r.reports) : r.reports[i].of = {i}
      BY <1>0, <3>1 DEF Known
    <3>3. Counting(P, p, e, q) BY <1>2, <1>6, <2>3 DEF Counting
    <3>4. Reporting(P, p, q, n) BY <1>6, <2>3, <3>2 DEF Reporting
    <3>5. QED BY <3>3, <3>4
  <2>4. QED BY <2>1, <2>2, <2>3
<1>11. isPassiveRun \/ r.threadId # None \/ Frames(P, s) = 0 => q.failed = r.failed
  BY <1>2, <1>3, <1>5, <1>6
<1>12. q.threadId = IF ~isPassiveRun /\ Frames(P, s) # 0 /\ Frames(P, p) = 0
                    THEN None ELSE r.threadId
  BY <1>2, <1>3, <1>5, <1>6
<1>13. QED BY <1>8, <1>9, <1>10, <1>11, <1>12 DEF Following, p, q, x

(* A tail call of main to main replaces one frame by another.              *)
LEMMA TailCallFollows ==
  ASSUME NEW P, NEW s \in Seq(Entries), s # <<>>, NEW e \in Exns, NEW r \in Slots, NEW n \in Nat,
         NEW f \in Functions, e.phase = "none", MainEntry(P, s[Len(s)]), f \in P,
         Following(P, s, e, r, n)
  PROVE  LET q == TrackEnterMain(TrackTailcall(TrackCoverage(r, n), n), n)
         IN  Following(P, Append(Pop(s), Frame(f)), e, q, n) /\ q.failed = r.failed /\ q.threadId = r.threadId
<1> DEFINE c == TrackCoverage(r, n)
           l == TrackTailcall(c, n)
           q == TrackEnterMain(l, n)
           x == Frame(f)
           p == Pop(s)
           u == Append(p, x)
<1>0. Known(P, s, e, r, n) BY FollowingFacts
<1>1. /\ x \in Entries /\ x.kind = "method" /\ MainEntry(P, x)
  BY DEF Frame, Entries, NoExn, Exns, MainEntry
<1>2. Nesting(P, s, e) /\ Leaving(P, s, e, r) BY DEF Following
<1>3. s[Len(s)].kind = "method" BY DEF MainEntry
<1>4. /\ Frames(P, p) \in Nat /\ Filters(P, p) \in Nat
      /\ Frames(P, s) = Frames(P, p) + 1 /\ Filters(P, s) = Filters(P, p)
  BY <1>3, PopCount
<1>5. p \in Seq(Entries) BY PopFacts
<1> HIDE DEF x
<1>6. Nesting(P, p, e) /\ Leaving(P, p, e, r) BY <1>2, PopNesting, PopLeaving
<1> HIDE DEF p
<1>7. Frames(P, u) = Frames(P, p) + 1 /\ Filters(P, u) = Filters(P, p)
  BY <1>1, <1>5, PushCount
<1>8. /\ r.balance = Frames(P, s) /\ r.balance # None /\ r.balance >= 1
      /\ r.inFilter = Filters(P, s)
      /\ r.coverage = [of |-> {n}] /\ r.coverage \in Histories /\ r.coverage # None
      /\ n > 0 /\ Len(r.reports) = n - 1 /\ \A i \in 1..Len(r.reports) : r.reports[i].of = {i}
  BY <1>0, <1>4 DEF Known
<1>9. r.coverage.of \cup {n} = {n} BY <1>8
<1>10. /\ c \in Slots /\ c.failed = r.failed
       /\ View(c) = <<r.threadId, r.balance, r.unwind, r.inFilter, [of |-> r.coverage.of \cup {n}],
                      r.reports, r.crashed>>
  BY <1>8, ProbeFacts
<1> HIDE DEF c
<1>11. /\ c.balance = r.balance /\ c.coverage = r.coverage /\ c.unwind = r.unwind
       /\ c.inFilter = r.inFilter /\ c.reports = r.reports /\ c.threadId = r.threadId
  BY <1>8, <1>9, <1>10 DEF View
<1>12. /\ l \in Slots /\ l.failed = c.failed
       /\ View(l) = <<c.threadId, c.balance - 1, c.unwind, c.inFilter,
                      [of |-> c.coverage.of \cup {n}], c.reports, c.crashed>>
  BY <1>8, <1>10, <1>11, TailcallFacts
<1> HIDE DEF l
<1>13. /\ l.balance = r.balance - 1 /\ l.coverage = r.coverage /\ l.unwind = r.unwind
       /\ l.inFilter = r.inFilter /\ l.reports = r.reports /\ l.threadId = r.threadId
  BY <1>8, <1>9, <1>11, <1>12 DEF View
<1>14. l.balance # None /\ l.balance + 1 = r.balance
  BY <1>4, <1>8, <1>13, TrackingAssumption
<1>15. /\ q \in Slots /\ q.failed = l.failed
       /\ View(q) =
            <<l.threadId, l.balance + 1, l.unwind, l.inFilter, l.coverage, l.reports, l.crashed>>
  BY <1>12, <1>14, EnterMainFacts
<1> HIDE DEF q
<1>16. /\ q.balance = r.balance /\ q.coverage = r.coverage /\ q.unwind = r.unwind
       /\ q.inFilter = r.inFilter /\ q.reports = r.reports /\ q.threadId = r.threadId
  BY <1>13, <1>14, <1>15 DEF View
<1>17. Nesting(P, u, e) BY <1>1, <1>5, <1>6, PushNesting
<1>18. Leaving(P, u, e, q) BY <1>1, <1>5, <1>6, <1>16, PushLeaving
<1> HIDE DEF u
<1>19. Counting(P, u, e, q) BY <1>4, <1>7, <1>8, <1>16 DEF Counting
<1>20. Reporting(P, u, q, n) BY <1>4, <1>7, <1>8, <1>16 DEF Reporting
<1>21. q.failed = r.failed BY <1>10, <1>12, <1>15
<1>22. QED BY <1>16, <1>17, <1>18, <1>19, <1>20, <1>21 DEF Following, q, l, c, u, p, x

(* A probe records the invocation that runs.                               *)
LEMMA ProbeFollows ==
  ASSUME NEW P, NEW s \in Seq(Entries), NEW e \in Exns, NEW r \in Slots, NEW n \in Nat,
         Following(P, s, e, r, n)
  PROVE  LET q == TrackCoverage(r, n)
         IN  Following(P, s, e, q, n) /\ q.failed = r.failed /\ q.threadId = r.threadId
<1> DEFINE q == TrackCoverage(r, n)
<1>0. Known(P, s, e, r, n) BY FollowingFacts
<1>1. CASE Frames(P, s) = 0
  <2>1. q = r BY <1>0, <1>1, ProbeFacts DEF Known
  <2>2. QED BY <2>1
<1>2. CASE Frames(P, s) # 0
  <2>1. r.balance # None /\ r.coverage = [of |-> {n}] /\ r.coverage \in Histories /\ r.coverage # None
    BY <1>0, <1>2 DEF Known
  <2>2. r.coverage.of \cup {n} = {n} BY <2>1
  <2>3. /\ q.failed = r.failed
        /\ View(q) = <<r.threadId, r.balance, r.unwind, r.inFilter, [of |-> r.coverage.of \cup {n}],
                       r.reports, r.crashed>>
    BY <2>1, ProbeFacts
  <2> HIDE DEF q
  <2>4. /\ q.balance = r.balance /\ q.coverage = r.coverage /\ q.unwind = r.unwind
        /\ q.inFilter = r.inFilter /\ q.reports = r.reports /\ q.threadId = r.threadId
    BY <2>1, <2>2, <2>3 DEF View
  <2>5. QED BY <2>3, <2>4 DEF Following, Counting, Leaving, Reporting, q
<1>3. QED BY <1>1, <1>2

(* The callbacks of an exception.  `Seen` is what Callback leaves.         *)
Seen(r, q) == IF r.balance # None THEN q ELSE r

(* An exception starts or ends: the frames stay.                           *)
LEMMA RedirectFollows ==
  ASSUME NEW P, NEW s \in Seq(Entries), NEW e \in Exns, NEW f \in Exns, NEW r, NEW q, NEW n \in Nat,
         Following(P, s, e, r, n), e.phase # "swallowed", f.phase \in {"none", "search"},
         f.phase # "none" => /\ InFlight(P, s, Len(s), f)
                             /\ \A j \in 1..Len(s) : s[j].kind # "finally",
         q.balance = r.balance, q.inFilter = r.inFilter, q.coverage = r.coverage,
         q.reports = r.reports, q.unwind = r.unwind \/ e.phase # "none"
  PROVE  Following(P, s, f, q, n)
<1>1. Nesting(P, s, e) /\ Counting(P, s, e, r) /\ Leaving(P, s, e, r) /\ Reporting(P, s, r, n)
  BY DEF Following
<1>2. Nesting(P, s, f) BY <1>1 DEF Nesting
<1>3. Counting(P, s, f, q) BY <1>1 DEF Counting
<1>4. Reporting(P, s, q, n) BY <1>1 DEF Reporting
<1>5. Leaving(P, s, f, q) BY <1>1 DEF Leaving, Nesting
<1>6. QED BY <1>2, <1>3, <1>4, <1>5 DEF Following

(* A filter above main is counted when it starts,                          *)
LEMMA RunFilterFollows ==
  ASSUME NEW P, NEW s \in Seq(Entries), NEW e \in Exns, NEW r \in Slots, NEW n \in Nat,
         NEW x \in Entries, x.kind = "filter", x.resume = e, e.phase = "search",
         Following(P, s, e, r, n)
  PROVE  LET q == Seen(r, FilterEnter(r))
         IN  Following(P, Append(s, x), NoExn, q, n) /\ q.failed = r.failed /\ q.threadId = r.threadId
<1> DEFINE q == Seen(r, FilterEnter(r))
           u == Append(s, x)
<1>0. Known(P, s, e, r, n) BY FollowingFacts
<1>1. Nesting(P, s, e) /\ Leaving(P, s, e, r) /\ NoExn \in Exns /\ NoExn.phase = "none"
  BY DEF Following, NoExn, Exns
<1>2. /\ Frames(P, s) \in Nat /\ Filters(P, s) \in Nat
      /\ Frames(P, u) = Frames(P, s)
      /\ Filters(P, u) = Filters(P, s) + (IF Frames(P, s) # 0 THEN 1 ELSE 0)
  BY PushCount DEF MainEntry
<1>3. r.balance # None =>
        /\ q.failed = r.failed \/ r.inFilter = None
        /\ View(q) =
             <<r.threadId, r.balance, r.unwind, Load(r, "inFilter") + 1, r.coverage, r.reports,
                       r.crashed>>
  BY AddInFilter DEF Seen, FilterEnter
<1>4. r.balance = None => q = r BY DEF Seen
<1> HIDE DEF q
<1>5. /\ q.balance = r.balance /\ q.coverage = r.coverage /\ q.unwind = r.unwind /\ q.reports = r.reports
      /\ q.threadId = r.threadId
  BY <1>3, <1>4 DEF View
<1>6. Nesting(P, u, NoExn) BY <1>1, PushNesting
<1>7. Leaving(P, u, NoExn, q) BY <1>1, <1>5, PushLeaving
<1> HIDE DEF u
<1>8. Counting(P, u, NoExn, q) /\ q.failed = r.failed
  <2>1. CASE Frames(P, s) = 0
    <3>1. q = r /\ r.balance = None /\ r.inFilter = None BY <1>0, <1>4, <2>1 DEF Known
    <3>2. QED BY <1>2, <2>1, <3>1 DEF Counting
  <2>2. CASE Frames(P, s) # 0
    <3>1. r.balance = Frames(P, s) /\ r.balance # None /\ r.inFilter = Filters(P, s) /\ r.inFilter # None
      BY <1>0, <1>2, <2>2 DEF Known
    <3>2. q.inFilter = Filters(P, s) + 1 /\ q.failed = r.failed
      BY <1>3, <3>1, LoadFacts DEF View
    <3>3. QED BY <1>1, <1>2, <1>5, <2>2, <3>1, <3>2 DEF Counting
  <2>3. QED BY <2>1, <2>2
<1>9. Reporting(P, u, q, n) BY <1>2, <1>5 DEF Following, Reporting
<1>10. QED BY <1>5, <1>6, <1>7, <1>8, <1>9 DEF Following, q, u

(* and counted off when it returns,                                        *)
LEMMA FilterReturnsFollows ==
  ASSUME NEW P, NEW s \in Seq(Entries), s # <<>>, NEW e \in Exns, NEW r \in Slots, NEW n \in Nat,
         s[Len(s)].kind = "filter", s[Len(s)].resume \in Exns, e.phase = "none",
         Following(P, s, e, r, n)
  PROVE  LET q == Seen(r, FilterLeave(r))
         IN  Following(P, Pop(s), s[Len(s)].resume, q, n) /\ q.failed = r.failed /\ q.threadId = r.threadId
<1> DEFINE q == Seen(r, FilterLeave(r))
           p == Pop(s)
           f == s[Len(s)].resume
<1>0. Known(P, s, e, r, n) BY FollowingFacts
<1>1. Nesting(P, s, e) /\ Leaving(P, s, e, r) BY DEF Following
<1>2. /\ Frames(P, p) \in Nat /\ Filters(P, p) \in Nat
      /\ Frames(P, s) = Frames(P, p)
      /\ Filters(P, s) = Filters(P, p) + (IF Frames(P, p) # 0 THEN 1 ELSE 0)
  BY PopCount DEF MainEntry
<1>3. r.balance # None =>
        /\ q.failed = r.failed \/ r.inFilter = None
        /\ View(q) = <<r.threadId, r.balance, r.unwind, Load(r, "inFilter") + (-1), r.coverage,
                       r.reports, r.crashed>>
  BY AddInFilter DEF Seen, FilterLeave
<1>4. r.balance = None => q = r BY DEF Seen
<1> HIDE DEF q
<1>5. /\ q.balance = r.balance /\ q.coverage = r.coverage /\ q.unwind = r.unwind /\ q.reports = r.reports
      /\ q.threadId = r.threadId
  BY <1>3, <1>4 DEF View
<1>6. Len(s) \in Nat /\ Len(s) >= 1 BY PopFacts
<1>7. /\ f.phase = "search" /\ InFlight(P, s, Len(s) - 1, f)
      /\ \A j \in 1..(Len(s) - 1) : s[j].kind # "finally"
  <2>1. Len(s) \in 1..Len(s) BY <1>6
  <2>2. QED BY <1>1, <2>1 DEF Nesting
<1>8. Nesting(P, p, f) BY <1>1, <1>7, PopNesting
<1>9. Leaving(P, p, f, q) BY <1>1, <1>5, <1>7, PopLeaving
<1> HIDE DEF p, f
<1>10. Counting(P, p, f, q) /\ q.failed = r.failed
  <2>1. CASE Frames(P, s) = 0
    <3>1. q = r /\ r.balance = None /\ r.inFilter = None BY <1>0, <1>4, <2>1 DEF Known
    <3>2. QED BY <1>2, <2>1, <3>1 DEF Counting
  <2>2. CASE Frames(P, s) # 0
    <3>1. r.balance = Frames(P, s) /\ r.balance # None /\ r.inFilter = Filters(P, s) /\ r.inFilter # None
      BY <1>0, <1>2, <2>2 DEF Known
    <3>2. q.inFilter = Filters(P, s) + (-1) /\ q.failed = r.failed
      BY <1>3, <3>1, LoadFacts DEF View
    <3>3. q.inFilter = Filters(P, p) BY <1>2, <2>2, <3>2
    <3>4. QED BY <1>2, <1>5, <1>7, <2>2, <3>1, <3>2, <3>3 DEF Counting
  <2>3. QED BY <2>1, <2>2
<1>11. Reporting(P, p, q, n) BY <1>2, <1>5 DEF Following, Reporting
<1>12. QED BY <1>5, <1>8, <1>9, <1>10, <1>11 DEF Following, q, p, f

(* or when the exception that left it was swallowed.                       *)
LEMMA SwallowedFollows ==
  ASSUME NEW P, NEW s \in Seq(Entries), NEW e \in Exns, NEW r \in Slots, NEW n \in Nat,
         e.phase = "swallowed", Following(P, s, e, r, n)
  PROVE  LET q == Seen(r, FilterLeave(r))
         IN  Following(P, s, [e EXCEPT !.phase = "search"], q, n) /\ q.failed = r.failed /\ q.threadId = r.threadId
<1> DEFINE q == Seen(r, FilterLeave(r))
           f == [e EXCEPT !.phase = "search"]
<1>0. Known(P, s, e, r, n) BY FollowingFacts
<1>1. Nesting(P, s, e) /\ Leaving(P, s, e, r) BY DEF Following
<1>2. f.phase = "search" /\ f.target = e.target /\ f \in Exns BY DEF Exns
<1> HIDE DEF f
<1>3. r.balance # None =>
        /\ q.failed = r.failed \/ r.inFilter = None
        /\ View(q) = <<r.threadId, r.balance, r.unwind, Load(r, "inFilter") + (-1), r.coverage,
                       r.reports, r.crashed>>
  <2>1. -1 \in Int OBVIOUS
  <2>2. /\ r.inFilter # None => FilterLeave(r).failed = r.failed
        /\ View(FilterLeave(r)) = <<r.threadId, r.balance, r.unwind, Load(r, "inFilter") + (-1),
                                    r.coverage, r.reports, r.crashed>>
    BY <2>1, AddInFilter DEF FilterLeave
  <2>3. QED BY <2>2 DEF Seen
<1>4. r.balance = None => q = r BY DEF Seen
<1> HIDE DEF q
<1>5. /\ q.balance = r.balance /\ q.coverage = r.coverage /\ q.unwind = r.unwind /\ q.reports = r.reports
      /\ q.threadId = r.threadId
  BY <1>3, <1>4 DEF View
<1>6. Nesting(P, s, f) BY <1>1, <1>2 DEF Nesting, InFlight
<1>7. Leaving(P, s, f, q) BY <1>1, <1>2, <1>5 DEF Leaving
<1>8. Counting(P, s, f, q) /\ q.failed = r.failed
  <2>1. CASE Frames(P, s) = 0
    <3>1. q = r /\ r.balance = None /\ r.inFilter = None BY <1>0, <1>4, <2>1 DEF Known
    <3>2. QED BY <2>1, <3>1 DEF Counting
  <2>2. CASE Frames(P, s) # 0
    <3>1. /\ r.balance = Frames(P, s) /\ r.balance # None /\ Filters(P, s) \in Nat
          /\ r.inFilter = Filters(P, s) + 1 /\ r.inFilter # None
      BY <1>0, <2>2 DEF Known
    <3>2. q.inFilter = Filters(P, s) + 1 + (-1) /\ q.failed = r.failed
      BY <1>3, <3>1, LoadFacts DEF View
    <3>3. q.inFilter = Filters(P, s) BY <3>1, <3>2
    <3>4. QED BY <1>2, <1>5, <2>2, <3>1, <3>2, <3>3 DEF Counting
  <2>3. QED BY <2>1, <2>2
<1>9. Reporting(P, s, q, n) BY <1>5 DEF Following, Reporting
<1>10. QED BY <1>5, <1>6, <1>7, <1>8, <1>9 DEF Following, q, f

(* An unwound frame is entered: its function is remembered.                *)
LEMMA UnwindEnterFollows ==
  ASSUME NEW P, NEW s \in Seq(Entries), s # <<>>, NEW e \in Exns, NEW r \in Slots, NEW n \in Nat,
         e.phase \in {"search", "unwind"}, Following(P, s, e, r, n)
  PROVE  LET q == Seen(r, UnwindFunctionEnter(r, s[Len(s)].fn))
         IN  /\ Following(P, s, [e EXCEPT !.phase = "entered"], q, n)
             /\ q.failed = r.failed /\ q.threadId = r.threadId
<1> DEFINE fn == s[Len(s)].fn
           q == Seen(r, UnwindFunctionEnter(r, fn))
           f == [e EXCEPT !.phase = "entered"]
<1>0. Known(P, s, e, r, n) BY FollowingFacts
<1>1. Nesting(P, s, e) /\ Leaving(P, s, e, r) BY DEF Following
<1>2. f.phase = "entered" /\ f.target = e.target /\ f \in Exns BY DEF Exns
<1> HIDE DEF f
<1>3. fn \in Functions
  <2>1. s[Len(s)] \in Entries BY PopFacts
  <2>2. QED BY <2>1 DEF Entries
<1> HIDE DEF fn
<1>4. r.balance # None =>
        /\ q.failed = r.failed
        /\ View(q) = <<r.threadId, r.balance, fn, r.inFilter, r.coverage, r.reports, r.crashed>>
  <2>1. /\ UnwindFunctionEnter(r, fn).failed = r.failed
        /\ View(UnwindFunctionEnter(r, fn)) =
             <<r.threadId, r.balance, fn, r.inFilter, r.coverage, r.reports, r.crashed>>
    BY <1>3, UnwindEnterFacts
  <2>2. QED BY <2>1 DEF Seen
<1>5. r.balance = None => q = r BY DEF Seen
<1> HIDE DEF q
<1>6. /\ q.balance = r.balance /\ q.coverage = r.coverage /\ q.inFilter = r.inFilter
      /\ q.reports = r.reports /\ q.threadId = r.threadId /\ q.failed = r.failed
      /\ r.balance # None => q.unwind = fn
  BY <1>4, <1>5 DEF View
<1>7. Nesting(P, s, f) BY <1>1, <1>2 DEF Nesting, InFlight
<1>8. Leaving(P, s, f, q)
  <2>1. Frames(P, s) # 0 => q.unwind = fn BY <1>0, <1>6 DEF Known
  <2>2. \A i \in 1..Len(s) : s[i].kind # "finally" BY <1>1 DEF Nesting
  <2>3. QED BY <1>2, <2>1, <2>2 DEF Leaving, fn
<1>9. Counting(P, s, f, q) BY <1>2, <1>6 DEF Following, Counting
<1>10. Reporting(P, s, q, n) BY <1>6 DEF Following, Reporting
<1>11. QED BY <1>6, <1>7, <1>8, <1>9, <1>10 DEF Following, q, f, fn

(* A finally keeps the function for the exception it interrupts,           *)
LEMMA RunFinallyFollows ==
  ASSUME NEW P, NEW s \in Seq(Entries), NEW e \in Exns, NEW r \in Slots, NEW n \in Nat,
         NEW x \in Entries, x.kind = "finally", x.resume = e, e.phase = "entered",
         Following(P, s, e, r, n)
  PROVE  Following(P, Append(s, x), NoExn, r, n)
<1> DEFINE u == Append(s, x)
<1>1. Nesting(P, s, e) /\ Leaving(P, s, e, r) /\ NoExn \in Exns /\ NoExn.phase = "none"
  BY DEF Following, NoExn, Exns
<1>2. /\ Frames(P, s) \in Nat /\ Filters(P, s) \in Nat
      /\ Frames(P, u) = Frames(P, s) /\ Filters(P, u) = Filters(P, s)
  BY PushCount DEF MainEntry
<1>3. Nesting(P, u, NoExn) BY <1>1, PushNesting
<1>4. Leaving(P, u, NoExn, r) BY <1>1, PushLeaving
<1> HIDE DEF u
<1>5. Counting(P, u, NoExn, r) BY <1>1, <1>2 DEF Following, Counting
<1>6. Reporting(P, u, r, n) BY <1>2 DEF Following, Reporting
<1>7. QED BY <1>3, <1>4, <1>5, <1>6 DEF Following, u

(* which leaves the same frame later.                                      *)
LEMMA FinallyReturnsFollows ==
  ASSUME NEW P, NEW s \in Seq(Entries), s # <<>>, NEW e \in Exns, NEW r \in Slots, NEW n \in Nat,
         s[Len(s)].kind = "finally", s[Len(s)].resume \in Exns, e.phase = "none",
         Following(P, s, e, r, n)
  PROVE  Following(P, Pop(s), s[Len(s)].resume, r, n)
<1> DEFINE p == Pop(s)
           f == s[Len(s)].resume
<1>1. Nesting(P, s, e) /\ Leaving(P, s, e, r) BY DEF Following
<1>2. /\ Frames(P, p) \in Nat /\ Filters(P, p) \in Nat
      /\ Frames(P, s) = Frames(P, p) /\ Filters(P, s) = Filters(P, p)
  BY PopCount DEF MainEntry
<1>3. /\ f.phase = "entered" /\ InFlight(P, s, Len(s) - 1, f)
      /\ \A j \in 1..(Len(s) - 1) : s[j].kind # "finally"
  <2>1. Len(s) \in 1..Len(s) BY PopFacts
  <2>2. QED BY <1>1, <2>1 DEF Nesting
<1>4. Nesting(P, p, f) BY <1>1, <1>3, PopNesting
<1>5. Leaving(P, p, f, r) BY <1>1, <1>3, PopLeaving
<1> HIDE DEF p, f
<1>6. Counting(P, p, f, r) BY <1>2, <1>3 DEF Following, Counting
<1>7. Reporting(P, p, r, n) BY <1>2 DEF Following, Reporting
<1>8. QED BY <1>4, <1>5, <1>6, <1>7 DEF Following, p, f

(* What is followed does not depend on functions that are not on the stack. *)
LEMMA OtherFunctions ==
  ASSUME NEW P, NEW Q, NEW s \in Seq(Entries), NEW e \in Exns, NEW r, NEW n,
         \A i \in 1..Len(s) : s[i].fn \in P <=> s[i].fn \in Q,
         Following(P, s, e, r, n)
  PROVE  Following(Q, s, e, r, n)
<1> DEFINE k == Len(s)
<1>1. k \in Nat /\ \A i \in 1..k : s[i] \in Entries /\ s[i].resume \in Exns /\ i - 1 \in 0..k
  <2>1. k \in Nat /\ \A i \in 1..k : s[i] \in Entries OBVIOUS
  <2> HIDE DEF k
  <2>2. QED BY <2>1 DEF Entries
<1>2. \A i \in 1..k : MainEntry(P, s[i]) <=> MainEntry(Q, s[i]) BY DEF MainEntry
<1> HIDE DEF k
<1>3. \A m \in 0..k : /\ MainFrames(P, s, m) = MainFrames(Q, s, m)
                      /\ FiltersAbove(P, s, m) = FiltersAbove(Q, s, m)
                      /\ \A g \in Exns : InFlight(P, s, m, g) => InFlight(Q, s, m, g)
  BY <1>1, <1>2, Alike
<1>4. k \in 0..k /\ k = Len(s) BY <1>1 DEF k
<1>5. Frames(P, s) = Frames(Q, s) /\ Filters(P, s) = Filters(Q, s)
  BY <1>3, <1>4 DEF Frames, Filters
<1>6. Nesting(Q, s, e) BY <1>1, <1>3, <1>4 DEF Following, Nesting
<1>7. Counting(Q, s, e, r) BY <1>5 DEF Following, Counting
<1>8. Leaving(Q, s, e, r)
  <2>1. e.phase = "entered" /\ Frames(Q, s) # 0 => r.unwind = s[Len(s)].fn
    BY <1>5 DEF Following, Leaving
  <2>2. \A i \in 1..Len(s) : s[i].kind = "finally" /\ MainFrames(Q, s, i - 1) # {} => r.unwind = s[i - 1].fn
    BY <1>1, <1>3, <1>4 DEF Following, Leaving
  <2>3. QED BY <2>1, <2>2 DEF Leaving
<1>9. Reporting(Q, s, r, n) BY <1>5 DEF Following, Reporting
<1>10. QED BY <1>6, <1>7, <1>8, <1>9 DEF Following

(* A frame or a funclet is left by an exception: UnwindFunctionLeave finds *)
(* whether it was a frame of main, and whether it was the outermost one.   *)
LEMMA UnwindLeaveFollows ==
  ASSUME NEW P, NEW s \in Seq(Entries), NEW e \in Exns, NEW r \in Slots, ~r.crashed,
         NEW n \in Nat, e.phase = "entered", Resumable(s, e),
         \A f \in Functions : f \in P <=> f = mainFunctionId,
         Following(P, s, e, r, n)
  PROVE  LET x == s[Len(s)]
             f == IF x.kind = "filter" THEN [x.resume EXCEPT !.phase = "swallowed"]
                  ELSE [e EXCEPT !.phase = "unwind"]
             q == Seen(r, UnwindFunctionLeave(r))
         IN  /\ Following(P, Pop(s), f, q, n)
             /\ isPassiveRun \/ r.threadId # None \/ Frames(P, s) = 0 => q.failed = r.failed
             /\ q.threadId = IF /\ ~isPassiveRun
                                /\ Frames(P, s) # 0 /\ Frames(P, Pop(s)) = 0
                             THEN None ELSE r.threadId
<1> DEFINE x == s[Len(s)]
           f == IF x.kind = "filter" THEN [x.resume EXCEPT !.phase = "swallowed"]
                ELSE [e EXCEPT !.phase = "unwind"]
           q == Seen(r, UnwindFunctionLeave(r))
           p == Pop(s)
           id == IF Exist(r, "threadId") THEN r.threadId ELSE 0
<1>0. Known(P, s, e, r, n) BY FollowingFacts
<1>1. Nesting(P, s, e) /\ Leaving(P, s, e, r) BY DEF Following
<1>2. Len(s) \in Nat /\ e.target < Len(s) /\ e.target \in Nat
  BY DEF Resumable, Entered, Exns
<1>3. s # <<>> /\ Len(s) \in 1..Len(s) /\ Len(s) \in (e.target + 1)..Len(s) BY <1>2
<1>4. /\ InFlight(P, s, Len(s), e) /\ \A j \in 1..Len(s) : s[j].kind # "finally"
      /\ x.kind # "method" => InFlight(P, s, Len(s) - 1, x.resume)
      /\ x.kind = "filter" => x.resume.phase = "search"
  BY <1>1, <1>3 DEF Nesting
<1>5. /\ x \in Entries /\ x.fn \in Functions /\ x.resume \in Exns
  <2>1. x \in Entries BY <1>3
  <2> HIDE DEF x
  <2>2. QED BY <2>1 DEF Entries
<1>6. \/ x.kind = "method"
      \/ x.kind = "filter" /\ Frames(P, s) <= 1
  BY <1>3, <1>4 DEF InFlight, Frames
<1>7. /\ Frames(P, p) \in Nat /\ Filters(P, p) \in Nat /\ (Frames(P, p) = 0 => Filters(P, p) = 0)
      /\ Frames(P, s) = Frames(P, p) + (IF MainEntry(P, x) THEN 1 ELSE 0)
      /\ Filters(P, s) = Filters(P, p) + (IF x.kind = "filter" /\ Frames(P, p) # 0 THEN 1 ELSE 0)
  BY <1>3, PopCount
<1>8. /\ f \in Exns /\ f.phase \in {"swallowed", "unwind"}
      /\ f.phase = "swallowed" <=> x.kind = "filter"
      /\ f.target = IF x.kind = "filter" THEN x.resume.target ELSE e.target
  <2> HIDE DEF x
  <2>1. QED BY <1>5 DEF Exns
<1>9. Nesting(P, p, f)
  <2>1. InFlight(P, s, Len(s) - 1, f)
    <3>1. CASE x.kind = "filter" BY <1>4, <1>8, <3>1 DEF InFlight
    <3>2. CASE x.kind # "filter"
      <4>1. f.target = e.target /\ e.target <= Len(s) - 1 BY <1>2, <1>8, <3>2
      <4>2. \A i \in (e.target + 1)..(Len(s) - 1) : i \in (e.target + 1)..Len(s) BY <1>2
      <4> HIDE DEF f
      <4>3. QED BY <1>4, <4>1, <4>2 DEF InFlight
    <3>3. QED BY <3>1, <3>2
  <2>2. \A j \in 1..(Len(s) - 1) : s[j].kind # "finally" BY <1>2, <1>4
  <2> HIDE DEF f
  <2>3. QED BY <1>1, <1>3, <1>8, <2>1, <2>2, PopNesting
<1>10. Leaving(P, p, f, q)
  <2>1. \A j \in 1..(Len(s) - 1) : s[j].kind # "finally" BY <1>2, <1>4
  <2> HIDE DEF f, q
  <2>2. f.phase # "entered" BY <1>8
  <2>3. QED BY <1>1, <1>3, <1>8, <2>1, <2>2, PopLeaving
<1> HIDE DEF f, p, x
<1>11. ASSUME Frames(P, s) = 0
       PROVE  /\ q = r
              /\ Counting(P, p, f, q) /\ Reporting(P, p, q, n)
  <2>1. /\ r.balance = None /\ r.inFilter = None /\ r.coverage = None /\ Len(r.reports) = n
        /\ \A i \in 1..Len(r.reports) : r.reports[i].of = {i}
    BY <1>0, <1>11 DEF Known
  <2>2. q = r BY <2>1 DEF Seen
  <2>3. Frames(P, p) = 0 BY <1>7, <1>11
  <2> HIDE DEF q
  <2>4. Counting(P, p, f, q) BY <2>1, <2>2, <2>3 DEF Counting
  <2>5. Reporting(P, p, q, n) BY <2>1, <2>2, <2>3 DEF Reporting
  <2>6. QED BY <2>2, <2>4, <2>5
<1>12. ASSUME Frames(P, s) # 0
       PROVE  /\ r.balance = Frames(P, s) /\ r.balance # None /\ r.balance >= 1
              /\ r.inFilter = Filters(P, s) /\ r.inFilter # None
              /\ r.coverage = [of |-> {n}] /\ r.coverage \in Histories /\ r.coverage # None
              /\ n > 0 /\ Len(r.reports) = n - 1
              /\ \A i \in 1..Len(r.reports) : r.reports[i].of = {i}
              /\ r.unwind = x.fn /\ r.unwind # None
              /\ Load(r, "unwind") = x.fn /\ Load(r, "balance") = Frames(P, s)
              /\ Load(r, "inFilter") = Filters(P, s)
              /\ q = UnwindFunctionLeave(r)
  <2>1. /\ r.balance = Frames(P, s) /\ r.balance # None
        /\ r.inFilter = Filters(P, s) /\ r.inFilter # None
        /\ r.coverage = [of |-> {n}] /\ r.coverage \in Histories /\ r.coverage # None
        /\ n > 0 /\ Len(r.reports) = n - 1
        /\ \A i \in 1..Len(r.reports) : r.reports[i].of = {i}
    BY <1>0, <1>7, <1>12 DEF Known
  <2>2. r.balance >= 1 BY <1>7, <1>12, <2>1
  <2>3. r.unwind = x.fn BY <1>1, <1>12 DEF Leaving, x
  <2>4. r.unwind # None BY <1>5, <2>3, TrackingAssumption
  <2>5. Load(r, "unwind") = r.unwind /\ Load(r, "balance") = r.balance /\ Load(r, "inFilter") = r.inFilter
    BY <2>1, <2>4, LoadFacts
  <2>6. q = UnwindFunctionLeave(r) BY <2>1 DEF Seen
  <2> HIDE DEF q
  <2>7. QED BY <2>1, <2>2, <2>3, <2>4, <2>5, <2>6
<1>13. Frames(P, s) # 0 =>
         /\ Load(r, "unwind") # mainFunctionId <=> ~(x.fn \in P)
         /\ x.kind = "filter" => Load(r, "inFilter") > 0 /\ Load(r, "balance") <= 1
         /\ MainEntry(P, x) => ~(Load(r, "inFilter") > 0 /\ Load(r, "balance") <= 1)
  <2>1. SUFFICES ASSUME Frames(P, s) # 0
                 PROVE  /\ Load(r, "unwind") # mainFunctionId <=> ~(x.fn \in P)
                        /\ x.kind = "filter" => Load(r, "inFilter") > 0 /\ Load(r, "balance") <= 1
                        /\ MainEntry(P, x) => ~(Load(r, "inFilter") > 0 /\ Load(r, "balance") <= 1)
    OBVIOUS
  <2>2. Load(r, "unwind") # mainFunctionId <=> ~(x.fn \in P) BY <1>5, <1>12, <2>1
  <2>3. ASSUME x.kind = "filter" PROVE Load(r, "inFilter") > 0 /\ Load(r, "balance") <= 1
    <3>1. ~MainEntry(P, x) BY <2>3 DEF MainEntry
    <3>2. Frames(P, p) # 0 /\ Filters(P, s) = Filters(P, p) + 1 BY <1>7, <2>1, <2>3, <3>1
    <3>3. Frames(P, s) <= 1 BY <1>6, <2>3
    <3>4. QED BY <1>7, <1>12, <2>1, <3>2, <3>3
  <2>4. ASSUME MainEntry(P, x) PROVE ~(Load(r, "inFilter") > 0 /\ Load(r, "balance") <= 1)
    <3>1. x.kind = "method" BY <2>4 DEF MainEntry
    <3>2. Frames(P, s) = Frames(P, p) + 1 /\ Filters(P, s) = Filters(P, p) BY <1>7, <2>4, <3>1
    <3>3. QED BY <1>7, <1>12, <2>1, <3>2
  <2>5. QED BY <2>2, <2>3, <2>4
<1>14. ASSUME Frames(P, s) # 0, ~MainEntry(P, x)
       PROVE  /\ q.failed = r.failed /\ q.threadId = r.threadId
              /\ Counting(P, p, f, q) /\ Reporting(P, p, q, n)
  <2>1. \/ Load(r, "unwind") # mainFunctionId
        \/ Load(r, "inFilter") > 0 /\ Load(r, "balance") <= 1
    BY <1>6, <1>13, <1>14 DEF MainEntry
  <2>2. /\ View(UnwindFunctionLeave(r)) =
             <<r.threadId, r.balance, None, r.inFilter, r.coverage, r.reports, r.crashed>>
        /\ UnwindFunctionLeave(r).failed = r.failed
    BY <1>12, <1>14, <2>1, UnwindLeaveFacts
  <2>3. q = UnwindFunctionLeave(r) BY <1>12, <1>14
  <2> HIDE DEF q
  <2>4. /\ q.balance = r.balance /\ q.inFilter = r.inFilter /\ q.coverage = r.coverage
        /\ q.reports = r.reports /\ q.threadId = r.threadId /\ q.failed = r.failed
    BY <2>2, <2>3 DEF View
  <2>5. Frames(P, p) = Frames(P, s)
    BY <1>7, <1>14
  <2>6. Filters(P, s) = Filters(P, p) + (IF f.phase = "swallowed" THEN 1 ELSE 0)
    BY <1>7, <1>8, <1>14, <2>5
  <2>7. Counting(P, p, f, q) BY <1>12, <1>14, <2>4, <2>5, <2>6 DEF Counting
  <2>8. Reporting(P, p, q, n) BY <1>12, <1>14, <2>4, <2>5 DEF Reporting
  <2>9. QED BY <2>4, <2>7, <2>8
<1>15. ASSUME Frames(P, s) # 0, MainEntry(P, x), Frames(P, p) # 0
       PROVE  /\ q.failed = r.failed /\ q.threadId = r.threadId
              /\ Counting(P, p, f, q) /\ Reporting(P, p, q, n)
  <2>1. /\ x.kind = "method" /\ x.fn \in P BY <1>15 DEF MainEntry
  <2>2. ~ \/ Load(r, "unwind") # mainFunctionId
          \/ Load(r, "inFilter") > 0 /\ Load(r, "balance") <= 1
    BY <1>13, <1>15, <2>1
  <2>3. /\ Frames(P, s) = Frames(P, p) + 1 /\ Filters(P, s) = Filters(P, p)
        /\ Load(r, "balance") # 1 /\ Load(r, "balance") - 1 = Frames(P, p)
    BY <1>7, <1>12, <1>15, <2>1
  <2>4. /\ View(UnwindFunctionLeave(r)) =
             <<r.threadId, Load(r, "balance") - 1, None, r.inFilter, r.coverage, r.reports, r.crashed>>
        /\ UnwindFunctionLeave(r).failed = r.failed
    BY <1>12, <1>15, <2>2, <2>3, UnwindLeaveFacts
  <2>5. q = UnwindFunctionLeave(r) BY <1>12, <1>15
  <2> HIDE DEF q
  <2>6. /\ q.balance = Frames(P, p) /\ q.inFilter = Filters(P, p) /\ q.coverage = r.coverage
        /\ q.reports = r.reports /\ q.threadId = r.threadId /\ q.failed = r.failed
    BY <1>12, <1>15, <2>3, <2>4, <2>5 DEF View
  <2>7. f.phase # "swallowed" BY <1>8, <2>1
  <2>8. Counting(P, p, f, q) BY <1>7, <1>15, <2>6, <2>7 DEF Counting
  <2>9. Reporting(P, p, q, n) BY <1>12, <1>15, <2>6 DEF Reporting
  <2>10. QED BY <2>6, <2>8, <2>9
<1>16. ASSUME Frames(P, s) # 0, MainEntry(P, x), Frames(P, p) = 0
       PROVE  /\ isPassiveRun \/ r.threadId # None => q.failed = r.failed
              /\ q.threadId = IF isPassiveRun THEN r.threadId ELSE None
              /\ Counting(P, p, f, q) /\ Reporting(P, p, q, n)
  <2>1. /\ x.kind = "method" /\ x.fn \in P BY <1>16 DEF MainEntry
  <2>2. ~ \/ Load(r, "unwind") # mainFunctionId
          \/ Load(r, "inFilter") > 0 /\ Load(r, "balance") <= 1
    BY <1>13, <1>16, <2>1
  <2>3. Load(r, "balance") = 1 /\ r.inFilter = 0 BY <1>7, <1>12, <1>16, <2>1
  <2>4. /\ View(UnwindFunctionLeave(r)) =
             <<IF isPassiveRun THEN r.threadId ELSE None, None, None, None, None,
               Append(r.reports, [id |-> id, of |-> r.coverage.of]), r.crashed>>
        /\ isPassiveRun \/ r.threadId # None => UnwindFunctionLeave(r).failed = r.failed
    BY <1>12, <1>16, <2>2, <2>3, UnwindLeaveFacts
  <2>5. q = UnwindFunctionLeave(r) /\ r.coverage.of = {n} BY <1>12, <1>16
  <2>6. id \in Int BY DEF Exist, Slots
  <2> HIDE DEF q, id
  <2>7. /\ q.balance = None /\ q.inFilter = None /\ q.coverage = None
        /\ q.reports = Append(r.reports, [id |-> id, of |-> {n}])
        /\ q.threadId = IF isPassiveRun THEN r.threadId ELSE None
    BY <2>4, <2>5 DEF View
  <2>8. Len(q.reports) = n /\ \A i \in 1..Len(q.reports) : q.reports[i].of = {i}
    BY <1>12, <1>16, <2>6, <2>7, NextReport
  <2>9. Counting(P, p, f, q) BY <1>16, <2>7 DEF Counting
  <2>10. Reporting(P, p, q, n) BY <1>16, <2>7, <2>8 DEF Reporting
  <2>11. QED BY <2>4, <2>5, <2>7, <2>9, <2>10
<1> HIDE DEF q
<1>17. Counting(P, p, f, q) /\ Reporting(P, p, q, n)
  BY <1>11, <1>14, <1>15, <1>16
<1>18. isPassiveRun \/ r.threadId # None \/ Frames(P, s) = 0 => q.failed = r.failed
  BY <1>11, <1>14, <1>15, <1>16
<1>19. q.threadId = IF ~isPassiveRun /\ Frames(P, s) # 0 /\ Frames(P, p) = 0
                    THEN None ELSE r.threadId
  <2>1. ~MainEntry(P, x) => Frames(P, p) = Frames(P, s) BY <1>7
  <2>2. QED BY <1>11, <1>14, <1>15, <1>16, <2>1
<1>20. Following(P, p, f, q, n) BY <1>9, <1>10, <1>17 DEF Following
<1>21. QED BY <1>18, <1>19, <1>20 DEF p, q, f, x

-----------------------------------------------------------------------------
(* A thread that is followed, in the state of the model.                   *)
LEMMA Thread ==
  ASSUME TypeOK, Structured, Followed, Alive, NEW t \in Threads
  PROVE  /\ tracker[t] \in Slots /\ ~tracker[t].crashed
         /\ stack[t] \in Seq(Entries) /\ exn[t] \in Exns /\ started[t] \in Nat
         /\ Resumable(stack[t], exn[t])
         /\ Following(probed, stack[t], exn[t], tracker[t], started[t])
BY TypesAt DEF Structured, Followed, Alive

(* The depth the properties speak of is the number of frames of main.      *)
LEMMA DepthIsFrames ==
  ASSUME TypeOK, NEW t \in Threads
  PROVE  Depth(t) = Frames(probed, stack[t])
<1>1. stack[t] \in Seq(Entries) BY TypesAt
<1>2. DOMAIN stack[t] = 1..Len(stack[t]) BY <1>1
<1>3. QED BY <1>2 DEF Depth, Frames, MainFrames, MainEntry, IsMainFrame

(* What the step of one thread changes.                                    *)
LEMMA Updated ==
  ASSUME TypeOK, NEW t \in Threads, NEW r, NEW s, NEW e,
         tracker' = [tracker EXCEPT ![t] = r],
         stack' = [stack EXCEPT ![t] = s],
         exn' = [exn EXCEPT ![t] = e]
  PROVE  /\ tracker'[t] = r /\ stack'[t] = s /\ exn'[t] = e
         /\ \A u \in Threads \ {t} :
              tracker'[u] = tracker[u] /\ stack'[u] = stack[u] /\ exn'[u] = exn[u]
BY DEF TypeOK

(* How a stack may change in a step. *)
Moves(t) ==
  \/ stack'[t] = stack[t]
  \/ \E x \in Entries : x.fn \in compiled' /\ stack'[t] = Append(stack[t], x)
  \/ stack[t] # <<>> /\ stack'[t] = Pop(stack[t])
  \/ /\ stack[t] # <<>>
     /\ \E f \in probed' : f \in Functions /\ stack'[t] = Append(Pop(stack[t]), Frame(f))

(* What a step of a thread establishes about this thread.                  *)
Outcome(t) ==
  /\ Alive' =>
       /\ Following(probed', stack'[t], exn'[t], tracker'[t], started'[t])
       /\ tracker'[t].threadId = IF /\ ~isPassiveRun /\ Frames(probed, stack[t]) # 0
                                    /\ Frames(probed', stack'[t]) = 0
                                 THEN None ELSE tracker[t].threadId
  /\ \/ isPassiveRun \/ tracker[t].threadId # None \/ Frames(probed, stack[t]) = 0
     => tracker'[t].failed = tracker[t].failed
  /\ Moves(t)
  /\ \A u \in Threads \ {t} :
       /\ tracker'[u] = tracker[u] /\ stack'[u] = stack[u] /\ exn'[u] = exn[u]
       /\ started'[u] = started[u]

(* With one main, compiled once, a compilation tells main from the others. *)
LEMMA JitKeepsMain ==
  ASSUME TypeOK, Confined, OneMain, NEW f \in Functions, Jit(f)
  PROVE  /\ \A g \in Functions : g \in probed' <=> g = mainFunctionId'
         /\ \A g \in probed' : MethodOf[g] \in Mains
         /\ \A g \in compiled : g \in probed <=> g \in probed'
         /\ probed \subseteq probed' /\ f \in compiled' /\ compiled \subseteq compiled'
         /\ f \in probed' /\ f \notin probed => f \notin compiled
<1>1. /\ probed \subseteq compiled /\ compiled \subseteq Functions
      /\ entryMain \in Mains \cup {None} /\ \A g \in probed : MethodOf[g] \in Mains
      /\ \A g \in Functions : g \in probed <=> g = mainFunctionId
  BY DEF TypeOK, OneMain
<1>2. MethodOf[f] \in Methods /\ None \notin Methods BY TrackingAssumption
<1>3. \A g \in probed : MethodOf[f] \in Mains => f = g BY <1>1 DEF Confined
<1>4. f \notin compiled => ~\E g \in probed : MethodOf[g] = MethodOf[f] BY <1>1, <1>3
<1>5. f \notin compiled /\ MethodOf[f] = entryMain => probed = {} /\ MethodOf[f] \in Mains
  BY <1>1, <1>2, <1>3
<1>6. CASE f \notin compiled /\ MethodOf[f] = entryMain
  <2>1. probed' = {f} /\ mainFunctionId' = f /\ compiled' = compiled \cup {f}
    BY <1>5, <1>6 DEF Jit
  <2>2. QED BY <1>1, <1>5, <1>6, <2>1
<1>7. CASE ~(f \notin compiled /\ MethodOf[f] = entryMain)
  <2>1. probed' = probed /\ mainFunctionId' = mainFunctionId /\ compiled' = compiled \cup {f}
    BY <1>4, <1>7 DEF Jit
  <2>2. QED BY <1>1, <2>1
<1>8. QED BY <1>6, <1>7

(* A compilation changes nothing for the threads that run.                 *)
LEMMA StillFollowed ==
  ASSUME TypeOK, Structured, Followed, Alive, OneMain,
         \A g \in compiled : g \in probed <=> g \in probed', NEW u \in Threads
  PROVE  Following(probed', stack[u], exn[u], tracker[u], started[u])
<1>1. /\ stack[u] \in Seq(Entries) /\ exn[u] \in Exns
      /\ Following(probed, stack[u], exn[u], tracker[u], started[u])
  BY Thread
<1>2. \A i \in 1..Len(stack[u]) : stack[u][i].fn \in probed <=> stack[u][i].fn \in probed'
  BY DEF OneMain
<1>3. QED BY <1>1, <1>2, OtherFunctions

(* CallFunction: FunctionEnter probes.                                     *)
LEMMA CallOutcome ==
  ASSUME TypeOK, Structured, Confined, OneMain, Followed, Alive,
         NEW t \in Threads, NEW f \in Functions, CallFunction(t, f)
  PROVE  Outcome(t)
<1> DEFINE s == stack[t]
           e == exn[t]
           r == tracker[t]
           n == started[t]
           m == IF f \in probed' /\ Frames(probed', s) = 0 THEN n + 1 ELSE n
           q == IF f \in probed' THEN TrackEnterMain(r, m) ELSE r
<1>0. /\ r \in Slots /\ s \in Seq(Entries) /\ e \in Exns /\ n \in Nat
      /\ Following(probed, s, e, r, n)
  BY Thread
<1>1. /\ Jit(f) /\ Enter(t, f) /\ e.phase = "none" /\ exn' = exn
      /\ stack' = [stack EXCEPT ![t] = Append(s, Frame(f))]
  BY DEF CallFunction, Runs
<1>2. \A g \in compiled : g \in probed <=> g \in probed' BY <1>1, JitKeepsMain
<1>3. Following(probed', s, e, r, n) BY <1>2, StillFollowed
<1>4. Frames(probed', s) = Frames(probed, s)
  <2>1. \A i \in 1..Len(s) : MainEntry(probed, s[i]) <=> MainEntry(probed', s[i])
    BY <1>2 DEF OneMain, MainEntry
  <2>2. QED BY <2>1 DEF Frames, MainFrames
<1>5. started'[t] = m /\ \A u \in Threads \ {t} : started'[u] = started[u]
  <2>1. started' = [started EXCEPT ![t] = @ + IF f \in probed' /\ Depth(t) = 0 THEN 1 ELSE 0]
    BY <1>1 DEF Enter
  <2>2. Depth(t) = Frames(probed', s) BY <1>4, DepthIsFrames
  <2>3. started \in [Threads -> Nat] BY DEF TypeOK
  <2>4. QED BY <2>1, <2>2, <2>3
<1>6. tracker' = [tracker EXCEPT ![t] = q]
  <2>1. tracker' = [tracker EXCEPT ![t] =
                      IF f \in probed' THEN TrackEnterMain(r, started'[t]) ELSE r]
    BY <1>1 DEF Enter
  <2> HIDE DEF m, r
  <2>2. QED BY <1>5, <2>1
<1>7. /\ Following(probed', Append(s, Frame(f)), e, q, m)
      /\ q.failed = r.failed /\ q.threadId = r.threadId
  <2> HIDE DEF s, e, r, n
  <2>1. QED BY <1>0, <1>1, <1>3, CallFollows
<1> HIDE DEF q, m
<1>8. exn' = [exn EXCEPT ![t] = e] BY <1>1, SelfUpdate
<1>9. /\ tracker'[t] = q /\ stack'[t] = Append(s, Frame(f)) /\ exn'[t] = e
      /\ \A u \in Threads \ {t} :
           tracker'[u] = tracker[u] /\ stack'[u] = stack[u] /\ exn'[u] = exn[u]
  BY <1>1, <1>6, <1>8, Updated
<1>10. Frame(f) \in Entries /\ Frame(f).fn = f BY DEF Frame, Entries, NoExn, Exns
<1>11. Moves(t)
  <2>1. f \in compiled' BY <1>1, JitKeepsMain
  <2>2. QED BY <1>9, <1>10, <2>1 DEF Moves
<1>12. Frames(probed', s) # 0 => Frames(probed', Append(s, Frame(f))) # 0
  <2> HIDE DEF s
  <2>1. QED BY <1>0, <1>10, PushCount
<1>13. QED BY <1>4, <1>5, <1>7, <1>9, <1>11, <1>12 DEF Outcome

(* TailCall: the probes of the ret, of the call and of the callee.         *)
LEMMA TailCallOutcome ==
  ASSUME TypeOK, Structured, Confined, OneMain, Followed, Alive,
         NEW t \in Threads, NEW f \in TailCallees, TailCall(t, f)
  PROVE  Outcome(t)
<1> DEFINE s == stack[t]
           e == exn[t]
           r == tracker[t]
           n == started[t]
           q == TrackEnterMain(TrackTailcall(TrackCoverage(r, n), n), n)
           u == Append(Pop(s), Frame(f))
<1>0. /\ r \in Slots /\ s \in Seq(Entries) /\ e \in Exns /\ n \in Nat
      /\ Following(probed, s, e, r, n)
  BY Thread
<1>1. /\ Jit(f) /\ e.phase = "none" /\ exn' = exn /\ started' = started /\ s # <<>>
      /\ MainEntry(probed, s[Len(s)])
      /\ stack' = [stack EXCEPT ![t] = u]
  BY DEF TailCall, Runs, IsMainFrame, MainEntry, Top
<1>2. f \in Functions /\ MethodOf[f] \in Mains BY TrackingAssumption DEF Confined
<1>3. f \in probed
  <2>1. s[Len(s)].fn \in probed BY <1>1 DEF MainEntry
  <2>2. s[Len(s)].fn \in Functions /\ MethodOf[s[Len(s)].fn] \in Mains
    BY <2>1 DEF OneMain, TypeOK
  <2>3. s[Len(s)].fn = f BY <1>2, <2>2 DEF Confined
  <2>4. QED BY <2>1, <2>3
<1>4. probed' = probed /\ compiled' = compiled
  BY <1>1, <1>3 DEF Jit, TypeOK
<1>5. tracker' = [tracker EXCEPT ![t] = q] BY <1>3, <1>4 DEF TailCall
<1>6. /\ Following(probed, u, e, q, n)
      /\ q.failed = r.failed /\ q.threadId = r.threadId
  <2> HIDE DEF s, e, r, n
  <2>1. QED BY <1>0, <1>1, <1>2, <1>3, TailCallFollows
<1> HIDE DEF q
<1>7. exn' = [exn EXCEPT ![t] = e] BY <1>1, SelfUpdate
<1>8. /\ tracker'[t] = q /\ stack'[t] = u /\ exn'[t] = e
      /\ \A v \in Threads \ {t} :
           tracker'[v] = tracker[v] /\ stack'[v] = stack[v] /\ exn'[v] = exn[v]
  <2>1. stack' = [stack EXCEPT ![t] = u] BY <1>1
  <2> HIDE DEF s, e, r, n, u
  <2>2. QED BY <1>5, <1>7, <2>1, Updated
<1>9. Moves(t)
  <2>1. stack[t] # <<>> /\ stack'[t] = Append(Pop(stack[t]), Frame(f)) BY <1>1, <1>8
  <2>2. f \in probed' /\ f \in Functions BY <1>2, <1>3, <1>4
  <2> HIDE DEF s, u
  <2>3. QED BY <2>1, <2>2 DEF Moves
<1>10. Frames(probed, u) # 0
  <2> HIDE DEF s
  <2>1. Pop(s) \in Seq(Entries) BY <1>0, <1>1, PopFacts
  <2>2. Frame(f) \in Entries /\ MainEntry(probed, Frame(f))
    BY <1>2, <1>3 DEF Frame, Entries, NoExn, Exns, MainEntry
  <2>3. /\ Frames(probed, Pop(s)) \in Nat
        /\ Frames(probed, Append(Pop(s), Frame(f))) = Frames(probed, Pop(s)) + 1
    BY <2>1, <2>2, PushCount
  <2>4. QED BY <2>3
<1> HIDE DEF u
<1>11. QED BY <1>1, <1>4, <1>6, <1>8, <1>9, <1>10 DEF Outcome

(* The steps that compile nothing and start no invocation.                 *)
LEMMA PlainOutcome ==
  ASSUME TypeOK, NEW t \in Threads, NEW q, NEW s, NEW e,
         tracker' = [tracker EXCEPT ![t] = q],
         stack' = [stack EXCEPT ![t] = s],
         exn' = [exn EXCEPT ![t] = e],
         UNCHANGED <<profilerVars, started>>,
         Alive' =>
           /\ Following(probed, s, e, q, started[t])
           /\ q.threadId = IF /\ ~isPassiveRun /\ Frames(probed, stack[t]) # 0
                              /\ Frames(probed, s) = 0
                           THEN None ELSE tracker[t].threadId,
         isPassiveRun \/ tracker[t].threadId # None \/ Frames(probed, stack[t]) = 0
           => q.failed = tracker[t].failed,
         \/ s = stack[t]
         \/ \E x \in Entries : x.fn \in compiled /\ s = Append(stack[t], x)
         \/ stack[t] # <<>> /\ s = Pop(stack[t])
  PROVE  Outcome(t)
<1>1. /\ tracker'[t] = q /\ stack'[t] = s /\ exn'[t] = e
      /\ \A u \in Threads \ {t} :
           tracker'[u] = tracker[u] /\ stack'[u] = stack[u] /\ exn'[u] = exn[u]
  BY Updated
<1>2. probed' = probed /\ compiled' = compiled /\ started' = started BY DEF profilerVars
<1>3. Moves(t) BY <1>1, <1>2 DEF Moves
<1>4. QED BY <1>1, <1>2, <1>3 DEF Outcome

(* The same, when the thread has main on its stack after as before.        *)
LEMMA QuietOutcome ==
  ASSUME TypeOK, NEW t \in Threads, NEW q, NEW s, NEW e,
         tracker' = [tracker EXCEPT ![t] = q],
         stack' = [stack EXCEPT ![t] = s],
         exn' = [exn EXCEPT ![t] = e],
         UNCHANGED <<profilerVars, started>>,
         Following(probed, s, e, q, started[t]),
         Frames(probed, stack[t]) # 0 => Frames(probed, s) # 0,
         q.threadId = tracker[t].threadId, q.failed = tracker[t].failed,
         \/ s = stack[t]
         \/ \E x \in Entries : x.fn \in compiled /\ s = Append(stack[t], x)
         \/ stack[t] # <<>> /\ s = Pop(stack[t])
  PROVE  Outcome(t)
<1>1. q.threadId = IF ~isPassiveRun /\ Frames(probed, stack[t]) # 0 /\ Frames(probed, s) = 0
                   THEN None ELSE tracker[t].threadId
  OBVIOUS
<1>2. QED BY <1>1, PlainOutcome

(* Return: Track_LeaveMain.                                                *)
LEMMA ReturnOutcome ==
  ASSUME TypeOK, Structured, OneMain, Followed, Alive, NEW t \in Threads, Return(t)
  PROVE  Outcome(t)
<1> DEFINE s == stack[t]
           e == exn[t]
           r == tracker[t]
           q == IF MainEntry(probed, s[Len(s)]) THEN TrackLeaveMain(r, started[t]) ELSE r
<1>0. /\ r \in Slots /\ ~r.crashed /\ s \in Seq(Entries) /\ e \in Exns /\ started[t] \in Nat
      /\ Following(probed, s, e, r, started[t])
  BY Thread
<1>1. /\ e.phase = "none" /\ s # <<>> /\ s[Len(s)].kind = "method"
      /\ tracker' = [tracker EXCEPT ![t] = q] /\ stack' = [stack EXCEPT ![t] = Pop(s)]
      /\ UNCHANGED <<profilerVars, started>> /\ exn' = exn
  BY DEF Return, Runs, Top, IsMainFrame, MainEntry
<1>2. exn' = [exn EXCEPT ![t] = e] BY <1>1, SelfUpdate
<1>3. /\ Following(probed, Pop(s), e, q, started[t])
      /\ isPassiveRun \/ r.threadId # None \/ Frames(probed, s) = 0 => q.failed = r.failed
      /\ q.threadId = IF /\ ~isPassiveRun
                         /\ Frames(probed, s) # 0 /\ Frames(probed, Pop(s)) = 0
                      THEN None ELSE r.threadId
  <2> HIDE DEF s, e, r
  <2>1. QED BY <1>0, <1>1, ReturnFollows
<1> HIDE DEF q
<1>4. QED BY <1>1, <1>2, <1>3, PlainOutcome

(* Probe: Track_Coverage and its kin.                                      *)
LEMMA ProbeOutcome ==
  ASSUME TypeOK, Structured, OneMain, Followed, Alive, NEW t \in Threads, Probe(t)
  PROVE  Outcome(t)
<1> DEFINE s == stack[t]
           e == exn[t]
           r == tracker[t]
           q == TrackCoverage(r, started[t])
<1>0. /\ r \in Slots /\ s \in Seq(Entries) /\ e \in Exns /\ started[t] \in Nat
      /\ Following(probed, s, e, r, started[t])
  BY Thread
<1>1. /\ tracker' = [tracker EXCEPT ![t] = q] /\ stack' = stack /\ exn' = exn
      /\ UNCHANGED <<profilerVars, started>>
  BY DEF Probe, runtimeVars
<1>2. /\ stack' = [stack EXCEPT ![t] = s] /\ exn' = [exn EXCEPT ![t] = e]
  BY <1>1, SelfUpdate
<1>3. Following(probed, s, e, q, started[t]) /\ q.failed = r.failed /\ q.threadId = r.threadId
  <2> HIDE DEF s, e, r
  <2>1. QED BY <1>0, ProbeFollows
<1> HIDE DEF q
<1>4. QED BY <1>1, <1>2, <1>3, QuietOutcome

-----------------------------------------------------------------------------
(* A callback changes a thread only while it is tracked. *)
LEMMA CallbackSeen ==
  ASSUME NEW t \in Threads, NEW handled, Callback(t, handled)
  PROVE  tracker' = [tracker EXCEPT ![t] = Seen(tracker[t], handled)]
BY DEF Callback, WhenTracked, IsTracked, Exist, Seen

(* Throw: ExceptionThrown, the abort of a thread included.                 *)
LEMMA ThrowOutcome ==
  ASSUME TypeOK, Structured, Confined, OneMain, Followed, Alive,
         NEW t \in Threads, NEW abort \in BOOLEAN, Throw(t, abort)
  PROVE  Outcome(t)
<1> DEFINE s == stack[t]
           e == exn[t]
           r == tracker[t]
           n == started[t]
           h == IF abort THEN AbortCurrentThread(InvocationAborted(r)) ELSE r
           q == Seen(r, h)
<1>0. /\ r \in Slots /\ ~r.crashed /\ s \in Seq(Entries) /\ e \in Exns /\ n \in Nat
      /\ Following(probed, s, e, r, n)
  BY Thread
<1>1. /\ e.phase = "none" /\ Callback(t, h) /\ stack' = stack
      /\ UNCHANGED <<profilerVars, started>>
      /\ \A j \in 1..Len(s) : s[j].kind # "finally"
  <2>1. DOMAIN s = 1..Len(s) BY <1>0
  <2>2. QED BY <2>1 DEF Throw, Runs, InFinally, Confined
<1>2. tracker' = [tracker EXCEPT ![t] = q] BY <1>1, CallbackSeen
<1>3. PICK target \in 0..Len(s) : /\ \A j \in (target + 1)..Len(s) : s[j].kind = "method"
                                  /\ exn' = [exn EXCEPT ![t] = [phase |-> "search", target |-> target]]
  BY DEF Throw, MethodsAbove
<1> DEFINE f == [phase |-> "search", target |-> target]
<1>4. f \in Exns /\ f.phase = "search" /\ f.target = target /\ target <= Len(s)
  BY <1>0, <1>3 DEF Exns
<1>5. stack' = [stack EXCEPT ![t] = s] BY <1>1, SelfUpdate
<1> HIDE DEF f
<1>6. InFlight(probed, s, Len(s), f) BY <1>3, <1>4 DEF InFlight
<1>7. CASE r.balance # None /\ abort
  <2>1. q = AbortCurrentThread(InvocationAborted(r)) BY <1>7 DEF Seen
  <2>2. r.coverage # None
    <3>1. Known(probed, s, e, r, n) BY <1>0, FollowingFacts
    <3>2. QED BY <1>7, <3>1 DEF Known
  <2>3. q.crashed /\ q.failed = r.failed BY <1>0, <2>1, <2>2, AbortedFacts
  <2> HIDE DEF q, h
  <2>4. tracker'[t] = q BY <1>2 DEF TypeOK
  <2>5. ~Alive' BY <2>3, <2>4 DEF Alive
  <2>6. exn' = [exn EXCEPT ![t] = f] BY <1>3 DEF f
  <2>7. QED BY <1>1, <1>2, <1>5, <2>3, <2>5, <2>6, PlainOutcome
<1>8. CASE ~(r.balance # None /\ abort)
  <2>1. q = r BY <1>8 DEF Seen
  <2> HIDE DEF q, h
  <2>2. Following(probed, s, f, r, n)
    <3> HIDE DEF s, e, r, n
    <3>1. QED BY <1>0, <1>1, <1>4, <1>6, RedirectFollows
  <2>3. exn' = [exn EXCEPT ![t] = f] BY <1>3 DEF f
  <2>4. QED BY <1>1, <1>2, <1>5, <2>1, <2>2, <2>3, QuietOutcome
<1>9. QED BY <1>7, <1>8

(* ThrowFromFilter: the exception targets the filter it was thrown in.     *)
LEMMA ThrowFromFilterOutcome ==
  ASSUME TypeOK, Structured, Confined, OneMain, Followed, Alive,
         NEW t \in Threads, ThrowFromFilter(t)
  PROVE  Outcome(t)
<1> DEFINE s == stack[t]
           e == exn[t]
           r == tracker[t]
           n == started[t]
<1>0. /\ r \in Slots /\ s \in Seq(Entries) /\ e \in Exns /\ n \in Nat
      /\ Following(probed, s, e, r, n) /\ DOMAIN s = 1..Len(s) /\ Len(s) \in Nat
  BY Thread
<1>1. /\ e.phase = "none" /\ tracker' = tracker /\ stack' = stack
      /\ UNCHANGED <<profilerVars, started>>
  BY DEF ThrowFromFilter, Runs
<1>2. PICK i \in 1..Len(s) :
        /\ s[i].kind = "filter" /\ \A j \in (i + 1)..Len(s) : s[j].kind = "method"
        /\ Cardinality({j \in 1..i : IsMainFrame(s[j])}) <= EscapeDepth
        /\ exn' = [exn EXCEPT ![t] = [phase |-> "search", target |-> i - 1]]
  BY <1>0 DEF ThrowFromFilter, MethodsAbove
<1> DEFINE f == [phase |-> "search", target |-> i - 1]
<1>3. f \in Exns /\ f.phase = "search" /\ f.target = i - 1 /\ i - 1 + 1 = i /\ i - 1 <= Len(s)
  BY <1>0, <1>2 DEF Exns
<1> HIDE DEF f
<1>4. Cardinality(MainFrames(probed, s, i)) <= 1
  <2>1. MainFrames(probed, s, i) = {j \in 1..i : IsMainFrame(s[j])}
    BY DEF MainFrames, MainEntry, IsMainFrame
  <2>2. Cardinality(MainFrames(probed, s, i)) \in Nat BY FiniteParts
  <2>3. QED BY <1>2, <2>1, <2>2, TrackingAssumption DEF Confined
<1>5. InFlight(probed, s, Len(s), f)
  <2>1. \A j \in i..Len(s) : j = i \/ j \in (i + 1)..Len(s) BY <1>0
  <2>2. QED BY <1>2, <1>3, <1>4, <2>1 DEF InFlight
<1>6. \A j \in 1..Len(s) : s[j].kind # "finally"
  <2>1. \A j \in 1..(i - 1) : s[j].kind # "finally" BY <1>0, <1>2 DEF Following, Nesting
  <2>2. \A j \in 1..Len(s) : j \in 1..(i - 1) \/ j = i \/ j \in (i + 1)..Len(s) BY <1>0
  <2>3. QED BY <1>2, <2>1, <2>2
<1>7. Following(probed, s, f, r, n)
  <2> HIDE DEF s, e, r, n
  <2>1. QED BY <1>0, <1>1, <1>3, <1>5, <1>6, RedirectFollows
<1>8. /\ stack' = [stack EXCEPT ![t] = s] /\ tracker' = [tracker EXCEPT ![t] = r]
      /\ exn' = [exn EXCEPT ![t] = f]
  BY <1>1, <1>2, SelfUpdate DEF f
<1>9. QED BY <1>1, <1>7, <1>8, QuietOutcome

(* Catch: the frame of the catch is entered and stays.                     *)
LEMMA CatchOutcome ==
  ASSUME TypeOK, Structured, OneMain, Followed, Alive, NEW t \in Threads, Catch(t)
  PROVE  Outcome(t)
<1> DEFINE s == stack[t]
           e == exn[t]
           r == tracker[t]
           n == started[t]
           fn == FunctionAt(t, e.target)
           h == UnwindFunctionEnter(r, fn)
           q == Seen(r, h)
<1>0. /\ r \in Slots /\ s \in Seq(Entries) /\ e \in Exns /\ n \in Nat /\ Len(s) \in Nat
      /\ Following(probed, s, e, r, n)
  BY Thread
<1>1. /\ e.phase \in {"search", "unwind"} /\ Len(s) = e.target
      /\ Callback(t, h) /\ stack' = stack /\ exn' = [exn EXCEPT ![t] = NoExn]
      /\ UNCHANGED <<profilerVars, started>>
  BY DEF Catch, Unwinding
<1>2. tracker' = [tracker EXCEPT ![t] = q] BY <1>1, CallbackSeen
<1>3. fn \in Functions \cup {HostFunction}
  <2>1. CASE e.target = 0 BY <2>1 DEF FunctionAt
  <2>2. CASE e.target # 0
    <3>1. e.target \in 1..Len(s) BY <1>0, <1>1, <2>2
    <3>2. s[e.target] \in Entries BY <1>0, <3>1
    <3>3. QED BY <2>2, <3>2 DEF FunctionAt, Entries
  <2>3. QED BY <2>1, <2>2
<1> HIDE DEF fn
<1>4. /\ q.balance = r.balance /\ q.inFilter = r.inFilter /\ q.coverage = r.coverage
      /\ q.reports = r.reports /\ q.threadId = r.threadId /\ q.failed = r.failed
  <2>1. /\ h.failed = r.failed
        /\ View(h) = <<r.threadId, r.balance, fn, r.inFilter, r.coverage, r.reports, r.crashed>>
    BY <1>0, <1>3, UnwindEnterFacts
  <2> HIDE DEF h
  <2>2. QED BY <2>1 DEF Seen, View
<1> HIDE DEF q
<1>5. NoExn \in Exns /\ NoExn.phase = "none" BY DEF NoExn, Exns
<1>6. Following(probed, s, NoExn, q, n)
  <2> HIDE DEF s, e, r, n
  <2>1. QED BY <1>0, <1>1, <1>4, <1>5, RedirectFollows
<1>7. stack' = [stack EXCEPT ![t] = s] BY <1>1, SelfUpdate
<1>8. QED BY <1>1, <1>2, <1>4, <1>6, <1>7, QuietOutcome

(* RunFilter: ExceptionSearchFilterEnter.                                  *)
LEMMA RunFilterOutcome ==
  ASSUME TypeOK, Structured, OneMain, Followed, Alive, NEW t \in Threads, RunFilter(t)
  PROVE  Outcome(t)
<1> DEFINE s == stack[t]
           e == exn[t]
           r == tracker[t]
           n == started[t]
           q == Seen(r, FilterEnter(r))
<1>0. /\ r \in Slots /\ s \in Seq(Entries) /\ e \in Exns /\ n \in Nat
      /\ Following(probed, s, e, r, n) /\ DOMAIN s = 1..Len(s)
  BY Thread
<1>1. /\ e.phase = "search" /\ Callback(t, FilterEnter(r))
      /\ exn' = [exn EXCEPT ![t] = NoExn] /\ UNCHANGED <<profilerVars, started>>
  BY DEF RunFilter
<1>2. tracker' = [tracker EXCEPT ![t] = q] BY <1>1, CallbackSeen
<1>3. PICK i \in 1..Len(s) : stack' = [stack EXCEPT ![t] = Append(s, Funclet("filter", s[i].fn, e))]
  BY <1>0 DEF RunFilter
<1> DEFINE x == Funclet("filter", s[i].fn, e)
<1>4. x \in Entries /\ x.kind = "filter" /\ x.resume = e /\ x.fn \in compiled
  <2>1. s[i] \in Entries /\ s[i].fn \in compiled BY <1>0 DEF OneMain
  <2>2. QED BY <1>0, <2>1 DEF Funclet, Entries
<1> HIDE DEF x
<1>5. Following(probed, Append(s, x), NoExn, q, n) /\ q.failed = r.failed /\ q.threadId = r.threadId
  <2> HIDE DEF s, e, r, n
  <2>1. QED BY <1>0, <1>1, <1>4, RunFilterFollows
<1>6. Frames(probed, s) # 0 => Frames(probed, Append(s, x)) # 0
  <2> HIDE DEF s
  <2>1. QED BY <1>0, <1>4, PushCount
<1> HIDE DEF q
<1>7. stack' = [stack EXCEPT ![t] = Append(s, x)] BY <1>3 DEF x
<1>8. QED BY <1>1, <1>2, <1>4, <1>5, <1>6, <1>7, QuietOutcome

(* RunFinally: the exception waits.                                        *)
LEMMA RunFinallyOutcome ==
  ASSUME TypeOK, Structured, OneMain, Followed, Alive, NEW t \in Threads, RunFinally(t)
  PROVE  Outcome(t)
<1> DEFINE s == stack[t]
           e == exn[t]
           r == tracker[t]
           n == started[t]
           x == Funclet("finally", s[Len(s)].fn, e)
<1>0. /\ r \in Slots /\ s \in Seq(Entries) /\ e \in Exns /\ n \in Nat
      /\ Following(probed, s, e, r, n) /\ Resumable(s, e)
  BY Thread
<1>1. /\ e.phase = "entered" /\ tracker' = tracker
      /\ exn' = [exn EXCEPT ![t] = NoExn] /\ UNCHANGED <<profilerVars, started>>
      /\ stack' = [stack EXCEPT ![t] = Append(s, x)]
  BY DEF RunFinally, Top
<1>2. Len(s) \in 1..Len(s)
  <2> HIDE DEF s, e
  <2>1. QED BY <1>0, <1>1 DEF Resumable, Entered, Exns
<1>3. x \in Entries /\ x.kind = "finally" /\ x.resume = e /\ x.fn \in compiled
  <2>1. s[Len(s)] \in Entries /\ s[Len(s)].fn \in compiled BY <1>0, <1>2 DEF OneMain
  <2>2. QED BY <1>0, <2>1 DEF Funclet, Entries
<1> HIDE DEF x
<1>4. Following(probed, Append(s, x), NoExn, r, n)
  <2> HIDE DEF s, e, r, n
  <2>1. QED BY <1>0, <1>1, <1>3, RunFinallyFollows
<1>5. Frames(probed, s) # 0 => Frames(probed, Append(s, x)) # 0
  <2> HIDE DEF s
  <2>1. QED BY <1>0, <1>3, PushCount
<1>6. tracker' = [tracker EXCEPT ![t] = r] BY <1>1, SelfUpdate
<1>7. QED BY <1>1, <1>3, <1>4, <1>5, <1>6, QuietOutcome

(* A funclet that returns was not a frame of main. *)
LEMMA PopFunclet ==
  ASSUME NEW P, NEW s \in Seq(Entries), s # <<>>, s[Len(s)].kind # "method"
  PROVE  /\ Frames(P, Pop(s)) = Frames(P, s)
         /\ s[Len(s)].resume \in Exns
<1>1. Frames(P, Pop(s)) = Frames(P, s) BY PopCount DEF MainEntry
<1>2. s[Len(s)] \in Entries BY PopFacts
<1>3. QED BY <1>1, <1>2 DEF Entries

(* FilterReturns: ExceptionSearchFilterLeave.                              *)
LEMMA FilterReturnsOutcome ==
  ASSUME TypeOK, Structured, OneMain, Followed, Alive, NEW t \in Threads, FilterReturns(t)
  PROVE  Outcome(t)
<1> DEFINE s == stack[t]
           e == exn[t]
           r == tracker[t]
           n == started[t]
           f == s[Len(s)].resume
           q == Seen(r, FilterLeave(r))
<1>0. /\ r \in Slots /\ s \in Seq(Entries) /\ e \in Exns /\ n \in Nat
      /\ Following(probed, s, e, r, n)
  BY Thread
<1>1. /\ e.phase = "none" /\ s # <<>> /\ s[Len(s)].kind = "filter" /\ Callback(t, FilterLeave(r))
      /\ exn' = [exn EXCEPT ![t] = f] /\ UNCHANGED <<profilerVars, started>>
      /\ stack' = [stack EXCEPT ![t] = Pop(s)]
  BY DEF FilterReturns, Runs, Top
<1>2. tracker' = [tracker EXCEPT ![t] = q] BY <1>1, CallbackSeen
<1>3. Frames(probed, Pop(s)) = Frames(probed, s) /\ f \in Exns
  <2> HIDE DEF s
  <2>1. QED BY <1>0, <1>1, PopFunclet
<1>4. Following(probed, Pop(s), f, q, n) /\ q.failed = r.failed /\ q.threadId = r.threadId
  <2> HIDE DEF s, e, r, n
  <2>1. QED BY <1>0, <1>1, <1>3, FilterReturnsFollows
<1> HIDE DEF q, f
<1>5. QED BY <1>1, <1>2, <1>3, <1>4, QuietOutcome

(* FinallyReturns: the exception goes on.                                  *)
LEMMA FinallyReturnsOutcome ==
  ASSUME TypeOK, Structured, OneMain, Followed, Alive, NEW t \in Threads, FinallyReturns(t)
  PROVE  Outcome(t)
<1> DEFINE s == stack[t]
           e == exn[t]
           r == tracker[t]
           n == started[t]
           f == s[Len(s)].resume
<1>0. /\ r \in Slots /\ s \in Seq(Entries) /\ e \in Exns /\ n \in Nat
      /\ Following(probed, s, e, r, n)
  BY Thread
<1>1. /\ e.phase = "none" /\ s # <<>> /\ s[Len(s)].kind = "finally" /\ tracker' = tracker
      /\ exn' = [exn EXCEPT ![t] = f] /\ UNCHANGED <<profilerVars, started>>
      /\ stack' = [stack EXCEPT ![t] = Pop(s)]
  BY DEF FinallyReturns, Runs, Top
<1>2. tracker' = [tracker EXCEPT ![t] = r] BY <1>1, SelfUpdate
<1>3. Frames(probed, Pop(s)) = Frames(probed, s) /\ f \in Exns
  <2> HIDE DEF s
  <2>1. QED BY <1>0, <1>1, PopFunclet
<1>4. Following(probed, Pop(s), f, r, n)
  <2> HIDE DEF s, e, r, n
  <2>1. QED BY <1>0, <1>1, <1>3, FinallyReturnsFollows
<1> HIDE DEF f
<1>5. QED BY <1>1, <1>2, <1>3, <1>4, QuietOutcome

(* SwallowedByFilter: ExceptionSearchFilterLeave, after the unwinding.     *)
LEMMA SwallowedOutcome ==
  ASSUME TypeOK, Structured, OneMain, Followed, Alive, NEW t \in Threads, SwallowedByFilter(t)
  PROVE  Outcome(t)
<1> DEFINE s == stack[t]
           e == exn[t]
           r == tracker[t]
           n == started[t]
           q == Seen(r, FilterLeave(r))
           f == [e EXCEPT !.phase = "search"]
<1>0. /\ r \in Slots /\ s \in Seq(Entries) /\ e \in Exns /\ n \in Nat
      /\ Following(probed, s, e, r, n)
  BY Thread
<1>1. /\ e.phase = "swallowed" /\ Callback(t, FilterLeave(r)) /\ stack' = stack
      /\ exn' = [exn EXCEPT ![t].phase = "search"] /\ UNCHANGED <<profilerVars, started>>
  BY DEF SwallowedByFilter
<1>2. tracker' = [tracker EXCEPT ![t] = q] BY <1>1, CallbackSeen
<1>3. /\ stack' = [stack EXCEPT ![t] = s] /\ exn' = [exn EXCEPT ![t] = f]
  BY <1>1, SelfUpdate
<1>4. Following(probed, s, f, q, n) /\ q.failed = r.failed /\ q.threadId = r.threadId
  <2> HIDE DEF s, e, r, n
  <2>1. QED BY <1>0, <1>1, SwallowedFollows
<1> HIDE DEF q, f
<1>5. QED BY <1>1, <1>2, <1>3, <1>4, QuietOutcome

(* UnwindEnter: ExceptionUnwindFunctionEnter.                              *)
LEMMA UnwindEnterOutcome ==
  ASSUME TypeOK, Structured, OneMain, Followed, Alive, NEW t \in Threads, UnwindEnter(t)
  PROVE  Outcome(t)
<1> DEFINE s == stack[t]
           e == exn[t]
           r == tracker[t]
           n == started[t]
           q == Seen(r, UnwindFunctionEnter(r, s[Len(s)].fn))
           f == [e EXCEPT !.phase = "entered"]
<1>0. /\ r \in Slots /\ s \in Seq(Entries) /\ e \in Exns /\ n \in Nat
      /\ Following(probed, s, e, r, n)
  BY Thread
<1>1. /\ e.phase \in {"search", "unwind"} /\ Len(s) > e.target
      /\ Callback(t, UnwindFunctionEnter(r, s[Len(s)].fn)) /\ stack' = stack
      /\ exn' = [exn EXCEPT ![t].phase = "entered"] /\ UNCHANGED <<profilerVars, started>>
  BY DEF UnwindEnter, Unwinding, Top
<1>2. tracker' = [tracker EXCEPT ![t] = q] BY <1>1, CallbackSeen
<1>3. /\ stack' = [stack EXCEPT ![t] = s] /\ exn' = [exn EXCEPT ![t] = f]
  BY <1>1, SelfUpdate
<1>4. s # <<>> BY <1>0, <1>1 DEF Exns
<1>5. Following(probed, s, f, q, n) /\ q.failed = r.failed /\ q.threadId = r.threadId
  <2> HIDE DEF s, e, r, n
  <2>1. QED BY <1>0, <1>1, <1>4, UnwindEnterFollows
<1> HIDE DEF q, f
<1>6. QED BY <1>1, <1>2, <1>3, <1>5, QuietOutcome

(* UnwindLeave: ExceptionUnwindFunctionLeave.                              *)
LEMMA UnwindLeaveOutcome ==
  ASSUME TypeOK, Structured, OneMain, Followed, Alive, NEW t \in Threads, UnwindLeave(t)
  PROVE  Outcome(t)
<1> DEFINE s == stack[t]
           e == exn[t]
           r == tracker[t]
           n == started[t]
           x == s[Len(s)]
           q == Seen(r, UnwindFunctionLeave(r))
           f == IF x.kind = "filter" THEN [x.resume EXCEPT !.phase = "swallowed"]
                ELSE [e EXCEPT !.phase = "unwind"]
<1>0. /\ r \in Slots /\ ~r.crashed /\ s \in Seq(Entries) /\ e \in Exns /\ n \in Nat
      /\ Following(probed, s, e, r, n) /\ Resumable(s, e)
  BY Thread
<1>1. /\ e.phase = "entered" /\ Callback(t, UnwindFunctionLeave(r))
      /\ stack' = [stack EXCEPT ![t] = Pop(s)]
      /\ exn' = [exn EXCEPT ![t] = f] /\ UNCHANGED <<profilerVars, started>>
  BY DEF UnwindLeave, Top
<1>2. tracker' = [tracker EXCEPT ![t] = q] BY <1>1, CallbackSeen
<1>3. s # <<>>
  <2> HIDE DEF s, e
  <2>1. QED BY <1>0, <1>1 DEF Resumable, Entered, Exns
<1>4. /\ Following(probed, Pop(s), f, q, n)
      /\ isPassiveRun \/ r.threadId # None \/ Frames(probed, s) = 0 => q.failed = r.failed
      /\ q.threadId = IF /\ ~isPassiveRun
                         /\ Frames(probed, s) # 0 /\ Frames(probed, Pop(s)) = 0
                      THEN None ELSE r.threadId
  <2>1. \A g \in Functions : g \in probed <=> g = mainFunctionId BY DEF OneMain
  <2> HIDE DEF s, e, r, n
  <2>2. QED BY <1>0, <1>1, <2>1, UnwindLeaveFollows
<1> HIDE DEF q, f
<1>5. QED BY <1>1, <1>2, <1>3, <1>4, PlainOutcome

-----------------------------------------------------------------------------
(* The induction over the steps. *)
LEMMA StepOutcome ==
  ASSUME TypeOK, Structured, Confined, OneMain, Followed, Alive,
         NEW t \in Threads, Program(t) \/ Exceptions(t)
  PROVE  Outcome(t)
<1>1. CASE \E f \in Functions : CallFunction(t, f) BY <1>1, CallOutcome
<1>2. CASE \E f \in TailCallees : TailCall(t, f) BY <1>2, TailCallOutcome
<1>3. CASE Return(t) BY <1>3, ReturnOutcome
<1>4. CASE Probe(t) BY <1>4, ProbeOutcome
<1>5. CASE Throw(t, FALSE) \/ Throw(t, TRUE) BY <1>5, ThrowOutcome
<1>6. CASE ThrowFromFilter(t) BY <1>6, ThrowFromFilterOutcome
<1>7. CASE RunFilter(t) BY <1>7, RunFilterOutcome
<1>8. CASE FilterReturns(t) BY <1>8, FilterReturnsOutcome
<1>9. CASE SwallowedByFilter(t) BY <1>9, SwallowedOutcome
<1>10. CASE UnwindEnter(t) BY <1>10, UnwindEnterOutcome
<1>11. CASE UnwindLeave(t) BY <1>11, UnwindLeaveOutcome
<1>12. CASE Catch(t) BY <1>12, CatchOutcome
<1>13. CASE RunFinally(t) BY <1>13, RunFinallyOutcome
<1>14. CASE FinallyReturns(t) BY <1>14, FinallyReturnsOutcome
<1>15. QED
  BY <1>1, <1>2, <1>3, <1>4, <1>5, <1>6, <1>7, <1>8, <1>9, <1>10, <1>11, <1>12, <1>13, <1>14
  DEF Program, Exceptions

(* Nothing runs in a process that crashed. *)
LEMMA StepsAreAlive ==
  ASSUME NEW t \in Threads, Execute(t) \/ Program(t) \/ Exceptions(t)
  PROVE  Alive
BY DEF Execute, SetEntryMain, SetCurrentThreadId, Program, CallFunction, TailCall, Return, Probe,
       Exceptions, Throw, ThrowFromFilter, RunFilter, FilterReturns, SwallowedByFilter,
       UnwindEnter, UnwindLeave, Catch, RunFinally, FinallyReturns, Runs, Unwinding

(* A step of the program compiles a function or leaves the profiler alone. *)
LEMMA OnlyCallsCompile ==
  ASSUME NEW t \in Threads, Program(t) \/ Exceptions(t)
  PROVE  /\ isPassiveRun' = isPassiveRun /\ entryMain' = entryMain
         /\ \/ \E f \in Functions : CallFunction(t, f)
            \/ \E f \in TailCallees : TailCall(t, f)
            \/ UNCHANGED <<profilerVars, request, armed>>
BY DEF Program, CallFunction, TailCall, Return, Probe, Exceptions, Throw, ThrowFromFilter,
       RunFilter, FilterReturns, SwallowedByFilter, UnwindEnter, UnwindLeave, Catch,
       RunFinally, FinallyReturns, profilerVars, runtimeVars

(* What a step keeps of the functions with probes.                         *)
LEMMA ProfilerStep ==
  ASSUME TypeOK, Confined, OneMain, NEW t \in Threads, Program(t) \/ Exceptions(t)
  PROVE  /\ \A g \in Functions : g \in probed' <=> g = mainFunctionId'
         /\ \A g \in probed' : MethodOf[g] \in Mains
         /\ \A g \in compiled : g \in probed <=> g \in probed'
         /\ probed \subseteq probed' /\ compiled \subseteq compiled'
         /\ entryMain' = entryMain /\ isPassiveRun' = isPassiveRun
<1>1. CASE \E f \in Functions : CallFunction(t, f)
  BY <1>1, JitKeepsMain, OnlyCallsCompile DEF CallFunction
<1>2. CASE \E f \in TailCallees : TailCall(t, f)
  BY <1>2, JitKeepsMain, OnlyCallsCompile, TrackingAssumption DEF TailCall
<1>3. CASE UNCHANGED profilerVars
  BY <1>3 DEF profilerVars, OneMain
<1>4. QED BY <1>1, <1>2, <1>3, OnlyCallsCompile

(* What a move of a stack keeps: its functions are compiled, its first     *)
(* entry stays, unless a tail call of main replaces it by main.            *)
LEMMA MoveKeeps ==
  ASSUME TypeOK, NEW t \in Threads, Moves(t), compiled \subseteq compiled',
         probed \subseteq probed', probed' \subseteq compiled',
         \A i \in 1..Len(stack[t]) : stack[t][i].fn \in compiled
  PROVE  /\ stack'[t] \in Seq(Entries)
         /\ \A i \in 1..Len(stack'[t]) : stack'[t][i].fn \in compiled'
         /\ stack[t] # <<>> /\ stack'[t] # <<>> /\ MainEntry(probed, stack[t][1])
              => MainEntry(probed', stack'[t][1])
<1> DEFINE s == stack[t]
           u == stack'[t]
<1>0. /\ s \in Seq(Entries) /\ Len(s) \in Nat
      /\ \A i \in 1..Len(s) : s[i].fn \in compiled'
  BY TypesAt
<1> HIDE DEF s, u
<1>1. CASE u = s
  <2>1. MainEntry(probed, s[1]) => MainEntry(probed', s[1]) BY DEF MainEntry
  <2>2. QED BY <1>0, <1>1, <2>1 DEF s, u
<1>2. ASSUME NEW x \in Entries, x.fn \in compiled', u = Append(s, x)
      PROVE  /\ u \in Seq(Entries) /\ \A i \in 1..Len(u) : u[i].fn \in compiled'
             /\ s # <<>> => u[1] = s[1]
  <2>1. /\ u \in Seq(Entries) /\ Len(u) = Len(s) + 1 /\ u[Len(s) + 1] = x
        /\ \A i \in 1..Len(s) : u[i] = s[i]
    BY <1>0, <1>2, PushFacts
  <2>2. \A i \in 1..Len(u) : i \in 1..Len(s) \/ i = Len(s) + 1 BY <1>0, <2>1
  <2>3. s # <<>> => 1 \in 1..Len(s) BY <1>0
  <2>4. QED BY <1>0, <1>2, <2>1, <2>2, <2>3
<1>3. ASSUME s # <<>>
      PROVE  LET p == Pop(s)
             IN  /\ p \in Seq(Entries) /\ Len(p) \in Nat
                 /\ \A i \in 1..Len(p) : p[i] = s[i] /\ p[i].fn \in compiled'
                 /\ p # <<>> => p[1] = s[1]
  <2> DEFINE p == Pop(s)
  <2>1. /\ p \in Seq(Entries) /\ Len(p) = Len(s) - 1 /\ Len(s) >= 1
        /\ \A i \in 1..(Len(s) - 1) : p[i] = s[i]
    BY <1>0, <1>3, PopFacts
  <2> HIDE DEF p
  <2>2. Len(p) \in Nat /\ \A i \in 1..Len(p) : i \in 1..(Len(s) - 1) /\ i \in 1..Len(s) BY <1>0, <2>1
  <2>3. p # <<>> => 1 \in 1..Len(p) BY <2>1
  <2>4. QED BY <1>0, <2>1, <2>2, <2>3 DEF p
<1>4. ASSUME s # <<>>, NEW f \in probed', f \in Functions, u = Append(Pop(s), Frame(f))
      PROVE  /\ u \in Seq(Entries) /\ \A i \in 1..Len(u) : u[i].fn \in compiled'
             /\ u[1] = s[1] \/ MainEntry(probed', u[1])
  <2> DEFINE p == Pop(s)
             x == Frame(f)
  <2>1. /\ p \in Seq(Entries) /\ Len(p) \in Nat
        /\ \A i \in 1..Len(p) : p[i] = s[i] /\ p[i].fn \in compiled'
        /\ p # <<>> => p[1] = s[1]
    BY <1>3, <1>4
  <2>2. x \in Entries /\ x.fn \in compiled' /\ MainEntry(probed', x)
    BY <1>4 DEF Frame, Entries, NoExn, Exns, MainEntry
  <2> HIDE DEF p, x
  <2>3. /\ u \in Seq(Entries) /\ Len(u) = Len(p) + 1 /\ u[Len(p) + 1] = x
        /\ \A i \in 1..Len(p) : u[i] = p[i]
    BY <1>4, <2>1, <2>2, PushFacts DEF p, x
  <2>4. \A i \in 1..Len(u) : i \in 1..Len(p) \/ i = Len(p) + 1 BY <2>1, <2>3
  <2>5. p = <<>> => Len(p) + 1 = 1 OBVIOUS
  <2>6. p # <<>> => 1 \in 1..Len(p) BY <2>1
  <2>7. QED BY <2>1, <2>2, <2>3, <2>4, <2>5, <2>6
<1>5. MainEntry(probed, s[1]) => MainEntry(probed', s[1]) BY DEF MainEntry
<1>6. Moves(t) <=> \/ u = s
                   \/ \E x \in Entries : x.fn \in compiled' /\ u = Append(s, x)
                   \/ s # <<>> /\ u = Pop(s)
                   \/ s # <<>> /\ \E f \in probed' : f \in Functions /\ u = Append(Pop(s), Frame(f))
  BY DEF Moves, s, u
<1>7. /\ u \in Seq(Entries) /\ \A i \in 1..Len(u) : u[i].fn \in compiled'
      /\ s # <<>> /\ u # <<>> /\ MainEntry(probed, s[1]) => MainEntry(probed', u[1])
  BY <1>0, <1>1, <1>2, <1>3, <1>4, <1>5, <1>6
<1>8. QED BY <1>7 DEF s, u

(* One main is compiled once, and every thread stays followed.             *)
LEMMA FollowedStep ==
  ASSUME TypeOK, Structured, Confined, OneMain, Alive => Followed, [Next]_vars, TypeOK'
  PROVE  OneMain' /\ (Alive' => Followed')
<1>1. ASSUME NEW t \in Threads, Program(t) \/ Exceptions(t)
      PROVE  OneMain' /\ (Alive' => Followed')
  <2>0. Alive /\ Followed BY <1>1, StepsAreAlive
  <2>1. Outcome(t) BY <1>1, <2>0, StepOutcome
  <2>2. /\ \A g \in Functions : g \in probed' <=> g = mainFunctionId'
        /\ \A g \in probed' : MethodOf[g] \in Mains
        /\ \A g \in compiled : g \in probed <=> g \in probed'
        /\ probed \subseteq probed' /\ compiled \subseteq compiled'
        /\ entryMain' = entryMain
    BY <1>1, ProfilerStep
  <2>3. ASSUME NEW u \in Threads
        PROVE  \A i \in 1..Len(stack'[u]) : stack'[u][i].fn \in compiled'
    <3>1. \A i \in 1..Len(stack[u]) : stack[u][i].fn \in compiled BY DEF OneMain
    <3>2. CASE u = t
      <4>1. Moves(t) /\ probed' \subseteq compiled' BY <2>1 DEF Outcome, TypeOK
      <4>2. QED BY <2>2, <3>1, <3>2, <4>1, MoveKeeps
    <3>3. CASE u # t
      <4>1. stack'[u] = stack[u] BY <2>1, <3>3 DEF Outcome
      <4>2. QED BY <2>2, <3>1, <4>1
    <3>4. QED BY <3>2, <3>3
  <2>4. OneMain' BY <2>2, <2>3 DEF OneMain
  <2>5. ASSUME Alive', NEW u \in Threads
        PROVE  Following(probed', stack'[u], exn'[u], tracker'[u], started'[u])
    <3>1. CASE u = t BY <2>1, <2>5, <3>1 DEF Outcome
    <3>2. CASE u # t
      <4>1. /\ tracker'[u] = tracker[u] /\ stack'[u] = stack[u] /\ exn'[u] = exn[u]
            /\ started'[u] = started[u]
        BY <2>1, <3>2 DEF Outcome
      <4>2. Following(probed', stack[u], exn[u], tracker[u], started[u])
        BY <2>0, <2>2, StillFollowed
      <4>3. QED BY <4>1, <4>2
    <3>3. QED BY <3>1, <3>2
  <2>6. QED BY <2>4, <2>5 DEF Followed
<1>2. ASSUME NEW t \in Threads, Execute(t)
      PROVE  OneMain' /\ (Alive' => Followed')
  <2>0. Alive /\ Followed BY <1>2, StepsAreAlive
  <2>1. /\ UNCHANGED <<mainFunctionId, compiled, probed, stack, exn, started>>
        /\ entryMain' = entryMain \/ entryMain' \in Mains
    BY <1>2 DEF Execute, SetEntryMain, SetCurrentThreadId, profilerVars
  <2>2. OneMain' BY <2>1 DEF OneMain
  <2>3. ASSUME NEW u \in Threads
        PROVE  View(tracker'[u]) = <<tracker'[u].threadId, tracker[u].balance, tracker[u].unwind,
                                     tracker[u].inFilter, tracker[u].coverage, tracker[u].reports,
                                     tracker[u].crashed>>
    <3>1. CASE tracker' = tracker BY <3>1 DEF View
    <3>2. CASE \E id \in MapIds : SetCurrentThreadId(t, id)
      <4>1. PICK id \in MapIds : tracker' = [tracker EXCEPT ![t] = Store(tracker[t], "threadId", id)]
        BY <3>2 DEF SetCurrentThreadId, MapCurrentThread
      <4>2. CASE u # t
        <5>1. tracker'[u] = tracker[u] BY <4>1, <4>2 DEF TypeOK
        <5>2. QED BY <5>1 DEF View
      <4>3. CASE u = t
        <5>1. tracker[t] \in Slots /\ id \in Int BY TypesAt, TrackingAssumption
        <5>2. tracker'[t] = Store(tracker[t], "threadId", id) BY <4>1 DEF TypeOK
        <5>3. View(tracker'[t]) = <<id, tracker[t].balance, tracker[t].unwind, tracker[t].inFilter,
                                    tracker[t].coverage, tracker[t].reports, tracker[t].crashed>>
          BY <5>1, <5>2, StoreThreadId
        <5>4. QED BY <4>3, <5>3 DEF View
      <4>4. QED BY <4>2, <4>3
    <3>3. QED BY <1>2, <3>1, <3>2 DEF Execute, SetEntryMain
  <2>4. ASSUME NEW u \in Threads
        PROVE  Following(probed', stack'[u], exn'[u], tracker'[u], started'[u])
    <3>1. Following(probed, stack[u], exn[u], tracker[u], started[u]) BY <2>0 DEF Followed
    <3>2. /\ tracker'[u].balance = tracker[u].balance /\ tracker'[u].unwind = tracker[u].unwind
          /\ tracker'[u].inFilter = tracker[u].inFilter /\ tracker'[u].coverage = tracker[u].coverage
          /\ tracker'[u].reports = tracker[u].reports
      BY <2>3 DEF View
    <3>3. QED BY <2>1, <3>1, <3>2 DEF Following, Counting, Leaving, Reporting
  <2>5. QED BY <2>2, <2>4 DEF Followed
<1>3. CASE UNCHANGED vars
  <2>1. OneMain' BY <1>3 DEF OneMain, vars
  <2>2. Alive' => Followed' BY <1>3 DEF Alive, Followed, vars
  <2>3. QED BY <2>1, <2>2
<1>4. QED BY <1>1, <1>2, <1>3 DEF Next

(* An empty stack is followed by empty storages.                           *)
LEMMA NothingYet ==
  ASSUME NEW P
  PROVE  Following(P, <<>>, NoExn, NoEntries, 0)
<1>1. MainFrames(P, <<>>, 0) = {} /\ FiltersAbove(P, <<>>, 0) = {}
  BY DEF MainFrames, FiltersAbove
<1>2. Frames(P, <<>>) = 0 /\ Filters(P, <<>>) = 0
  BY <1>1, FS_EmptySet DEF Frames, Filters
<1>3. NoExn.phase = "none" /\ NoEntries.reports = <<>> BY DEF NoExn, NoEntries
<1>4. Nesting(P, <<>>, NoExn) BY <1>3 DEF Nesting
<1>5. Counting(P, <<>>, NoExn, NoEntries) BY <1>2 DEF Counting, NoEntries
<1>6. Leaving(P, <<>>, NoExn, NoEntries) BY <1>3 DEF Leaving
<1>7. Reporting(P, <<>>, NoEntries, 0) BY <1>2, <1>3 DEF Reporting, NoEntries
<1>8. QED BY <1>4, <1>5, <1>6, <1>7 DEF Following

(* Initially nothing is compiled and no thread is tracked.                 *)
LEMMA FollowedInit == Init => OneMain /\ Followed
<1> SUFFICES ASSUME Init PROVE OneMain /\ Followed OBVIOUS
<1>1. /\ probed = {} /\ mainFunctionId = NoFunction /\ entryMain \in Mains \cup {None}
      /\ \A t \in Threads : /\ stack[t] = <<>> /\ exn[t] = NoExn /\ tracker[t] = NoEntries
                            /\ started[t] = 0
  BY DEF Init
<1>2. OneMain BY <1>1, TrackingAssumption DEF OneMain
<1>3. Followed BY <1>1, NothingYet DEF Followed
<1>4. QED BY <1>2, <1>3

(* The inductive invariant.                                                *)
LEMMA FollowedAlways ==
  ASSUME Confined
  PROVE  Spec => [](TypeOK /\ (Alive => Followed))
<1> DEFINE I == TypeOK /\ Structured /\ OneMain /\ (Alive => Followed)
<1>1. Init => I BY TypeInit, FollowedInit
<1>2. I /\ [Next]_vars => I'
  <2>1. SUFFICES ASSUME I, [Next]_vars PROVE I' OBVIOUS
  <2>2. TypeOK' /\ Structured' BY <2>1, TypeStep
  <2>3. OneMain' /\ (Alive' => Followed') BY <2>1, <2>2, FollowedStep
  <2>4. QED BY <2>2, <2>3
<1>3. I => TypeOK /\ (Alive => Followed) OBVIOUS
<1>4. QED BY <1>1, <1>2, <1>3, PTL DEF Spec

(* When the program under test has one main, compiled to one function that *)
(* calls none but itself in tail position, no exception leaves two frames  *)
(* of main through a filter and none is thrown while a finally block runs, *)
(* then stackBalance of threadTracker.cpp is the depth of main on every    *)
(* thread, for any stack and any number of threads.                        *)
THEOREM BalanceCorrect ==
  ASSUME Confined
  PROVE  Spec => []BalanceIsMainDepth
<1>1. TypeOK /\ (Alive => Followed) => BalanceIsMainDepth
  <2>1. SUFFICES ASSUME TypeOK, Followed, Alive, NEW t \in Threads
                 PROVE  tracker[t].balance = IF Depth(t) = 0 THEN None ELSE Depth(t)
    BY DEF BalanceIsMainDepth
  <2>2. QED BY <2>1, DepthIsFrames DEF Followed, Following, Counting
<1>2. QED BY <1>1, FollowedAlways, PTL

(* Under the same conditions inFilter counts the filters that run above    *)
(* main, the one an exception was swallowed in included: what              *)
(* UnwindFunctionLeave tests to tell a filter of main from its frame.      *)
THEOREM FilterCountCorrect ==
  ASSUME Confined
  PROVE  Spec => []FilterCountIsExact
<1>1. TypeOK /\ (Alive => Followed) => FilterCountIsExact
  <2>1. SUFFICES ASSUME TypeOK, Followed, Alive, NEW t \in Threads, Exist(tracker[t], "inFilter")
                 PROVE  tracker[t].inFilter =
                          Cardinality({i \in DOMAIN stack[t] :
                                         /\ stack[t][i].kind = "filter"
                                         /\ \E j \in 1..i : IsMainFrame(stack[t][j])})
                          + IF exn[t].phase = "swallowed" THEN 1 ELSE 0
    BY DEF FilterCountIsExact
  <2>2. stack[t] \in Seq(Entries) BY <2>1, TypesAt
  <2>3. DOMAIN stack[t] = 1..Len(stack[t]) BY <2>2
  <2>4. {i \in DOMAIN stack[t] : /\ stack[t][i].kind = "filter"
                                 /\ \E j \in 1..i : IsMainFrame(stack[t][j])}
          = FiltersAbove(probed, stack[t], Len(stack[t]))
    BY <2>3 DEF FiltersAbove, MainEntry, IsMainFrame
  <2>5. tracker[t].inFilter # None BY <2>1 DEF Exist
  <2>6. Counting(probed, stack[t], exn[t], tracker[t]) BY <2>1 DEF Followed, Following
  <2>7. tracker[t].inFilter = Filters(probed, stack[t])
                              + IF exn[t].phase = "swallowed" THEN 1 ELSE 0
    BY <2>5, <2>6 DEF Counting
  <2>8. QED BY <2>4, <2>7 DEF Filters
<1>2. QED BY <1>1, FollowedAlways, PTL

(* Under the same conditions OnCurrentThreadFinished reports each outermost *)
(* invocation of main once, with its own records, however main is left.    *)
THEOREM ReportsCorrect ==
  ASSUME Confined
  PROVE  Spec => []OneReportPerInvocation
<1>1. TypeOK /\ (Alive => Followed) => OneReportPerInvocation
  <2>1. SUFFICES ASSUME TypeOK, Followed, Alive, NEW t \in Threads
                 PROVE  LET ended == started[t] - IF Depth(t) = 0 THEN 0 ELSE 1
                        IN  /\ Len(tracker[t].reports) = ended
                            /\ \A i \in 1..ended : tracker[t].reports[i].of = {i}
    BY DEF OneReportPerInvocation
  <2> DEFINE ended == started[t] - IF Depth(t) = 0 THEN 0 ELSE 1
  <2>2. Depth(t) = Frames(probed, stack[t]) /\ started[t] \in Nat BY <2>1, DepthIsFrames, TypesAt
  <2>3. Reporting(probed, stack[t], tracker[t], started[t]) BY <2>1 DEF Followed, Following
  <2>4. Len(tracker[t].reports) = ended BY <2>2, <2>3 DEF Reporting
  <2>5. \A i \in 1..Len(tracker[t].reports) : tracker[t].reports[i].of = {i}
    BY <2>3 DEF Reporting
  <2>6. QED BY <2>4, <2>5
<1>2. QED BY <1>1, FollowedAlways, PTL

-----------------------------------------------------------------------------
(* The assertions.  Apart from calls, the steps of the program leave what  *)
(* Execute prepares alone, and none of them starts on an empty stack.      *)
LEMMA OnlyCallsEnter ==
  ASSUME TypeOK, Structured, NEW t \in Threads, Program(t) \/ Exceptions(t),
         ~\E f \in Functions : CallFunction(t, f)
  PROVE  /\ armed' = armed /\ request' = request
         /\ stack[t] = <<>> => stack'[t] = <<>> /\ UNCHANGED profilerVars
<1>0. /\ stack[t] \in Seq(Entries) /\ exn[t] \in Exns /\ Resumable(stack[t], exn[t])
      /\ stack \in [Threads -> Seq(Entries)]
  BY TypesAt DEF Structured, TypeOK
<1>1. CASE \/ \E f \in TailCallees : TailCall(t, f)
           \/ Return(t) \/ FilterReturns(t) \/ FinallyReturns(t)
  BY <1>1 DEF TailCall, Return, FilterReturns, FinallyReturns
<1>2. CASE \/ Probe(t) \/ Throw(t, FALSE) \/ Throw(t, TRUE) \/ ThrowFromFilter(t)
           \/ SwallowedByFilter(t) \/ UnwindEnter(t) \/ Catch(t)
  BY <1>2 DEF Probe, Throw, ThrowFromFilter, SwallowedByFilter, UnwindEnter, Catch, runtimeVars
<1>3. CASE RunFilter(t)
  <2>1. \E i \in DOMAIN stack[t] : TRUE BY <1>3 DEF RunFilter
  <2>2. stack[t] # <<>> BY <1>0, <2>1
  <2>3. QED BY <1>3, <2>2 DEF RunFilter
<1>4. CASE UnwindLeave(t) \/ RunFinally(t)
  <2>1. exn[t].phase = "entered" BY <1>4 DEF UnwindLeave, RunFinally
  <2>2. exn[t].target < Len(stack[t]) /\ exn[t].target \in Nat
    BY <1>0, <2>1 DEF Resumable, Entered, Exns
  <2>3. stack[t] # <<>> BY <2>2
  <2>4. QED BY <1>4, <2>3 DEF UnwindLeave, RunFinally
<1>5. QED BY <1>1, <1>2, <1>3, <1>4 DEF Program, Exceptions

(* A thread calls into the program when main is set, and what it then      *)
(* enters is main.                                                         *)
LEMMA CallsAfterSetEntryMain ==
  ASSUME TypeOK, OneMain, Invoked, Mapped, MainsAreProbed,
         NEW t \in Threads, NEW f \in Functions, CallFunction(t, f)
  PROVE  /\ entryMain \in Mains
         /\ ~isPassiveRun /\ stack[t] = <<>> => armed[t] /\ MethodOf[f] \in Mains
<1>1. /\ Mapping(probed, stack[t], tracker[t], armed[t], request[t])
      /\ request[t] \in Mains \cup {None} /\ stack[t] \in Seq(Entries)
      /\ entryMain \in Mains \cup {None}
  BY TypesAt DEF Mapped, OneMain
<1>2. \/ stack[t] # <<>> \/ isPassiveRun
      \/ armed[t] /\ MethodOf[f] = request[t]
  BY DEF CallFunction, MayCall, Invoked
<1>3. entryMain # None
  <2>1. CASE stack[t] # <<>>
    <3>1. 1 \in 1..Len(stack[t]) BY <1>1, <2>1
    <3>2. compiled # {} BY <3>1 DEF OneMain
    <3>3. QED BY <3>2 DEF MainsAreProbed
  <2>2. CASE isPassiveRun BY <2>2 DEF MainsAreProbed
  <2>3. CASE armed[t] BY <1>1, <2>3 DEF Mapping
  <2>4. QED BY <1>2, <2>1, <2>2, <2>3
<1>4. armed[t] => request[t] \in Mains BY <1>1 DEF Mapping
<1>5. QED BY <1>1, <1>2, <1>3, <1>4

(* A compilation of main puts its probes in. *)
LEMMA JitProbesMain ==
  ASSUME Confined, OneMain, MainsAreProbed, NEW f \in Functions, Jit(f), entryMain \in Mains
  PROVE  \A g \in compiled' : MethodOf[g] \in Mains => g \in probed'
<1>1. SUFFICES ASSUME NEW g \in compiled', MethodOf[g] \in Mains PROVE g \in probed'
  OBVIOUS
<1>2. compiled' = compiled \cup {f} /\ probed \subseteq probed' BY DEF Jit
<1>3. CASE g \in compiled BY <1>1, <1>2, <1>3 DEF MainsAreProbed
<1>4. CASE g = f /\ f \notin compiled
  <2>1. MethodOf[f] = entryMain BY <1>1, <1>4 DEF Confined
  <2>2. QED BY <1>4, <2>1 DEF Jit
<1>5. QED BY <1>2, <1>3, <1>4

(* So every compiled main has its probes.                                  *)
LEMMA MainsStayProbed ==
  ASSUME TypeOK, Structured, Confined, OneMain, Invoked, Mapped, MainsAreProbed,
         NEW t \in Threads, Program(t) \/ Exceptions(t)
  PROVE  MainsAreProbed'
<1>1. isPassiveRun' = isPassiveRun /\ entryMain' = entryMain BY OnlyCallsCompile
<1>2. CASE \E f \in Functions : CallFunction(t, f)
  <2>1. PICK f \in Functions : CallFunction(t, f) BY <1>2
  <2>2. entryMain \in Mains /\ Jit(f) BY <2>1, CallsAfterSetEntryMain DEF CallFunction
  <2>3. entryMain # None BY <2>2, TrackingAssumption
  <2>4. QED BY <1>1, <2>2, <2>3, JitProbesMain DEF MainsAreProbed
<1>3. CASE \E f \in TailCallees : TailCall(t, f)
  <2>1. PICK f \in TailCallees : TailCall(t, f) BY <1>3
  <2>2. f \in Functions /\ Jit(f) /\ stack[t] # <<>> BY <2>1, TrackingAssumption DEF TailCall
  <2>3. 1 \in 1..Len(stack[t]) BY <2>2, TypesAt
  <2>4. compiled # {} BY <2>3 DEF OneMain
  <2>5. entryMain # None /\ entryMain \in Mains BY <2>4 DEF MainsAreProbed, OneMain
  <2>6. QED BY <1>1, <2>2, <2>5, JitProbesMain DEF MainsAreProbed
<1>4. CASE UNCHANGED profilerVars BY <1>4 DEF profilerVars, MainsAreProbed
<1>5. QED BY <1>2, <1>3, <1>4, OnlyCallsCompile

(* A thread whose first frame is main has one. *)
LEMMA MainFirst ==
  ASSUME NEW P, NEW s \in Seq(Entries)
  PROVE  /\ s = <<>> => Frames(P, s) = 0
         /\ s # <<>> /\ MainEntry(P, s[1]) => Frames(P, s) # 0
<1>1. Len(s) \in Nat OBVIOUS
<1>2. Frames(P, s) = 0 <=> MainFrames(P, s, Len(s)) = {} BY <1>1, FiniteParts DEF Frames
<1>3. s = <<>> => MainFrames(P, s, Len(s)) = {} BY DEF MainFrames
<1>4. s # <<>> => 1 \in 1..Len(s) BY <1>1
<1>5. s # <<>> /\ MainEntry(P, s[1]) => 1 \in MainFrames(P, s, Len(s)) BY <1>4 DEF MainFrames
<1>6. QED BY <1>2, <1>3, <1>5

(* The thread that takes the step. *)
LEMMA StepMaps ==
  ASSUME TypeOK, Structured, Confined, OneMain, Followed, Alive, Alive',
         Invoked, Mapped, MainsAreProbed, NEW t \in Threads, Program(t) \/ Exceptions(t)
  PROVE  Mapping(probed, stack[t], tracker[t], armed[t], request[t])'
<1> DEFINE s == stack[t]
           u == stack'[t]
           r == tracker[t]
           q == tracker'[t]
<1>0. /\ s \in Seq(Entries) /\ Mapping(probed, s, r, armed[t], request[t])
      /\ \A i \in 1..Len(s) : s[i].fn \in compiled
      /\ armed \in [Threads -> BOOLEAN] /\ request \in [Threads -> Mains \cup {None}]
  BY Thread DEF Mapped, OneMain, TypeOK
<1>1. Outcome(t) BY StepOutcome
<1>2. /\ q.threadId = IF ~isPassiveRun /\ Frames(probed, s) # 0 /\ Frames(probed', u) = 0
                      THEN None ELSE r.threadId
      /\ Moves(t)
  BY <1>1 DEF Outcome
<1>3. /\ probed \subseteq probed' /\ compiled \subseteq compiled'
      /\ entryMain' = entryMain /\ isPassiveRun' = isPassiveRun
  BY ProfilerStep
<1>4. probed' \subseteq compiled'
  <2>1. TypeOK' BY TypeStep DEF Next
  <2>2. QED BY <2>1 DEF TypeOK
<1>5. /\ u \in Seq(Entries)
      /\ s # <<>> /\ u # <<>> /\ MainEntry(probed, s[1]) => MainEntry(probed', u[1])
  BY <1>0, <1>2, <1>3, <1>4, MoveKeeps
<1>6. /\ s = <<>> => Frames(probed, s) = 0
      /\ u = <<>> => Frames(probed', u) = 0
      /\ s # <<>> /\ MainEntry(probed, s[1]) => Frames(probed, s) # 0
      /\ u # <<>> /\ MainEntry(probed', u[1]) => Frames(probed', u) # 0
  BY <1>0, <1>5, MainFirst
<1>7. CASE \E f \in Functions : CallFunction(t, f)
  <2>1. PICK f \in Functions : CallFunction(t, f) BY <1>7
  <2>2. /\ armed'[t] = FALSE /\ request'[t] = None
        /\ u = Append(s, Frame(f)) /\ Jit(f)
    BY <1>0, <2>1 DEF CallFunction, TypeOK
  <2>3. u # <<>>
    <3>1. Frame(f) \in Entries BY DEF Frame, Entries, NoExn, Exns
    <3> HIDE DEF s, u
    <3>2. QED BY <1>0, <2>2, <3>1
  <2>4. ASSUME ~isPassiveRun PROVE MainEntry(probed', u[1]) /\ q.threadId # None
    <3>1. CASE s = <<>>
      <4>1. armed[t] /\ MethodOf[f] \in Mains BY <2>1, <2>4, <3>1, CallsAfterSetEntryMain
      <4>2. f \in compiled' BY <2>2 DEF Jit
      <4>3. MainsAreProbed' BY MainsStayProbed
      <4>4. f \in probed' BY <4>1, <4>2, <4>3 DEF MainsAreProbed
      <4>5. u[1] = Frame(f) BY <2>2, <3>1
      <4>6. MainEntry(probed', u[1]) BY <4>4, <4>5 DEF MainEntry, Frame
      <4>7. r.threadId # None BY <1>0, <2>4, <4>1 DEF Mapping
      <4>8. QED BY <1>2, <1>6, <3>1, <4>6, <4>7
    <3>2. CASE s # <<>>
      <4>1. MainEntry(probed, s[1]) /\ r.threadId # None BY <1>0, <2>4, <3>2 DEF Mapping
      <4>2. QED BY <1>2, <1>5, <1>6, <2>3, <3>2, <4>1
    <3>3. QED BY <3>1, <3>2
  <2>5. stack'[t] # <<>> /\ tracker'[t].threadId = q.threadId BY <2>3
  <2>6. ~isPassiveRun' => /\ (tracker'[t].threadId # None) <=> (armed'[t] \/ stack'[t] # <<>>)
                          /\ MainEntry(probed', stack'[t][1])
    BY <1>3, <2>4, <2>5
  <2>7. QED BY <2>2, <2>5, <2>6 DEF Mapping, MainEntry
<1>8. CASE ~\E f \in Functions : CallFunction(t, f)
  <2>1. armed' = armed /\ request' = request /\ (s = <<>> => u = <<>>)
    BY <1>8, OnlyCallsEnter
  <2>2. armed[t] => s = <<>> /\ request[t] # None BY <1>0 DEF Mapping
  <2>3. request[t] # None => s = <<>> /\ entryMain # None BY <1>0 DEF Mapping
  <2>4. ASSUME ~isPassiveRun
        PROVE  /\ (q.threadId # None) <=> (armed[t] \/ u # <<>>)
               /\ u # <<>> => MainEntry(probed', u[1])
    <3>1. CASE s = <<>>
      <4>1. u = <<>> /\ q.threadId = r.threadId BY <1>2, <1>6, <2>1, <3>1
      <4>2. (r.threadId # None) <=> armed[t] BY <1>0, <2>4, <3>1 DEF Mapping
      <4>3. QED BY <4>1, <4>2
    <3>2. CASE s # <<>>
      <4>1. MainEntry(probed, s[1]) /\ r.threadId # None BY <1>0, <2>4, <3>2 DEF Mapping
      <4>2. ~armed[t] BY <2>2, <3>2
      <4>3. u # <<>> => MainEntry(probed', u[1]) BY <1>5, <3>2, <4>1
      <4>4. Frames(probed, s) # 0 /\ (Frames(probed', u) = 0 <=> u = <<>>)
        BY <1>6, <3>2, <4>1, <4>3
      <4>5. (q.threadId # None) <=> u # <<>> BY <1>2, <2>4, <4>1, <4>4
      <4>6. QED BY <4>2, <4>3, <4>5
    <3>3. QED BY <3>1, <3>2
  <2>5. isPassiveRun => request[t] = None BY <1>0 DEF Mapping
  <2>6. /\ armed'[t] => stack'[t] = <<>> /\ request'[t] # None
        /\ request'[t] # None => stack'[t] = <<>> /\ entryMain' # None
        /\ isPassiveRun' => request'[t] = None
    BY <1>3, <2>1, <2>2, <2>3, <2>5
  <2>7. ~isPassiveRun' => /\ (tracker'[t].threadId # None) <=> (armed'[t] \/ stack'[t] # <<>>)
                          /\ stack'[t] # <<>> => MainEntry(probed', stack'[t][1])
    BY <1>3, <2>1, <2>4
  <2>8. QED BY <2>6, <2>7 DEF Mapping, MainEntry
<1>9. QED BY <1>7, <1>8

(* Every step keeps the mapping of threads, and with it the assertions.    *)
LEMMA MappedStep ==
  ASSUME TypeOK, Structured, Confined, OneMain, Alive => Followed, Invoked,
         Alive => Mapped, MainsAreProbed, AssertionsHold, [Next]_vars
  PROVE  (Alive' => Mapped') /\ MainsAreProbed' /\ AssertionsHold'
<1>1. ASSUME NEW t \in Threads, Program(t) \/ Exceptions(t)
      PROVE  (Alive' => Mapped') /\ MainsAreProbed' /\ AssertionsHold'
  <2>0. Alive /\ Followed /\ Mapped BY <1>1, StepsAreAlive
  <2>1. Outcome(t) BY <1>1, <2>0, StepOutcome
  <2>2. MainsAreProbed' BY <1>1, <2>0, MainsStayProbed
  <2>3. ASSUME Alive', NEW v \in Threads
        PROVE  Mapping(probed, stack[v], tracker[v], armed[v], request[v])'
    <3>1. CASE v = t BY <1>1, <2>0, <2>3, <3>1, StepMaps
    <3>2. CASE v # t
      <4>1. tracker'[v] = tracker[v] /\ stack'[v] = stack[v] BY <2>1, <3>2 DEF Outcome
      <4>2. armed'[v] = armed[v] /\ request'[v] = request[v]
        <5>1. CASE \E f \in Functions : CallFunction(t, f)
          BY <3>2, <5>1 DEF CallFunction, TypeOK
        <5>2. CASE ~\E f \in Functions : CallFunction(t, f)
          BY <1>1, <5>2, OnlyCallsEnter
        <5>3. QED BY <5>1, <5>2
      <4>3. probed \subseteq probed' /\ entryMain' = entryMain /\ isPassiveRun' = isPassiveRun
        BY <1>1, ProfilerStep
      <4>4. Mapping(probed, stack[v], tracker[v], armed[v], request[v]) BY <2>0 DEF Mapped
      <4>5. QED BY <4>1, <4>2, <4>3, <4>4 DEF Mapping, MainEntry
    <3>3. QED BY <3>1, <3>2
  <2>4. tracker'[t].failed = {}
    <3>1. Mapping(probed, stack[t], tracker[t], armed[t], request[t]) BY <2>0 DEF Mapped
    <3>2. stack[t] = <<>> => Frames(probed, stack[t]) = 0 BY TypesAt, MainFirst
    <3>3. \/ isPassiveRun \/ tracker[t].threadId # None \/ Frames(probed, stack[t]) = 0
      BY <3>1, <3>2 DEF Mapping
    <3>4. QED BY <2>1, <3>3 DEF Outcome, AssertionsHold
  <2>5. AssertionsHold' BY <2>1, <2>4 DEF Outcome, AssertionsHold
  <2>6. QED BY <2>2, <2>3, <2>5 DEF Mapped
<1>2. ASSUME NEW t \in Threads, NEW m \in Mains, SetEntryMain(t, m)
      PROVE  (Alive' => Mapped') /\ MainsAreProbed' /\ AssertionsHold'
  <2>0. Alive /\ Mapped BY <1>2 DEF SetEntryMain
  <2>1. /\ ~isPassiveRun /\ stack[t] = <<>> /\ ~armed[t] /\ entryMain' = m
        /\ request' = [request EXCEPT ![t] = m] /\ armed' = [armed EXCEPT ![t] = FALSE]
        /\ UNCHANGED <<isPassiveRun, compiled, probed, tracker, stack>>
    BY <1>2 DEF SetEntryMain, Invoked
  <2>2. m # None BY TrackingAssumption
  <2>3. ASSUME NEW v \in Threads
        PROVE  Mapping(probed, stack[v], tracker[v], armed[v], request[v])'
    <3>1. Mapping(probed, stack[v], tracker[v], armed[v], request[v]) BY <2>0 DEF Mapped
    <3>2. /\ armed'[v] = armed[v] /\ request'[v] = IF v = t THEN m ELSE request[v]
      BY <2>1 DEF TypeOK
    <3>3. QED BY <2>1, <2>2, <3>1, <3>2 DEF Mapping, MainEntry
  <2>4. MainsAreProbed' BY <2>1, <2>2 DEF MainsAreProbed
  <2>5. AssertionsHold' BY <2>1 DEF AssertionsHold
  <2>6. QED BY <2>3, <2>4, <2>5 DEF Mapped
<1>3. ASSUME NEW t \in Threads, NEW id \in MapIds, SetCurrentThreadId(t, id)
      PROVE  (Alive' => Mapped') /\ MainsAreProbed' /\ AssertionsHold'
  <2> DEFINE q == Store(tracker[t], "threadId", id)
  <2>0. Alive /\ Mapped BY <1>3 DEF SetCurrentThreadId
  <2>1. /\ request[t] # None /\ ~armed[t] /\ stack[t] = <<>>
        /\ armed' = [armed EXCEPT ![t] = TRUE] /\ tracker' = [tracker EXCEPT ![t] = q]
        /\ UNCHANGED <<isPassiveRun, entryMain, compiled, probed, request, stack>>
    BY <1>3 DEF SetCurrentThreadId, MapCurrentThread, profilerVars
  <2>2. Mapping(probed, stack[t], tracker[t], armed[t], request[t]) BY <2>0 DEF Mapped
  <2>3. tracker[t].threadId = None BY <2>1, <2>2 DEF Mapping
  <2>4. id \in Int /\ id # None BY TrackingAssumption
  <2>5. q.threadId = id /\ q.failed = tracker[t].failed
    <3>1. tracker[t] \in Slots BY TypesAt
    <3>2. /\ q.failed = tracker[t].failed
          /\ View(q) = <<id, tracker[t].balance, tracker[t].unwind, tracker[t].inFilter,
                         tracker[t].coverage, tracker[t].reports, tracker[t].crashed>>
      BY <2>3, <2>4, <3>1, StoreThreadId
    <3> HIDE DEF q
    <3>3. QED BY <3>2 DEF View
  <2> HIDE DEF q
  <2>6. \A v \in Threads : /\ tracker'[v] = IF v = t THEN q ELSE tracker[v]
                           /\ armed'[v] = IF v = t THEN TRUE ELSE armed[v]
    BY <2>1 DEF TypeOK
  <2>7. ASSUME NEW v \in Threads
        PROVE  Mapping(probed, stack[v], tracker[v], armed[v], request[v])'
    <3>1. Mapping(probed, stack[v], tracker[v], armed[v], request[v]) BY <2>0 DEF Mapped
    <3>2. CASE v = t BY <2>1, <2>2, <2>4, <2>5, <2>6, <3>2 DEF Mapping, MainEntry
    <3>3. CASE v # t BY <2>1, <2>6, <3>1, <3>3 DEF Mapping, MainEntry
    <3>4. QED BY <3>2, <3>3
  <2>8. MainsAreProbed' BY <2>1 DEF MainsAreProbed
  <2>9. AssertionsHold' BY <2>5, <2>6 DEF AssertionsHold
  <2>10. QED BY <2>7, <2>8, <2>9 DEF Mapped
<1>4. CASE UNCHANGED vars
  <2>1. Alive' => Mapped' BY <1>4 DEF vars, Alive, Mapped, Mapping, MainEntry
  <2>2. MainsAreProbed' BY <1>4 DEF vars, MainsAreProbed
  <2>3. AssertionsHold' BY <1>4 DEF vars, AssertionsHold
  <2>4. QED BY <2>1, <2>2, <2>3
<1>5. QED BY <1>1, <1>2, <1>3, <1>4 DEF Next, Execute

(* When, besides, only Execute calls main and Invoke enters it, no         *)
(* profiler_assert of the storages and of the thread tracker fails, and a  *)
(* debug build of the profiler never aborts the process.                   *)
THEOREM AssertionsCorrect ==
  ASSUME Confined, Invoked
  PROVE  Spec => []AssertionsHold
<1> DEFINE I == /\ TypeOK /\ Structured /\ OneMain /\ (Alive => Followed)
                /\ (Alive => Mapped) /\ MainsAreProbed /\ AssertionsHold
<1>1. Init => I
  <2>1. SUFFICES ASSUME Init PROVE I OBVIOUS
  <2>2. TypeOK /\ Structured /\ OneMain /\ Followed BY <2>1, TypeInit, FollowedInit
  <2>3. Mapped BY <2>1 DEF Init, Mapped, Mapping, NoEntries
  <2>4. MainsAreProbed BY <2>1, TrackingAssumption DEF Init, MainsAreProbed
  <2>5. AssertionsHold BY <2>1 DEF Init, AssertionsHold, NoEntries
  <2>6. QED BY <2>2, <2>3, <2>4, <2>5
<1>2. I /\ [Next]_vars => I'
  <2>1. SUFFICES ASSUME I, [Next]_vars PROVE I' OBVIOUS
  <2>2. TypeOK' /\ Structured' BY <2>1, TypeStep
  <2>3. OneMain' /\ (Alive' => Followed') BY <2>1, <2>2, FollowedStep
  <2>4. (Alive' => Mapped') /\ MainsAreProbed' /\ AssertionsHold' BY <2>1, MappedStep
  <2>5. QED BY <2>2, <2>3, <2>4
<1>3. I => AssertionsHold OBVIOUS
<1>4. QED BY <1>1, <1>2, <1>3, PTL DEF Spec
=============================================================================
