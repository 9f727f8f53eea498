------------------------- MODULE ObjectsComparison -------------------------
(***************************************************************************)
(* ObjectsComparer.Equals: the recursive comparison of the value a test    *)
(* expects with the value the method returned, both graphs of objects that *)
(* may share parts and have cycles.  Several requests compare at once,     *)
(* each with a comparer and a heap of its own.                             *)
(*                                                                         *)
(* The calls of ObjectComparer.Equals are the frames of an explicit stack. *)
(* The content of an object is what the comparison looks at: the elements  *)
(* of an array, the fields of another object but for delegates and fields  *)
(* named after thread ids.                                                 *)
(***************************************************************************)
EXTENDS Integers, Sequences, FiniteSets

CONSTANTS
  Tasks,           (* requests being served                                 *)
  Objects, Types,
  Data,            (* values compared with their own Equals: numbers,       *)
                   (* characters, strings, members of enumerations          *)
  Key,             (* what an object's own Equals and GetHashCode tell      *)
                   (* apart: the object itself if its class overrides none  *)
  Null, None       (* the null reference; nothing                           *)

Values == Data \cup Objects \cup {Null}

ASSUME ComparisonAssumption ==
  /\ Data \cap Objects = {} /\ Null \notin Data \cup Objects
  /\ None \notin Values \X Values /\ None \notin BOOLEAN
  /\ None \notin Types
  /\ DOMAIN Key = Objects

VARIABLES
  heap,            (* the objects of a request                              *)
  goal,            (* the two values ObjectsComparer.Equals was called with *)
  call,            (* a call of ObjectComparer.Equals not yet answered      *)
  frames,          (* calls that compare contents, the last one on top      *)
  answer,          (* what the call that ended last returned                *)
  compared         (* the comparer's _compared                              *)

comparerVars == <<heap, goal, call, frames, answer, compared>>

(* An object not created yet has no type.                                  *)
Heaps == [Objects -> [type : Types \cup {None}, content : Seq(Values)]]

Idle(t) == call[t] = None /\ frames[t] = <<>>
Top(t)  == frames[t][Len(frames[t])]
Popped(t) == SubSeq(frames[t], 1, Len(frames[t]) - 1)

(* Between comparisons tests are resolved and methods run.                 *)
Change(t) ==
  /\ Idle(t)
  /\ heap'[t] \in Heaps
  /\ heap' = [heap EXCEPT ![t] = heap'[t]]
  /\ answer' = [answer EXCEPT ![t] = None]
  /\ UNCHANGED <<goal, call, frames, compared>>

Begin(t, expected, actual) ==
  /\ Idle(t)
  /\ goal' = [goal EXCEPT ![t] = <<expected, actual>>]
  /\ call' = [call EXCEPT ![t] = <<expected, actual>>]
  /\ answer' = [answer EXCEPT ![t] = None]
  /\ compared' = [compared EXCEPT ![t] = {}]
  /\ UNCHANGED <<heap, frames>>

Reply(t, result) ==
  /\ call' = [call EXCEPT ![t] = None]
  /\ answer' = [answer EXCEPT ![t] = result]
  /\ UNCHANGED <<heap, goal>>

(* Objects of one type; any two of Data are of different types or unequal. *)
SameType(t, v, w) == v \in Objects /\ w \in Objects /\ heap[t][v].type = heap[t][w].type

Pair(v, w) == <<Key[v], Key[w]>>

(* Two nulls, one object, or equal data.                                   *)
EqualAtOnce(t) ==
  /\ call[t] # None /\ call[t][1] = call[t][2]
  /\ Reply(t, TRUE)
  /\ UNCHANGED <<frames, compared>>

DifferentAtOnce(t) ==
  /\ call[t] # None /\ call[t][1] # call[t][2]
  /\ ~SameType(t, call[t][1], call[t][2])
  /\ Reply(t, FALSE)
  /\ UNCHANGED <<frames, compared>>

(* Seeded defect: a pair that was seen before counts as different.         *)
AlreadyComparedDiffers(t) ==
  /\ call[t] # None /\ call[t][1] # call[t][2]
  /\ SameType(t, call[t][1], call[t][2])
  /\ Pair(call[t][1], call[t][2]) \in compared[t]
  /\ Reply(t, FALSE)
  /\ UNCHANGED <<frames, compared>>

(* Adding the pair fails: the set has one that its objects' own Equals do  *)
(* not tell from it.                                                       *)
AlreadyCompared(t) ==
  /\ call[t] # None /\ call[t][1] # call[t][2]
  /\ SameType(t, call[t][1], call[t][2])
  /\ Pair(call[t][1], call[t][2]) \in compared[t]
  /\ Reply(t, TRUE)
  /\ UNCHANGED <<frames, compared>>

Lengths(t) == <<Len(heap[t][call[t][1]].content), Len(heap[t][call[t][2]].content)>>

NotCompared(t) ==
  /\ call[t] # None /\ call[t][1] # call[t][2]
  /\ SameType(t, call[t][1], call[t][2])
  /\ Pair(call[t][1], call[t][2]) \notin compared[t]

(* Seeded defect: pairs are not remembered.                                *)
DescendForgetful(t) ==
  /\ NotCompared(t) /\ Lengths(t)[1] = Lengths(t)[2]
  /\ frames' = [frames EXCEPT ![t] = Append(@, [pair |-> call[t], next |-> 1])]
  /\ call' = [call EXCEPT ![t] = None]
  /\ UNCHANGED <<heap, goal, answer, compared>>

(* ContentwiseEqual and StructurallyEquals.                                *)
Descend(t) ==
  /\ NotCompared(t) /\ Lengths(t)[1] = Lengths(t)[2]
  /\ compared' = [compared EXCEPT ![t] = @ \cup {Pair(call[t][1], call[t][2])}]
  /\ frames' = [frames EXCEPT ![t] = Append(@, [pair |-> call[t], next |-> 1])]
  /\ call' = [call EXCEPT ![t] = None]
  /\ UNCHANGED <<heap, goal, answer>>

DifferentLength(t) ==
  /\ NotCompared(t) /\ Lengths(t)[1] # Lengths(t)[2]
  /\ compared' = [compared EXCEPT ![t] = @ \cup {Pair(call[t][1], call[t][2])}]
  /\ Reply(t, FALSE)
  /\ UNCHANGED frames

Contents(t) == <<heap[t][Top(t).pair[1]].content, heap[t][Top(t).pair[2]].content>>
InContents(t) == call[t] = None /\ frames[t] # <<>>

NextField(t) ==
  /\ InContents(t) /\ answer[t] # FALSE
  /\ Top(t).next <= Len(Contents(t)[1])
  /\ call' = [call EXCEPT ![t] = <<Contents(t)[1][Top(t).next], Contents(t)[2][Top(t).next]>>]
  /\ frames' = [frames EXCEPT ![t] =
                  Append(Popped(t), [pair |-> Top(t).pair, next |-> Top(t).next + 1])]
  /\ UNCHANGED <<heap, goal, answer, compared>>

AllEqual(t) ==
  /\ InContents(t) /\ answer[t] # FALSE
  /\ Top(t).next > Len(Contents(t)[1])
  /\ frames' = [frames EXCEPT ![t] = Popped(t)]
  /\ answer' = [answer EXCEPT ![t] = TRUE]
  /\ UNCHANGED <<heap, goal, call, compared>>

SomeDifferent(t) ==
  /\ InContents(t) /\ answer[t] = FALSE
  /\ frames' = [frames EXCEPT ![t] = Popped(t)]
  /\ UNCHANGED <<heap, goal, call, answer, compared>>

Compare(t) ==
  \/ EqualAtOnce(t) \/ DifferentAtOnce(t) \/ AlreadyCompared(t)
  \/ Descend(t) \/ DifferentLength(t)
  \/ NextField(t) \/ AllEqual(t) \/ SomeDifferent(t)

-----------------------------------------------------------------------------
ComparisonInit ==
  /\ heap \in [Tasks -> Heaps]
  /\ goal = [t \in Tasks |-> None]
  /\ call = [t \in Tasks |-> None]
  /\ frames = [t \in Tasks |-> <<>>]
  /\ answer = [t \in Tasks |-> None]
  /\ compared = [t \in Tasks |-> {}]

ComparisonNext ==
  \E t \in Tasks :
    \/ Change(t)
    \/ \E v, w \in Values : Begin(t, v, w)
    \/ Compare(t)

ComparisonSpec == ComparisonInit /\ [][ComparisonNext]_comparerVars

-----------------------------------------------------------------------------
(* What equality of graphs means: the two values are related by a relation *)
(* on objects that is kept by following fields.                            *)
Related(R, v, w) == v = w \/ <<v, w>> \in R

Bisimulation(h, R) ==
  \A p \in R :
    /\ h[p[1]].type = h[p[2]].type
    /\ Len(h[p[1]].content) = Len(h[p[2]].content)
    /\ \A i \in DOMAIN h[p[1]].content : Related(R, h[p[1]].content[i], h[p[2]].content[i])

Bisimilar(h, v, w) ==
  \E R \in SUBSET (Objects \X Objects) : Bisimulation(h, R) /\ Related(R, v, w)

Answered(t) == Idle(t) /\ answer[t] # None

(* However the graphs share parts and wherever their cycles close, the     *)
(* comparison says TRUE of two values exactly if they are bisimilar.       *)
VerdictIsBisimilarity ==
  \A t \in Tasks :
    Answered(t) => answer[t] = Bisimilar(heap[t], goal[t][1], goal[t][2])

(* The recursion is no deeper than there are pairs of objects.             *)
DepthIsBounded ==
  \A t \in Tasks : Len(frames[t]) <= Cardinality(Objects) * Cardinality(Objects)
=============================================================================
