---------------------- MODULE ObjectsComparisonProofs ----------------------
(***************************************************************************)
(* Proofs about ObjectsComparison, for every set of objects and every      *)
(* number of comparisons at once.  Where no class overrides Equals, the    *)
(* comparison decides bisimilarity; whatever they override, it ends before *)
(* it is deeper than there are pairs of objects.                           *)
(***************************************************************************)
EXTENDS ObjectsComparison, FiniteSetTheorems, TLAPS

(* No class overrides Equals: objects are told apart by identity.          *)
KeysAreIdentities == \A o \in Objects : Key[o] = o

(* What _compared can tell of an object.                                   *)
Identities == {Key[o] : o \in Objects}

Frames == [pair : Objects \X Objects, next : Nat \ {0}]

TypeInv ==
  /\ heap \in [Tasks -> Heaps]
  /\ goal \in [Tasks -> (Values \X Values) \cup {None}]
  /\ call \in [Tasks -> (Values \X Values) \cup {None}]
  /\ frames \in [Tasks -> Seq(Frames)]
  /\ answer \in [Tasks -> BOOLEAN \cup {None}]
  /\ compared \in [Tasks -> SUBSET (Identities \X Identities)]

(* Contents are compared of objects with equally many fields.              *)
SameShape(h, p) == /\ h[p[1]].type = h[p[2]].type
                   /\ Len(h[p[1]].content) = Len(h[p[2]].content)

ShapeInv == \A t \in Tasks : \A k \in DOMAIN frames[t] : SameShape(heap[t], frames[t][k].pair)

(* One comparison: its heap h, goal g, pending call c, stack f, answer a   *)
(* and the pairs R it has seen.                                            *)
Begun(c, f, a) == c # None \/ f # <<>> \/ a # None

(* A field of a seen pair is related, asked for, or still to be asked for. *)
Settled(h, c, f, R, p, i) ==
  \/ Related(R, h[p[1]].content[i], h[p[2]].content[i])
  \/ c = <<h[p[1]].content[i], h[p[2]].content[i]>>
  \/ \E k \in DOMAIN f : f[k].pair = p /\ i >= f[k].next

Sound(h, g, c, f, R) ==
  /\ c = g \/ Related(R, g[1], g[2])
  /\ \A p \in R : /\ SameShape(h, p)
                  /\ \A i \in DOMAIN h[p[1]].content : Settled(h, c, f, R, p, i)

(* Whatever is compared on behalf of bisimilar values is bisimilar.        *)
FieldsBisimilar(h, p) ==
  /\ SameShape(h, p)
  /\ \A i \in DOMAIN h[p[1]].content : Bisimilar(h, h[p[1]].content[i], h[p[2]].content[i])

Complete(h, c, f) ==
  /\ c # None => Bisimilar(h, c[1], c[2])
  /\ \A k \in DOMAIN f : FieldsBisimilar(h, f[k].pair)

Good(h, g, c, f, a, R) ==
  Begun(c, f, a) =>
    /\ g # None
    /\ c # None => a # FALSE
    /\ a # FALSE => Sound(h, g, c, f, R)
    /\ Bisimilar(h, g[1], g[2]) => a # FALSE /\ Complete(h, c, f)

GoodInv == \A t \in Tasks :
             Good(heap[t], goal[t], call[t], frames[t], answer[t], compared[t])

-----------------------------------------------------------------------------
(* Bisimilarity is kept by following fields. *)
LEMMA BisimilarFields ==
  ASSUME NEW h \in Heaps, NEW v \in Values, NEW w \in Values, v # w, Bisimilar(h, v, w)
  PROVE  v \in Objects /\ w \in Objects /\ FieldsBisimilar(h, <<v, w>>)
<1>1. PICK R \in SUBSET (Objects \X Objects) : Bisimulation(h, R) /\ Related(R, v, w)
  BY DEF Bisimilar
<1>2. <<v, w>> \in R
  BY <1>1 DEF Related
<1>3. v \in Objects /\ w \in Objects
  BY <1>2
<1>4. SameShape(h, <<v, w>>)
  BY <1>1, <1>2 DEF Bisimulation, SameShape
<1>5. ASSUME NEW i \in DOMAIN h[v].content
      PROVE  Bisimilar(h, h[v].content[i], h[w].content[i])
  <2>1. Related(R, h[v].content[i], h[w].content[i])
    BY <1>1, <1>2 DEF Bisimulation
  <2>2. QED
    BY <1>1, <2>1 DEF Bisimilar
<1>6. QED
  BY <1>3, <1>4, <1>5 DEF FieldsBisimilar

(* What a finished comparison that found no difference has seen is a       *)
(* bisimulation.                                                           *)
LEMMA SeenIsBisimulation ==
  ASSUME NEW h \in Heaps, NEW g \in Values \X Values,
         NEW R \in SUBSET (Objects \X Objects), Sound(h, g, None, <<>>, R)
  PROVE  Bisimilar(h, g[1], g[2])
<1>1. Related(R, g[1], g[2])
  BY ComparisonAssumption DEF Sound
<1>2. ASSUME NEW p \in R
      PROVE  /\ SameShape(h, p)
             /\ \A i \in DOMAIN h[p[1]].content :
                  Related(R, h[p[1]].content[i], h[p[2]].content[i])
  <2>1. SameShape(h, p) /\ p[1] \in Objects /\ p[2] \in Objects
    BY DEF Sound
  <2>2. ASSUME NEW i \in DOMAIN h[p[1]].content
        PROVE  Related(R, h[p[1]].content[i], h[p[2]].content[i])
    <3>1. Settled(h, None, <<>>, R, p, i)
      BY DEF Sound
    <3>2. h[p[1]].content[i] \in Values /\ h[p[2]].content[i] \in Values
      <4>1. h[p[1]].content \in Seq(Values) /\ h[p[2]].content \in Seq(Values)
        BY <2>1 DEF Heaps
      <4>2. i \in DOMAIN h[p[2]].content
        BY <2>1, <4>1 DEF SameShape
      <4>3. QED
        BY <4>1, <4>2
    <3>3. <<h[p[1]].content[i], h[p[2]].content[i]>> # None
      BY <3>2, ComparisonAssumption
    <3>4. QED
      BY <3>1, <3>3 DEF Settled
  <2>3. QED
    BY <2>1, <2>2
<1>3. Bisimulation(h, R)
  BY <1>2 DEF Bisimulation, SameShape
<1>4. QED
  BY <1>1, <1>3 DEF Bisimilar

-----------------------------------------------------------------------------
(* The call is answered TRUE: its values are the same, or a seen pair. *)
LEMMA GoodTrue ==
  ASSUME NEW h \in Heaps, NEW g, NEW c \in Values \X Values, NEW f, NEW a, NEW R,
         Good(h, g, c, f, a, R), a # FALSE, Related(R, c[1], c[2])
  PROVE  Good(h, g, None, f, TRUE, R)
<1>1. Begun(c, f, a) /\ c # None
  BY ComparisonAssumption DEF Begun
<1>2. g # None /\ Sound(h, g, c, f, R)
  BY <1>1 DEF Good
<1>3. Sound(h, g, None, f, R)
  <2>1. Related(R, g[1], g[2])
    BY <1>2 DEF Sound
  <2>2. ASSUME NEW p \in R, NEW i \in DOMAIN h[p[1]].content
        PROVE  Settled(h, None, f, R, p, i)
    <3>1. Settled(h, c, f, R, p, i)
      BY <1>2 DEF Sound
    <3>2. CASE c = <<h[p[1]].content[i], h[p[2]].content[i]>>
      BY <3>2 DEF Settled
    <3>3. QED
      BY <3>1, <3>2 DEF Settled
  <2>3. QED
    BY <1>2, <2>1, <2>2 DEF Sound
<1>4. Bisimilar(h, g[1], g[2]) => Complete(h, None, f)
  BY <1>1 DEF Good, Complete
<1>5. QED
  BY <1>2, <1>3, <1>4 DEF Good

(* The call is answered FALSE: its values are not bisimilar. *)
LEMMA GoodFalse ==
  ASSUME NEW h, NEW g, NEW c, c # None, NEW f, NEW a, NEW R, Good(h, g, c, f, a, R),
         ~Bisimilar(h, c[1], c[2]), NEW S
  PROVE  Good(h, g, None, f, FALSE, S)
BY DEF Good, Begun, Complete

(* The contents of the call's objects are compared next. *)
LEMMA GoodDescend ==
  ASSUME NEW h \in Heaps, NEW g \in (Values \X Values) \cup {None},
         NEW c \in Objects \X Objects, NEW f \in Seq(Frames),
         NEW a, a # FALSE, NEW R \in SUBSET (Objects \X Objects),
         Good(h, g, c, f, a, R), c[1] # c[2], SameShape(h, c)
  PROVE  Good(h, g, None, Append(f, [pair |-> c, next |-> 1]), a, R \cup {c})
<1> DEFINE e == Append(f, [pair |-> c, next |-> 1])
           S == R \cup {c}
<1>1. c \in Values \X Values /\ c = <<c[1], c[2]>>
  BY DEF Values
<1>2. Begun(c, f, a) /\ c # None
  BY <1>1, ComparisonAssumption DEF Begun
<1>3. g # None /\ Sound(h, g, c, f, R)
  BY <1>2 DEF Good
<1>4. /\ DOMAIN f \subseteq DOMAIN e /\ \A k \in DOMAIN f : e[k] = f[k]
      /\ Len(f) + 1 \in DOMAIN e /\ e[Len(f) + 1] = [pair |-> c, next |-> 1]
      /\ DOMAIN e = DOMAIN f \cup {Len(f) + 1}
  OBVIOUS
<1> HIDE DEF e
<1>5. Sound(h, g, None, e, S)
  <2>1. Related(S, g[1], g[2])
    BY <1>1, <1>3 DEF Sound, Related
  <2>2. ASSUME NEW p \in S
        PROVE  SameShape(h, p)
    BY <1>3 DEF Sound
  <2>3. ASSUME NEW p \in S, NEW i \in DOMAIN h[p[1]].content
        PROVE  Settled(h, None, e, S, p, i)
    <3>1. CASE p = c
      <4>1. i >= 1
        BY <1>1, <3>1 DEF Heaps
      <4>2. QED
        BY <1>4, <3>1, <4>1 DEF Settled
    <3>2. CASE p # c
      <4>1. Settled(h, c, f, R, p, i)
        BY <1>3, <3>2 DEF Sound
      <4>2. CASE c = <<h[p[1]].content[i], h[p[2]].content[i]>>
        BY <4>2 DEF Settled, Related
      <4>3. CASE Related(R, h[p[1]].content[i], h[p[2]].content[i])
        BY <4>3 DEF Settled, Related
      <4>4. CASE \E k \in DOMAIN f : f[k].pair = p /\ i >= f[k].next
        BY <4>4, <1>4 DEF Settled
      <4>5. QED
        BY <4>1, <4>2, <4>3, <4>4 DEF Settled
    <3>3. QED
      BY <3>1, <3>2
  <2>4. QED
    BY <2>1, <2>2, <2>3 DEF Sound
<1>6. ASSUME Bisimilar(h, g[1], g[2])
      PROVE  Complete(h, None, e)
  <2>1. Complete(h, c, f)
    BY <1>2, <1>6 DEF Good
  <2>2. FieldsBisimilar(h, c)
    BY <1>1, <1>2, <2>1, BisimilarFields DEF Complete
  <2>3. QED
    BY <1>4, <2>1, <2>2 DEF Complete
<1>7. QED
  BY <1>3, <1>5, <1>6 DEF Good, e

(* The next fields of the objects on top of the stack are asked for. *)
LEMMA GoodAsk ==
  ASSUME NEW h \in Heaps, NEW g, NEW f \in Seq(Frames), f # <<>>,
         NEW a, a # FALSE, NEW R \in SUBSET (Objects \X Objects),
         NEW e \in Seq(Frames), Len(e) = Len(f),
         \A k \in DOMAIN f : e[k] = IF k = Len(f)
                                    THEN [pair |-> f[k].pair, next |-> f[k].next + 1]
                                    ELSE f[k],
         NEW p, p = f[Len(f)].pair, NEW n, n = f[Len(f)].next,
         n \in DOMAIN h[p[1]].content, Good(h, g, None, f, a, R)
  PROVE  Good(h, g, <<h[p[1]].content[n], h[p[2]].content[n]>>, e, a, R)
<1> DEFINE c == <<h[p[1]].content[n], h[p[2]].content[n]>>
<1>1. Begun(None, f, a)
  BY DEF Begun
<1>2. g # None /\ Sound(h, g, None, f, R)
  BY <1>1 DEF Good
<1>3. Len(f) \in DOMAIN f /\ DOMAIN e = DOMAIN f
  OBVIOUS
<1>4. ASSUME NEW k \in DOMAIN f
      PROVE  /\ e[k].pair = f[k].pair /\ f[k].next \in Nat
             /\ e[k].next = IF k = Len(f) THEN n + 1 ELSE f[k].next
  <2>1. f[k] \in Frames
    OBVIOUS
  <2>2. f[k].next \in Nat
    BY <2>1 DEF Frames
  <2>3. CASE k = Len(f)
    <3>1. e[k] = [pair |-> f[k].pair, next |-> f[k].next + 1]
      BY <2>3
    <3>2. QED
      BY <2>2, <2>3, <3>1
  <2>4. CASE k # Len(f)
    <3>1. e[k] = f[k]
      BY <2>4
    <3>2. QED
      BY <2>2, <2>4, <3>1
  <2>5. QED
    BY <2>3, <2>4
<1> HIDE DEF c
<1>5. Sound(h, g, c, e, R)
  <2>1. c = g \/ Related(R, g[1], g[2])
    <3>1. None = g \/ Related(R, g[1], g[2])
      BY <1>2 DEF Sound
    <3>2. QED
      BY <1>2, <3>1
  <2>2. ASSUME NEW q \in R, NEW i \in DOMAIN h[q[1]].content
        PROVE  Settled(h, c, e, R, q, i)
    <3>1. Settled(h, None, f, R, q, i) /\ i \in Nat
      BY <1>2 DEF Sound, Heaps
    <3>2. CASE Related(R, h[q[1]].content[i], h[q[2]].content[i])
      BY <3>2 DEF Settled
    <3>3. CASE None = <<h[q[1]].content[i], h[q[2]].content[i]>>
      <4>1. h[q[1]].content[i] \in Values /\ h[q[2]].content[i] \in Values
        <5>1. h[q[1]].content \in Seq(Values) /\ h[q[2]].content \in Seq(Values)
          BY DEF Heaps
        <5>2. SameShape(h, q)
          BY <1>2 DEF Sound
        <5>3. QED
          BY <5>1, <5>2 DEF SameShape
      <4>2. QED
        BY <3>3, <4>1, ComparisonAssumption
    <3>4. CASE \E k \in DOMAIN f : f[k].pair = q /\ i >= f[k].next
      <4>1. PICK k \in DOMAIN f : f[k].pair = q /\ i >= f[k].next
        BY <3>4
      <4>2. CASE k = Len(f) /\ i = n
        BY <4>1, <4>2 DEF Settled, c
      <4>3. CASE k # Len(f)
        BY <4>1, <4>3, <1>3 DEF Settled
      <4>4. CASE k = Len(f) /\ i # n
        <5>1. e[k].pair = q /\ e[k].next = n + 1 /\ n \in Nat
          BY <4>1, <4>4, <1>4
        <5>2. i >= e[k].next
          BY <4>1, <4>4, <5>1, <3>1
        <5>3. QED
          BY <5>1, <5>2, <1>3 DEF Settled
      <4>5. QED
        BY <4>2, <4>3, <4>4
    <3>5. QED
      BY <3>1, <3>2, <3>3, <3>4 DEF Settled
  <2>3. \A q \in R : SameShape(h, q)
    BY <1>2 DEF Sound
  <2>4. QED
    BY <2>1, <2>2, <2>3 DEF Sound
<1>6. ASSUME Bisimilar(h, g[1], g[2])
      PROVE  Complete(h, c, e)
  <2>1. Complete(h, None, f)
    BY <1>1, <1>6 DEF Good
  <2>2. FieldsBisimilar(h, p)
    BY <1>3, <2>1 DEF Complete
  <2>3. Bisimilar(h, c[1], c[2])
    BY <2>2 DEF FieldsBisimilar, c
  <2>4. \A k \in DOMAIN e : FieldsBisimilar(h, e[k].pair)
    BY <1>3, <1>4, <2>1 DEF Complete
  <2>5. QED
    BY <2>3, <2>4 DEF Complete
<1>7. QED
  BY <1>2, <1>5, <1>6 DEF Good, c

(* The contents on top of the stack were equal to the last field. *)
LEMMA GoodPop ==
  ASSUME NEW h \in Heaps, NEW g, NEW f \in Seq(Frames), f # <<>>,
         NEW a, a # FALSE, NEW R \in SUBSET (Objects \X Objects),
         f[Len(f)].next > Len(h[f[Len(f)].pair[1]].content),
         Good(h, g, None, f, a, R)
  PROVE  Good(h, g, None, SubSeq(f, 1, Len(f) - 1), TRUE, R)
<1> DEFINE e == SubSeq(f, 1, Len(f) - 1)
<1>1. g # None /\ Sound(h, g, None, f, R)
  BY DEF Good, Begun
<1>2. DOMAIN e = DOMAIN f \ {Len(f)} /\ \A k \in DOMAIN e : e[k] = f[k]
  OBVIOUS
<1>3. ASSUME NEW k \in DOMAIN f
      PROVE  f[k].next \in Nat /\ f[k].pair[1] \in Objects
  <2>1. f[k] \in Frames
    OBVIOUS
  <2>2. QED
    BY <2>1 DEF Frames
<1> HIDE DEF e
<1>4. Sound(h, g, None, e, R)
  <2>1. ASSUME NEW q \in R, NEW i \in DOMAIN h[q[1]].content
        PROVE  Settled(h, None, e, R, q, i)
    <3>1. Settled(h, None, f, R, q, i)
      BY <1>1 DEF Sound
    <3>2. i \in Nat /\ i <= Len(h[q[1]].content) /\ Len(h[q[1]].content) \in Nat
      BY DEF Heaps
    <3>3. ASSUME NEW k \in DOMAIN f, f[k].pair = q, i >= f[k].next
          PROVE  k \in DOMAIN e
      <4>1. k # Len(f)
        BY <3>2, <3>3, <1>3
      <4>2. QED
        BY <4>1, <1>2
    <3>4. QED
      BY <3>1, <3>3, <1>2 DEF Settled
  <2>2. QED
    BY <1>1, <2>1 DEF Sound
<1>5. Bisimilar(h, g[1], g[2]) => Complete(h, None, e)
  BY <1>2 DEF Good, Begun, Complete
<1>6. QED
  BY <1>1, <1>4, <1>5 DEF Good, e

(* A difference was found below: the pair on top differs too. *)
LEMMA GoodFail ==
  ASSUME NEW h, NEW g, NEW f, f # <<>>, NEW e, NEW R, Good(h, g, None, f, FALSE, R)
  PROVE  Good(h, g, None, e, FALSE, R)
BY DEF Good, Begun

-----------------------------------------------------------------------------
(* The stack with one more field of the top asked for. *)
Advanced(f) == Append(SubSeq(f, 1, Len(f) - 1),
                      [pair |-> f[Len(f)].pair, next |-> f[Len(f)].next + 1])

LEMMA AdvancedType ==
  ASSUME NEW f \in Seq(Frames), f # <<>>
  PROVE  /\ Advanced(f) \in Seq(Frames) /\ Len(Advanced(f)) = Len(f)
         /\ \A k \in DOMAIN f :
              /\ Advanced(f)[k] = IF k = Len(f)
                                  THEN [pair |-> f[k].pair, next |-> f[k].next + 1] ELSE f[k]
              /\ Advanced(f)[k].pair = f[k].pair
<1>1. Len(f) \in DOMAIN f /\ DOMAIN f = 1 .. Len(f) /\ Len(f) \in Nat \ {0}
  OBVIOUS
<1>2. f[Len(f)] \in Frames
  BY <1>1
<1>3. [pair |-> f[Len(f)].pair, next |-> f[Len(f)].next + 1] \in Frames
  BY <1>2 DEF Frames
<1>4. SubSeq(f, 1, Len(f) - 1) \in Seq(Frames) /\ Len(SubSeq(f, 1, Len(f) - 1)) = Len(f) - 1
      /\ \A k \in 1 .. Len(f) - 1 : SubSeq(f, 1, Len(f) - 1)[k] = f[k]
  BY <1>1
<1>5. Advanced(f) \in Seq(Frames) /\ Len(Advanced(f)) = Len(f)
  BY <1>1, <1>3, <1>4 DEF Advanced
<1>6. ASSUME NEW k \in DOMAIN f
      PROVE  Advanced(f)[k] = IF k = Len(f)
                              THEN [pair |-> f[k].pair, next |-> f[k].next + 1] ELSE f[k]
  BY <1>1, <1>3, <1>4 DEF Advanced
<1>7. ASSUME NEW k \in DOMAIN f
      PROVE  Advanced(f)[k].pair = f[k].pair
  <2>1. CASE k = Len(f)
    <3>1. Advanced(f)[k] = [pair |-> f[k].pair, next |-> f[k].next + 1]
      BY <1>6, <2>1
    <3>2. QED
      BY <3>1
  <2>2. CASE k # Len(f)
    <3>1. Advanced(f)[k] = f[k]
      BY <1>6, <2>2
    <3>2. QED
      BY <3>1
  <2>3. QED
    BY <2>1, <2>2
<1>8. QED
  BY <1>5, <1>6, <1>7

LEMMA IdentitiesOfObjects ==
  ASSUME KeysAreIdentities
  PROVE  Identities = Objects
BY DEF KeysAreIdentities, Identities

LEMMA TypeStep ==
  ASSUME TypeInv, ShapeInv, [ComparisonNext]_comparerVars
  PROVE  TypeInv'
<1> USE DEF TypeInv
<1>1. ASSUME NEW t \in Tasks, Change(t)
      PROVE  TypeInv'
  BY <1>1 DEF Change
<1>2. ASSUME NEW t \in Tasks, NEW v \in Values, NEW w \in Values, Begin(t, v, w)
      PROVE  TypeInv'
  BY <1>2 DEF Begin
<1>3. ASSUME NEW t \in Tasks, EqualAtOnce(t) \/ DifferentAtOnce(t) \/ AlreadyCompared(t)
      PROVE  TypeInv'
  BY <1>3 DEF EqualAtOnce, DifferentAtOnce, AlreadyCompared, Reply
<1>4. ASSUME NEW t \in Tasks, NotCompared(t)
      PROVE  /\ call[t] \in Objects \X Objects
             /\ Pair(call[t][1], call[t][2]) \in Identities \X Identities
  <2>1. call[t] # None /\ call[t][1] \in Objects /\ call[t][2] \in Objects
    BY <1>4 DEF NotCompared, SameType
  <2>2. call[t] \in Values \X Values
    BY <2>1
  <2>3. call[t] \in Objects \X Objects
    BY <2>1, <2>2
  <2>4. Key[call[t][1]] \in Identities /\ Key[call[t][2]] \in Identities
    BY <2>1 DEF Identities
  <2>5. QED
    BY <2>3, <2>4 DEF Pair
<1>5. ASSUME NEW t \in Tasks, Descend(t)
      PROVE  TypeInv'
  <2>1. /\ call[t] \in Objects \X Objects
        /\ Pair(call[t][1], call[t][2]) \in Identities \X Identities
    BY <1>4, <1>5 DEF Descend
  <2>2. [pair |-> call[t], next |-> 1] \in Frames
    BY <2>1 DEF Frames
  <2>3. frames' \in [Tasks -> Seq(Frames)]
    BY <1>5, <2>2 DEF Descend
  <2>4. compared' \in [Tasks -> SUBSET (Identities \X Identities)]
    BY <1>5, <2>1 DEF Descend
  <2>5. QED
    BY <1>5, <2>3, <2>4 DEF Descend
<1>6. ASSUME NEW t \in Tasks, DifferentLength(t)
      PROVE  TypeInv'
  <2>1. /\ call[t] \in Objects \X Objects
        /\ Pair(call[t][1], call[t][2]) \in Identities \X Identities
    BY <1>4, <1>6 DEF DifferentLength
  <2>2. compared' \in [Tasks -> SUBSET (Identities \X Identities)]
    BY <1>6, <2>1 DEF DifferentLength
  <2>3. QED
    BY <1>6, <2>2 DEF DifferentLength, Reply
<1>7. ASSUME NEW t \in Tasks, NextField(t)
      PROVE  TypeInv'
  <2>0. frames[t] \in Seq(Frames) /\ frames[t] # <<>>
    BY <1>7 DEF NextField, InContents
  <2>1. Len(frames[t]) \in DOMAIN frames[t] /\ Top(t) = frames[t][Len(frames[t])]
        /\ Top(t) \in Frames
    BY <2>0 DEF Top
  <2>2. Top(t).pair \in Objects \X Objects /\ Top(t).next \in Nat \ {0}
    BY <2>1 DEF Frames
  <2>3. frames' \in [Tasks -> Seq(Frames)]
    <3>1. frames' = [frames EXCEPT ![t] = Advanced(frames[t])]
      BY <1>7 DEF NextField, Advanced, Popped, Top
    <3>2. QED
      BY <2>0, <3>1, AdvancedType
  <2>4. call'[t] \in Values \X Values
    <3>1. Contents(t)[1] \in Seq(Values) /\ Contents(t)[2] \in Seq(Values)
      BY <2>2 DEF Contents, Heaps
    <3>2. Len(Contents(t)[1]) = Len(Contents(t)[2])
      BY <2>1 DEF ShapeInv, SameShape, Contents
    <3>3. Top(t).next \in DOMAIN Contents(t)[1] /\ Top(t).next \in DOMAIN Contents(t)[2]
      BY <1>7, <2>2, <3>1, <3>2 DEF NextField
    <3>4. QED
      BY <1>7, <3>1, <3>3 DEF NextField
  <2>5. call' \in [Tasks -> (Values \X Values) \cup {None}]
    BY <1>7, <2>4 DEF NextField
  <2>6. QED
    BY <1>7, <2>3, <2>5 DEF NextField
<1>8. ASSUME NEW t \in Tasks, AllEqual(t) \/ SomeDifferent(t)
      PROVE  TypeInv'
  <2>1. frames[t] \in Seq(Frames) /\ frames[t] # <<>>
    BY <1>8 DEF AllEqual, SomeDifferent, InContents
  <2>2. Popped(t) \in Seq(Frames)
    BY <2>1 DEF Popped
  <2>3. QED
    BY <1>8, <2>2 DEF AllEqual, SomeDifferent
<1>9. CASE UNCHANGED comparerVars
  BY <1>9 DEF comparerVars
<1>10. QED
  BY <1>1, <1>2, <1>3, <1>5, <1>6, <1>7, <1>8, <1>9 DEF ComparisonNext, Compare

LEMMA ShapeStep ==
  ASSUME TypeInv, ShapeInv, [ComparisonNext]_comparerVars
  PROVE  ShapeInv'
<1> USE DEF TypeInv, ShapeInv
<1>1. ASSUME NEW t \in Tasks, Change(t)
      PROVE  ShapeInv'
  <2>1. frames' = frames /\ frames[t] = <<>> /\ \A u \in Tasks \ {t} : heap'[u] = heap[u]
    BY <1>1 DEF Change, Idle
  <2>2. DOMAIN frames[t] = {}
    BY <2>1
  <2>3. QED
    BY <2>1, <2>2
<1>2. ASSUME NEW t \in Tasks, Descend(t)
      PROVE  ShapeInv'
  <2>1. SameShape(heap[t], call[t])
    BY <1>2 DEF Descend, NotCompared, SameType, Lengths, SameShape
  <2>2. frames'[t] = Append(frames[t], [pair |-> call[t], next |-> 1]) /\ heap' = heap
        /\ \A u \in Tasks \ {t} : frames'[u] = frames[u]
    BY <1>2 DEF Descend
  <2>3. \A k \in DOMAIN frames'[t] : SameShape(heap[t], frames'[t][k].pair)
    BY <2>1, <2>2
  <2>4. QED
    BY <2>2, <2>3
<1>3. ASSUME NEW t \in Tasks, NextField(t)
      PROVE  ShapeInv'
  <2>1. frames[t] \in Seq(Frames) /\ frames[t] # <<>>
    BY <1>3 DEF NextField, InContents
  <2>2. frames' = [frames EXCEPT ![t] = Advanced(frames[t])] /\ heap' = heap
    BY <1>3 DEF NextField, Advanced, Popped, Top
  <2>3. frames'[t] = Advanced(frames[t])
    BY <2>2
  <2>4. DOMAIN frames'[t] = DOMAIN frames[t]
    BY <2>1, <2>3, AdvancedType
  <2>5. ASSUME NEW k \in DOMAIN frames[t]
        PROVE  frames'[t][k].pair = frames[t][k].pair
    <3>1. Advanced(frames[t])[k].pair = frames[t][k].pair
      BY <2>1, AdvancedType
    <3>2. QED
      BY <2>3, <3>1
  <2>6. QED
    BY <2>2, <2>4, <2>5
<1>4. ASSUME NEW t \in Tasks, AllEqual(t) \/ SomeDifferent(t)
      PROVE  ShapeInv'
  <2>1. frames[t] \in Seq(Frames) /\ frames[t] # <<>>
    BY <1>4 DEF AllEqual, SomeDifferent, InContents
  <2>2. \A k \in DOMAIN Popped(t) : k \in DOMAIN frames[t] /\ Popped(t)[k] = frames[t][k]
    BY <2>1 DEF Popped
  <2>3. frames' = [frames EXCEPT ![t] = Popped(t)] /\ heap' = heap
    BY <1>4 DEF AllEqual, SomeDifferent
  <2>4. QED
    BY <2>2, <2>3
<1>5. ASSUME UNCHANGED <<heap, frames>>
      PROVE  ShapeInv'
  BY <1>5
<1>6. QED
  BY <1>1, <1>2, <1>3, <1>4, <1>5 DEF ComparisonNext, Compare, comparerVars, Begin,
    EqualAtOnce, DifferentAtOnce, AlreadyCompared, DifferentLength, Reply

LEMMA GoodStep ==
  ASSUME KeysAreIdentities, TypeInv, ShapeInv, GoodInv, [ComparisonNext]_comparerVars
  PROVE  GoodInv'
<1>t. /\ heap \in [Tasks -> Heaps]
      /\ goal \in [Tasks -> (Values \X Values) \cup {None}]
      /\ call \in [Tasks -> (Values \X Values) \cup {None}]
      /\ frames \in [Tasks -> Seq(Frames)]
      /\ answer \in [Tasks -> BOOLEAN \cup {None}]
      /\ compared \in [Tasks -> SUBSET (Objects \X Objects)]
  BY IdentitiesOfObjects DEF TypeInv
<1>g. \A t \in Tasks : Good(heap[t], goal[t], call[t], frames[t], answer[t], compared[t])
  BY DEF GoodInv
<1>o. ASSUME NEW t \in Tasks,
             \A u \in Tasks \ {t} :
               /\ heap'[u] = heap[u] /\ goal'[u] = goal[u] /\ call'[u] = call[u]
               /\ frames'[u] = frames[u] /\ answer'[u] = answer[u] /\ compared'[u] = compared[u],
             Good(heap'[t], goal'[t], call'[t], frames'[t], answer'[t], compared'[t])
      PROVE  GoodInv'
  <2>1. ASSUME NEW u \in Tasks
        PROVE  Good(heap'[u], goal'[u], call'[u], frames'[u], answer'[u], compared'[u])
    BY <1>o, <1>g
  <2>2. QED
    BY <2>1 DEF GoodInv
<1>1. ASSUME NEW t \in Tasks, Change(t)
      PROVE  GoodInv'
  <2>1. /\ heap' = [heap EXCEPT ![t] = heap'[t]] /\ answer' = [answer EXCEPT ![t] = None]
        /\ UNCHANGED <<goal, call, frames, compared>> /\ call[t] = None /\ frames[t] = <<>>
    BY <1>1 DEF Change, Idle
  <2>2. ~Begun(call'[t], frames'[t], answer'[t])
    BY <1>t, <2>1 DEF Begun
  <2>3. Good(heap'[t], goal'[t], call'[t], frames'[t], answer'[t], compared'[t])
    BY <2>2 DEF Good
  <2>4. QED
    BY <1>o, <2>1, <2>3, <1>t
<1>2. ASSUME NEW t \in Tasks, NEW v \in Values, NEW w \in Values, Begin(t, v, w)
      PROVE  GoodInv'
  <2>1. /\ goal' = [goal EXCEPT ![t] = <<v, w>>] /\ call' = [call EXCEPT ![t] = <<v, w>>]
        /\ answer' = [answer EXCEPT ![t] = None] /\ compared' = [compared EXCEPT ![t] = {}]
        /\ heap' = heap /\ frames' = frames /\ frames[t] = <<>>
    BY <1>2 DEF Begin, Idle
  <2>2. /\ goal'[t] = <<v, w>> /\ call'[t] = <<v, w>> /\ answer'[t] = None
        /\ compared'[t] = {} /\ frames'[t] = <<>>
    BY <1>t, <2>1
  <2>3. <<v, w>> # None /\ None # FALSE
    <3>1. <<v, w>> # None
      BY ComparisonAssumption
    <3>2. FALSE \in BOOLEAN
      OBVIOUS
    <3>3. None # FALSE
      BY <3>2, ComparisonAssumption, Zenon
    <3>4. QED
      BY <3>1, <3>3
  <2>4. Sound(heap'[t], <<v, w>>, <<v, w>>, <<>>, {})
    BY DEF Sound
  <2>5. Bisimilar(heap'[t], v, w) => Complete(heap'[t], <<v, w>>, <<>>)
    BY DEF Complete
  <2>6. Good(heap'[t], <<v, w>>, <<v, w>>, <<>>, None, {})
    BY <2>3, <2>4, <2>5 DEF Good
  <2>7. QED
    BY <1>o, <2>1, <2>2, <2>6, <1>t
<1>3. ASSUME NEW t \in Tasks, NEW b \in BOOLEAN, call[t] # None, Reply(t, b), frames' = frames,
             UNCHANGED compared \/ b = FALSE,
             \A u \in Tasks \ {t} : compared'[u] = compared[u],
             IF b THEN answer[t] # FALSE /\ Related(compared[t], call[t][1], call[t][2])
                  ELSE ~Bisimilar(heap[t], call[t][1], call[t][2])
      PROVE  GoodInv'
  <2>1. /\ call' = [call EXCEPT ![t] = None] /\ answer' = [answer EXCEPT ![t] = b]
        /\ heap' = heap /\ goal' = goal
    BY <1>3 DEF Reply
  <2>2. call[t] \in Values \X Values
    BY <1>3, <1>t
  <2>3. Good(heap[t], goal[t], None, frames[t], b, compared'[t])
    <3>1. CASE b = TRUE
      <4>1. compared' = compared
        BY <1>3, <3>1
      <4>2. QED
        BY <1>3, <1>g, <1>t, <2>2, <3>1, <4>1, GoodTrue
    <3>2. CASE b = FALSE
      BY <1>3, <1>g, <3>2, GoodFalse
    <3>3. QED
      BY <3>1, <3>2
  <2>4. call'[t] = None /\ answer'[t] = b
    BY <1>t, <2>1
  <2>5. QED
    BY <1>o, <1>3, <2>1, <2>3, <2>4, <1>t
<1>4. ASSUME NEW t \in Tasks, Descend(t)
      PROVE  GoodInv'
  <2>1. /\ call[t] \in Objects \X Objects /\ Pair(call[t][1], call[t][2]) = call[t]
        /\ call[t][1] # call[t][2] /\ SameShape(heap[t], call[t])
    BY <1>4, <1>t DEF Descend, NotCompared, SameType, Pair, KeysAreIdentities, Lengths, SameShape
  <2>2. /\ compared' = [compared EXCEPT ![t] = @ \cup {call[t]}]
        /\ frames' = [frames EXCEPT ![t] = Append(@, [pair |-> call[t], next |-> 1])]
        /\ call' = [call EXCEPT ![t] = None] /\ UNCHANGED <<heap, goal, answer>>
    BY <1>4, <2>1 DEF Descend
  <2>3. answer[t] # FALSE
    BY <1>4, <1>g DEF Descend, NotCompared, Good, Begun
  <2>4. Good(heap[t], goal[t], None, Append(frames[t], [pair |-> call[t], next |-> 1]),
             answer[t], compared[t] \cup {call[t]})
    BY <1>g, <1>t, <2>1, <2>3, GoodDescend
  <2>5. /\ compared'[t] = compared[t] \cup {call[t]} /\ call'[t] = None
        /\ frames'[t] = Append(frames[t], [pair |-> call[t], next |-> 1])
    BY <1>t, <2>2
  <2>6. QED
    BY <1>o, <2>2, <2>4, <2>5, <1>t
<1>5. ASSUME NEW t \in Tasks, NextField(t)
      PROVE  GoodInv'
  <2> DEFINE f == frames[t]
             p == f[Len(f)].pair
             n == f[Len(f)].next
             c == <<heap[t][p[1]].content[n], heap[t][p[2]].content[n]>>
  <2>1. f \in Seq(Frames) /\ f # <<>> /\ call[t] = None /\ answer[t] # FALSE
    BY <1>5, <1>t DEF NextField, InContents
  <2>2. /\ frames' = [frames EXCEPT ![t] = Advanced(f)] /\ call' = [call EXCEPT ![t] = c]
        /\ UNCHANGED <<heap, goal, answer, compared>>
    BY <1>5 DEF NextField, Advanced, Popped, Top, Contents
  <2>3. f[Len(f)] \in Frames
    BY <2>1
  <2>4. p \in Objects \X Objects /\ n \in Nat \ {0}
    BY <2>3 DEF Frames
  <2>5. heap[t][p[1]].content \in Seq(Values)
    BY <1>t, <2>4 DEF Heaps
  <2>6. n \in DOMAIN heap[t][p[1]].content
    <3>1. Top(t).next = n /\ Contents(t)[1] = heap[t][p[1]].content
      BY DEF Contents, Top
    <3>2. n <= Len(heap[t][p[1]].content)
      BY <1>5, <3>1 DEF NextField
    <3> HIDE DEF n, p
    <3>3. QED BY <2>4, <2>5, <3>2
  <2>7. Advanced(f) \in Seq(Frames) /\ Len(Advanced(f)) = Len(f)
        /\ \A k \in DOMAIN f : Advanced(f)[k] = IF k = Len(f)
                                 THEN [pair |-> f[k].pair, next |-> f[k].next + 1] ELSE f[k]
    BY <2>1, AdvancedType
  <2>8. Good(heap[t], goal[t], None, f, answer[t], compared[t])
    BY <1>g, <2>1
  <2>9. Good(heap[t], goal[t], c, Advanced(f), answer[t], compared[t])
    <3>1. heap[t] \in Heaps /\ compared[t] \in SUBSET (Objects \X Objects)
      BY <1>t
    <3> HIDE DEF f
    <3>2. QED
      BY <3>1, <2>1, <2>6, <2>7, <2>8, GoodAsk
  <2>10. call'[t] = c /\ frames'[t] = Advanced(f)
    BY <1>t, <2>2
  <2>11. QED
    BY <1>o, <2>2, <2>9, <2>10, <1>t
<1>6. ASSUME NEW t \in Tasks, AllEqual(t)
      PROVE  GoodInv'
  <2> DEFINE f == frames[t]
  <2>1. /\ f \in Seq(Frames) /\ f # <<>> /\ call[t] = None /\ answer[t] # FALSE
        /\ f[Len(f)].next > Len(heap[t][f[Len(f)].pair[1]].content)
    BY <1>6, <1>t DEF AllEqual, InContents, Top, Contents
  <2>2. /\ frames' = [frames EXCEPT ![t] = SubSeq(f, 1, Len(f) - 1)]
        /\ answer' = [answer EXCEPT ![t] = TRUE]
        /\ UNCHANGED <<heap, goal, call, compared>>
    BY <1>6 DEF AllEqual, Popped
  <2>3. Good(heap[t], goal[t], None, f, answer[t], compared[t])
    BY <1>g, <2>1
  <2>4. Good(heap[t], goal[t], None, SubSeq(f, 1, Len(f) - 1), TRUE, compared[t])
    <3>1. heap[t] \in Heaps /\ compared[t] \in SUBSET (Objects \X Objects)
      BY <1>t
    <3> HIDE DEF f
    <3>2. QED
      BY <3>1, <2>1, <2>3, GoodPop
  <2>5. frames'[t] = SubSeq(f, 1, Len(f) - 1) /\ answer'[t] = TRUE /\ call'[t] = None
    BY <1>t, <2>1, <2>2
  <2>6. Good(heap'[t], goal'[t], call'[t], frames'[t], answer'[t], compared'[t])
    BY <2>2, <2>4, <2>5
  <2>7. \A u \in Tasks \ {t} :
          /\ heap'[u] = heap[u] /\ goal'[u] = goal[u] /\ call'[u] = call[u]
          /\ frames'[u] = frames[u] /\ answer'[u] = answer[u] /\ compared'[u] = compared[u]
    BY <1>t, <2>2
  <2>8. QED
    BY <1>o, <2>6, <2>7
<1>7. ASSUME NEW t \in Tasks, SomeDifferent(t)
      PROVE  GoodInv'
  <2>1. frames[t] # <<>> /\ call[t] = None /\ answer[t] = FALSE
    BY <1>7 DEF SomeDifferent, InContents
  <2>2. Good(heap[t], goal[t], None, frames[t], FALSE, compared[t])
    BY <1>g, <2>1
  <2>3. Good(heap[t], goal[t], None, Popped(t), FALSE, compared[t])
    BY <2>1, <2>2, GoodFail
  <2>4. frames' = [frames EXCEPT ![t] = Popped(t)] /\ UNCHANGED <<heap, goal, call, answer, compared>>
    BY <1>7 DEF SomeDifferent
  <2>5. frames'[t] = Popped(t)
    BY <1>t, <2>4
  <2>6. QED
    BY <1>o, <2>1, <2>3, <2>4, <2>5, <1>t
<1>8. ASSUME NEW t \in Tasks, EqualAtOnce(t)
      PROVE  GoodInv'
  <2>1. Related(compared[t], call[t][1], call[t][2]) /\ answer[t] # FALSE /\ call[t] # None
    BY <1>8, <1>g DEF EqualAtOnce, Related, Good, Begun
  <2>2. QED
    BY <1>3, <1>8, <2>1 DEF EqualAtOnce
<1>9. ASSUME NEW t \in Tasks, AlreadyCompared(t)
      PROVE  GoodInv'
  <2>1. call[t] # None /\ answer[t] # FALSE
    BY <1>9, <1>g DEF AlreadyCompared, Good, Begun
  <2>2. call[t] \in Values \X Values /\ call[t][1] \in Objects /\ call[t][2] \in Objects
    BY <1>9, <1>t, <2>1 DEF AlreadyCompared, SameType
  <2>3. Related(compared[t], call[t][1], call[t][2])
    BY <1>9, <2>2 DEF AlreadyCompared, Pair, KeysAreIdentities, Related
  <2>4. QED
    BY <1>3, <1>9, <2>1, <2>3 DEF AlreadyCompared
<1>10. ASSUME NEW t \in Tasks, DifferentAtOnce(t)
      PROVE  GoodInv'
  <2>1. call[t] # None /\ call[t][1] # call[t][2] /\ ~SameType(t, call[t][1], call[t][2])
    BY <1>10 DEF DifferentAtOnce
  <2>2. call[t] \in Values \X Values /\ heap[t] \in Heaps
    BY <1>t, <2>1
  <2>3. ~Bisimilar(heap[t], call[t][1], call[t][2])
    BY <2>1, <2>2, BisimilarFields DEF FieldsBisimilar, SameShape, SameType
  <2>4. QED
    BY <1>3, <1>10, <2>1, <2>3 DEF DifferentAtOnce
<1>11. ASSUME NEW t \in Tasks, DifferentLength(t)
      PROVE  GoodInv'
  <2>1. call[t] # None /\ call[t][1] # call[t][2] /\ ~SameShape(heap[t], call[t])
    BY <1>11 DEF DifferentLength, NotCompared, Lengths, SameShape
  <2>2. call[t] \in Values \X Values /\ heap[t] \in Heaps /\ call[t] = <<call[t][1], call[t][2]>>
    BY <1>t, <2>1
  <2>3. ~Bisimilar(heap[t], call[t][1], call[t][2])
    BY <2>1, <2>2, BisimilarFields DEF FieldsBisimilar
  <2>4. \A u \in Tasks \ {t} : compared'[u] = compared[u]
    BY <1>11, <1>t DEF DifferentLength
  <2>5. frames' = frames /\ Reply(t, FALSE)
    BY <1>11 DEF DifferentLength
  <2>6. QED
    BY <1>3, <2>1, <2>3, <2>4, <2>5
<1>12. CASE UNCHANGED comparerVars
  BY <1>12 DEF comparerVars, GoodInv
<1>13. QED
  BY <1>1, <1>2, <1>4, <1>5, <1>6, <1>7, <1>8, <1>9, <1>10, <1>11, <1>12 DEF ComparisonNext, Compare

(* VerdictIsBisimilarity: where no class overrides Equals, the comparison  *)
(* of any two values in any heap, however cyclic, returns TRUE exactly if  *)
(* they are bisimilar.                                                     *)
THEOREM ComparisonCorrect == KeysAreIdentities => (ComparisonSpec => []VerdictIsBisimilarity)
<1> SUFFICES ASSUME KeysAreIdentities PROVE ComparisonSpec => []VerdictIsBisimilarity
  OBVIOUS
<1>1. ComparisonInit => TypeInv /\ ShapeInv /\ GoodInv
  BY DEF ComparisonInit, TypeInv, ShapeInv, GoodInv, Good, Begun
<1>2. TypeInv /\ ShapeInv /\ GoodInv /\ [ComparisonNext]_comparerVars
        => TypeInv' /\ ShapeInv' /\ GoodInv'
  BY TypeStep, ShapeStep, GoodStep
<1>3. ASSUME TypeInv, GoodInv PROVE VerdictIsBisimilarity
  <2>1. ASSUME NEW t \in Tasks, Answered(t)
        PROVE  answer[t] = Bisimilar(heap[t], goal[t][1], goal[t][2])
    <3>1. /\ call[t] = None /\ frames[t] = <<>> /\ answer[t] \in BOOLEAN /\ answer[t] # None
          /\ heap[t] \in Heaps /\ compared[t] \in SUBSET (Objects \X Objects)
          /\ goal[t] \in (Values \X Values) \cup {None}
      BY <1>3, <2>1, IdentitiesOfObjects DEF Answered, Idle, TypeInv
    <3>2. /\ goal[t] # None
          /\ answer[t] # FALSE => Sound(heap[t], goal[t], None, <<>>, compared[t])
          /\ Bisimilar(heap[t], goal[t][1], goal[t][2]) => answer[t] # FALSE
      BY <1>3, <3>1 DEF GoodInv, Good, Begun
    <3>3. answer[t] = TRUE => Bisimilar(heap[t], goal[t][1], goal[t][2])
      BY <3>1, <3>2, SeenIsBisimulation
    <3>4. Bisimilar(heap[t], goal[t][1], goal[t][2]) \in BOOLEAN
      BY DEF Bisimilar
    <3>5. QED
      BY <3>1, <3>2, <3>3, <3>4
  <2>2. QED
    BY <2>1 DEF VerdictIsBisimilarity
<1>4. QED
  BY <1>1, <1>2, <1>3, PTL DEF ComparisonSpec

-----------------------------------------------------------------------------
(* The depth of the recursion.  A call descends only with a pair that was  *)
(* not seen, and keeps it on the stack: no two frames compare one pair.    *)
KeyPair(frame) == Pair(frame.pair[1], frame.pair[2])

DistinctFrames(f, seen) ==
  /\ \A k \in DOMAIN f : KeyPair(f[k]) \in seen
  /\ \A j, k \in DOMAIN f : KeyPair(f[j]) = KeyPair(f[k]) => j = k

DepthInv == \A t \in Tasks : DistinctFrames(frames[t], compared[t])


(* A call descends with a pair that was not seen. *)
LEMMA DistinctAppend ==
  ASSUME NEW f \in Seq(Frames), NEW seen, DistinctFrames(f, seen),
         NEW frame \in Frames, KeyPair(frame) \notin seen
  PROVE  DistinctFrames(Append(f, frame), seen \cup {KeyPair(frame)})
<1> DEFINE g == Append(f, frame)
<1>1. /\ DOMAIN g = DOMAIN f \cup {Len(f) + 1} /\ Len(f) + 1 \notin DOMAIN f
      /\ g[Len(f) + 1] = frame
      /\ \A k \in DOMAIN f : g[k] = f[k]
  OBVIOUS
<1> HIDE DEF g
<1>2. \A k \in DOMAIN f : KeyPair(g[k]) = KeyPair(f[k]) /\ KeyPair(f[k]) \in seen
  BY <1>1 DEF DistinctFrames
<1>3. \A k \in DOMAIN g : KeyPair(g[k]) \in seen \cup {KeyPair(frame)}
  BY <1>1, <1>2
<1>4. ASSUME NEW j \in DOMAIN g, NEW k \in DOMAIN g, KeyPair(g[j]) = KeyPair(g[k])
      PROVE  j = k
  <2>1. KeyPair(g[Len(f) + 1]) \notin seen
    BY <1>1
  <2>2. CASE j \in DOMAIN f /\ k \in DOMAIN f
    BY <1>2, <1>4, <2>2 DEF DistinctFrames
  <2>3. CASE j = Len(f) + 1 \/ k = Len(f) + 1
    BY <1>1, <1>2, <1>4, <2>1, <2>3
  <2>4. QED
    BY <1>1, <2>2, <2>3
<1>5. QED
  BY <1>3, <1>4 DEF DistinctFrames, g

(* What asks for a field or ends a comparison compares no other pairs. *)
LEMMA DistinctKept ==
  ASSUME NEW f, NEW g, NEW seen, DistinctFrames(f, seen),
         DOMAIN g \subseteq DOMAIN f, \A k \in DOMAIN g : g[k].pair = f[k].pair
  PROVE  DistinctFrames(g, seen)
<1>1. \A k \in DOMAIN g : k \in DOMAIN f /\ KeyPair(g[k]) = KeyPair(f[k])
  BY DEF KeyPair
<1>2. QED
  BY <1>1 DEF DistinctFrames

LEMMA DepthStep ==
  ASSUME TypeInv, DepthInv, [ComparisonNext]_comparerVars
  PROVE  DepthInv'
<1>t. frames \in [Tasks -> Seq(Frames)] /\ DOMAIN compared = Tasks
  BY DEF TypeInv
<1>o. ASSUME NEW t \in Tasks, DistinctFrames(frames'[t], compared'[t]),
             \A u \in Tasks \ {t} : frames'[u] = frames[u] /\ compared'[u] = compared[u]
      PROVE  DepthInv'
  <2>1. \A u \in Tasks : DistinctFrames(frames'[u], compared'[u])
    BY <1>o DEF DepthInv
  <2>2. QED
    BY <2>1 DEF DepthInv
<1>1. ASSUME NEW t \in Tasks, NEW v \in Values, NEW w \in Values, Begin(t, v, w)
      PROVE  DepthInv'
  <2>1. frames' = frames /\ frames[t] = <<>> /\ compared' = [compared EXCEPT ![t] = {}]
    BY <1>1 DEF Begin, Idle
  <2>2. DOMAIN frames'[t] = {}
    BY <2>1
  <2>3. DistinctFrames(frames'[t], compared'[t])
    BY <2>2 DEF DistinctFrames
  <2>4. QED
    BY <1>o, <2>1, <2>3
<1>2. ASSUME NEW t \in Tasks, Descend(t)
      PROVE  DepthInv'
  <2> DEFINE frame == [pair |-> call[t], next |-> 1]
  <2>1. /\ call[t] # None /\ call[t][1] \in Objects /\ call[t][2] \in Objects
        /\ Pair(call[t][1], call[t][2]) \notin compared[t]
    BY <1>2 DEF Descend, NotCompared, SameType
  <2>2. call[t] \in Objects \X Objects
    BY <2>1 DEF TypeInv
  <2>3. frame \in Frames
    BY <2>2 DEF Frames
  <2>4. KeyPair(frame) = Pair(call[t][1], call[t][2])
    BY DEF KeyPair
  <2>5. /\ frames' = [frames EXCEPT ![t] = Append(frames[t], frame)]
        /\ compared' = [compared EXCEPT ![t] = compared[t] \cup {KeyPair(frame)}]
    BY <1>2, <2>4 DEF Descend
  <2>6. frames[t] \in Seq(Frames) /\ DistinctFrames(frames[t], compared[t])
    BY <1>t DEF DepthInv
  <2> HIDE DEF frame
  <2>7. DistinctFrames(Append(frames[t], frame), compared[t] \cup {KeyPair(frame)})
    BY <2>1, <2>3, <2>4, <2>6, DistinctAppend
  <2>8. QED
    BY <1>t, <1>o, <2>5, <2>7
<1>3. ASSUME NEW t \in Tasks, DifferentLength(t)
      PROVE  DepthInv'
  <2>1. /\ frames' = frames
        /\ compared' = [compared EXCEPT ![t] = compared[t] \cup {Pair(call[t][1], call[t][2])}]
    BY <1>3 DEF DifferentLength
  <2>2. DistinctFrames(frames[t], compared[t])
    BY DEF DepthInv
  <2>3. DistinctFrames(frames'[t], compared'[t])
    BY <1>t, <2>1, <2>2 DEF DistinctFrames
  <2>4. QED
    BY <1>o, <2>1, <2>3
<1>4. ASSUME NEW t \in Tasks, NextField(t)
      PROVE  DepthInv'
  <2>1. frames[t] \in Seq(Frames) /\ frames[t] # <<>>
    BY <1>t, <1>4 DEF NextField, InContents
  <2>2. frames' = [frames EXCEPT ![t] = Advanced(frames[t])] /\ compared' = compared
    BY <1>4 DEF NextField, Advanced, Popped, Top
  <2>3. DOMAIN Advanced(frames[t]) = DOMAIN frames[t]
    BY <2>1, AdvancedType
  <2>4. \A k \in DOMAIN frames[t] : Advanced(frames[t])[k].pair = frames[t][k].pair
    BY <2>1, AdvancedType
  <2>5. DistinctFrames(Advanced(frames[t]), compared[t])
    BY <2>3, <2>4, DistinctKept DEF DepthInv
  <2>6. QED
    BY <1>t, <1>o, <2>2, <2>5
<1>5. ASSUME NEW t \in Tasks, AllEqual(t) \/ SomeDifferent(t)
      PROVE  DepthInv'
  <2>1. frames[t] \in Seq(Frames) /\ frames[t] # <<>>
    BY <1>t, <1>5 DEF AllEqual, SomeDifferent, InContents
  <2>2. \A k \in DOMAIN Popped(t) : k \in DOMAIN frames[t] /\ Popped(t)[k] = frames[t][k]
    BY <2>1 DEF Popped
  <2>3. frames' = [frames EXCEPT ![t] = Popped(t)] /\ compared' = compared
    BY <1>5 DEF AllEqual, SomeDifferent
  <2>4. DistinctFrames(Popped(t), compared[t])
    BY <2>2, DistinctKept DEF DepthInv
  <2>5. QED
    BY <1>t, <1>o, <2>3, <2>4
<1>6. ASSUME UNCHANGED <<frames, compared>>
      PROVE  DepthInv'
  BY <1>6 DEF DepthInv
<1>7. QED
  BY <1>1, <1>2, <1>3, <1>4, <1>5, <1>6 DEF ComparisonNext, Compare, comparerVars, Change,
    EqualAtOnce, DifferentAtOnce, AlreadyCompared, Reply

(* A stack of distinct pairs is no higher than there are pairs. *)
LEMMA DistinctBounded ==
  ASSUME IsFiniteSet(Objects), NEW f \in Seq(Frames), NEW seen, DistinctFrames(f, seen)
  PROVE  Len(f) <= Cardinality(Objects) * Cardinality(Objects)
<1> DEFINE pairOf == [k \in 1..Len(f) |-> f[k].pair]
<1>1. Len(f) \in Nat /\ DOMAIN f = 1..Len(f)
  OBVIOUS
<1>2. \A k \in 1..Len(f) : f[k].pair \in Objects \X Objects
  <2>1. \A k \in 1..Len(f) : f[k] \in Frames
    BY <1>1
  <2>2. QED
    BY <2>1 DEF Frames
<1>3. \A j, k \in 1..Len(f) : f[j].pair = f[k].pair => j = k
  BY <1>1 DEF DistinctFrames, KeyPair
<1>4. pairOf \in Injection(1..Len(f), Objects \X Objects)
  <2>1. pairOf \in [1..Len(f) -> Objects \X Objects]
    BY <1>2
  <2>2. \A j, k \in 1..Len(f) : pairOf[j] = pairOf[k] => j = k
    BY <1>3
  <2>3. QED
    BY <2>1, <2>2 DEF Injection, IsInjective
<1>5. /\ IsFiniteSet(Objects \X Objects)
      /\ Cardinality(Objects \X Objects) = Cardinality(Objects) * Cardinality(Objects)
  BY FS_Product
<1>6. Cardinality(1..Len(f)) <= Cardinality(Objects \X Objects)
  BY <1>4, <1>5, FS_Injection
<1>7. Cardinality(1..Len(f)) = Len(f)
  BY <1>1, FS_Interval
<1>8. QED
  BY <1>5, <1>6, <1>7

(* DepthIsBounded: whatever its objects' own Equals tell apart, and however *)
(* their graphs close in cycles, the recursion of ObjectComparer.Equals is *)
(* no deeper than there are pairs of objects.                              *)
THEOREM DepthCorrect == IsFiniteSet(Objects) => (ComparisonSpec => []DepthIsBounded)
<1> SUFFICES ASSUME IsFiniteSet(Objects) PROVE ComparisonSpec => []DepthIsBounded
  OBVIOUS
<1>1. ComparisonInit => TypeInv /\ ShapeInv /\ DepthInv
  BY DEF ComparisonInit, TypeInv, ShapeInv, DepthInv, DistinctFrames
<1>2. TypeInv /\ ShapeInv /\ DepthInv /\ [ComparisonNext]_comparerVars
        => TypeInv' /\ ShapeInv' /\ DepthInv'
  BY TypeStep, ShapeStep, DepthStep
<1>3. TypeInv /\ DepthInv => DepthIsBounded
  <2>1. ASSUME TypeInv, DepthInv, NEW t \in Tasks
        PROVE  Len(frames[t]) <= Cardinality(Objects) * Cardinality(Objects)
    <3>1. frames[t] \in Seq(Frames) /\ DistinctFrames(frames[t], compared[t])
      BY <2>1 DEF TypeInv, DepthInv
    <3>2. QED
      BY <3>1, DistinctBounded
  <2>2. QED
    BY <2>1 DEF DepthIsBounded
<1>4. QED
  BY <1>1, <1>2, <1>3, PTL DEF ComparisonSpec

============================================================================
