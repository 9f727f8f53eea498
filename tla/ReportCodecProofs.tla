------------------------- MODULE ReportCodecProofs -------------------------
(***************************************************************************)
(* Proofs about ReportCodec: how the bytes of a history are laid out, for  *)
(* any number of methods and reports, names of any length, and that what   *)
(* the deserializer reads where something was written is what was written. *)
(***************************************************************************)
EXTENDS ReportCodec, FiniteSetTheorems, TLAPS

-----------------------------------------------------------------------------
(* Induction.  The natural numbers are well-founded, so that a set of them *)
(* with counterexamples would have a least one.                            *)
LEMMA LeastNat ==
  ASSUME NEW T \in SUBSET Nat, T # {}
  PROVE  \E x \in T : \A y \in T : x <= y
<1> DEFINE R == OpToRel(<, Nat)
<1>1. IsWellFoundedOn(R, Nat)
  BY NatLessThanWellFounded
<1>2. \A x, y \in Nat : y < x => <<y, x>> \in R
  BY Zenon DEF OpToRel
<1> HIDE DEF R
<1>3. PICK x \in T : \A y \in T : <<y, x>> \notin R
  <2>1. \E x \in T : \A y \in T : ~(<<y, x>> \in R)
    BY <1>1, WFMin
  <2>2. QED
    BY <2>1
<1>4. ASSUME NEW y \in T PROVE x <= y
  <2>1. ~(y < x)
    BY <1>2, <1>3
  <2>2. QED
    BY <2>1
<1>5. QED
  BY <1>4

(* A set of numbers with 0 and with each number the next one, up to a      *)
(* bound, has all numbers up to the bound.                                 *)
LEMMA UpTo ==
  ASSUME NEW N \in Nat, NEW G, 0 \in G, \A n \in 1 .. N : n - 1 \in G => n \in G
  PROVE  0 .. N \subseteq G
<1> DEFINE T == {n \in 0 .. N : n \notin G}
<1>1. SUFFICES ASSUME T # {}
               PROVE  FALSE
  OBVIOUS
<1>2. PICK x \in T : \A y \in T : x <= y
  <2>1. T \in SUBSET Nat
    OBVIOUS
  <2>2. QED
    BY <1>1, <2>1, LeastNat
<1>3. x \in 1 .. N /\ x \notin G
  OBVIOUS
<1>4. x - 1 \notin T
  BY <1>2, <1>3
<1>5. x - 1 \in G
  BY <1>3, <1>4
<1>6. QED
  BY <1>3, <1>5

-----------------------------------------------------------------------------
(* A set of numbers in ascending order. *)
Increasing(s) == \A i, j \in DOMAIN s : i < j => s[i] < s[j]

(* What was enumerated up to n, with n at its end. *)
LEMMA IncreasingAppend ==
  ASSUME NEW n \in Nat, NEW S \in SUBSET (0 .. n - 1), NEW k \in Nat,
         NEW s \in Surjection(1 .. k, S), Increasing(s)
  PROVE  \E t \in Surjection(1 .. k + 1, S \cup {n}) : Increasing(t)
<1> DEFINE t == [i \in 1 .. k + 1 |-> IF i = k + 1 THEN n ELSE s[i]]
<1>1. s \in [1 .. k -> S] /\ \A x \in S : \E i \in 1 .. k : s[i] = x
  BY DEF Surjection
<1>0. \A x \in S : x \in Nat /\ x < n
  OBVIOUS
<1>2. \A i \in 1 .. k : t[i] = s[i] /\ s[i] \in Nat /\ s[i] < n
  <2>1. \A i \in 1 .. k : t[i] = s[i] /\ s[i] \in S
    BY <1>1
  <2>2. QED
    BY <1>0, <2>1
<1>3. t[k + 1] = n
  OBVIOUS
<1>4. t \in [1 .. k + 1 -> S \cup {n}]
  BY <1>1
<1>5. \A x \in S \cup {n} : \E i \in 1 .. k + 1 : t[i] = x
  <2> HIDE DEF t
  <2>1. \A x \in S : \E i \in 1 .. k : t[i] = x
    BY <1>1, <1>2
  <2>2. 1 .. k \subseteq 1 .. k + 1 /\ k + 1 \in 1 .. k + 1
    OBVIOUS
  <2>3. QED
    BY <1>3, <2>1, <2>2
<1>6. Increasing(t)
  <2>1. ASSUME NEW i \in 1 .. k + 1, NEW j \in 1 .. k + 1, i < j
        PROVE  t[i] < t[j]
    <3>1. i \in 1 .. k
      BY <2>1
    <3>2. CASE j = k + 1
      BY <1>2, <1>3, <3>1, <3>2
    <3>3. CASE j # k + 1
      <4>1. j \in 1 .. k
        BY <3>3
      <4>2. s[i] < s[j]
        BY <1>1, <2>1, <3>1, <4>1 DEF Increasing
      <4>3. QED
        BY <1>2, <3>1, <4>1, <4>2
    <3>4. QED
      BY <3>2, <3>3
  <2>2. DOMAIN t = 1 .. k + 1
    OBVIOUS
  <2>3. QED
    BY <2>1, <2>2 DEF Increasing
<1>7. t \in Surjection(1 .. k + 1, S \cup {n})
  BY <1>4, <1>5 DEF Surjection
<1>8. QED
  BY <1>6, <1>7

(* A set of numbers below a bound has an increasing enumeration. *)
LEMMA IncreasingExists ==
  ASSUME NEW N \in Nat
  PROVE  \A S \in SUBSET (0 .. N - 1) :
           \E k \in Nat : \E s \in Surjection(1 .. k, S) : Increasing(s)
<1> DEFINE Has(S) == \E k \in Nat : \E s \in Surjection(1 .. k, S) : Increasing(s)
           G == {n \in 0 .. N : \A S \in SUBSET (0 .. n - 1) : Has(S)}
<1>1. 0 \in G
  <2>1. 0 .. (0 - 1) = {} /\ 1 .. 0 = {}
    OBVIOUS
  <2>2. <<>> \in Surjection(1 .. 0, {}) /\ Increasing(<<>>)
    BY <2>1 DEF Surjection, Increasing
  <2>3. Has({})
    BY <2>2
  <2>4. \A S \in SUBSET (0 .. 0 - 1) : S = {}
    BY <2>1
  <2> HIDE DEF Has
  <2>5. \A S \in SUBSET (0 .. 0 - 1) : Has(S)
    BY <2>3, <2>4
  <2>6. QED
    BY <2>5
<1>2. ASSUME NEW n \in 1 .. N, n - 1 \in G
      PROVE  n \in G
  <2>1. ASSUME NEW S \in SUBSET (0 .. n - 1)
        PROVE  Has(S)
    <3> DEFINE m == n - 1
               R == S \ {m}
    <3>1. m \in Nat /\ R \in SUBSET (0 .. m - 1)
      BY <2>1
    <3>2. Has(R)
      BY <1>2, <3>1
    <3>3. CASE m \in S
      <4>0. PICK k \in Nat : \E s \in Surjection(1 .. k, R) : Increasing(s)
        BY <3>2
      <4>1. PICK s \in Surjection(1 .. k, R) : Increasing(s)
        BY <4>0
      <4>2. \E t \in Surjection(1 .. k + 1, R \cup {m}) : Increasing(t)
        BY <3>1, <4>0, <4>1, IncreasingAppend
      <4>3. R \cup {m} = S
        BY <3>3
      <4>4. QED
        BY <4>0, <4>2, <4>3
    <3>4. CASE m \notin S
      <4>1. R = S
        BY <3>4
      <4>2. QED
        BY <3>2, <4>1
    <3>5. QED
      BY <3>3, <3>4
  <2>2. QED
    BY <2>1
<1>3. N \in G
  <2> HIDE DEF G
  <2>1. 0 .. N \subseteq G
    BY <1>1, <1>2, UpTo
  <2>2. QED
    BY <2>1
<1>4. QED
  BY <1>3

(* Ascending enumerates its set. *)
LEMMA AscendingIs ==
  ASSUME NEW N \in Nat, NEW S \in SUBSET (0 .. N - 1), NEW s, s = Ascending(S)
  PROVE  /\ Cardinality(S) \in Nat /\ Len(s) = Cardinality(S)
         /\ s \in [1 .. Len(s) -> S] /\ s \in Seq(S)
         /\ s \in Surjection(1 .. Len(s), S) /\ s \in Injection(1 .. Len(s), S)
<1> DEFINE n == Cardinality(S)
<1>1. IsFiniteSet(S) /\ n \in Nat
  <2>1. IsFiniteSet(0 .. N - 1)
    BY FS_Interval
  <2>2. IsFiniteSet(S)
    BY <2>1, FS_Subset
  <2>3. QED
    BY <2>2, FS_CardinalityType
<1>2. ASSUME NEW k \in Nat, NEW f \in [1 .. k -> S], Increasing(f)
      PROVE  f \in Injection(1 .. k, S)
  <2>1. ASSUME NEW i \in 1 .. k, NEW j \in 1 .. k, f[i] = f[j]
        PROVE  i = j
    <3>1. f[i] \in Nat /\ f[j] \in Nat
      <4>1. f[i] \in S /\ f[j] \in S
        BY <2>1
      <4>2. \A x \in S : x \in Nat
        OBVIOUS
      <4>3. QED
        BY <4>1, <4>2
    <3>2. ~(i < j) /\ ~(j < i)
      BY <1>2, <2>1, <3>1 DEF Increasing
    <3>3. QED
      BY <3>2
  <2>2. QED
    BY <2>1 DEF Injection, IsInjective
<1>3. \E f \in [1 .. n -> S] : Increasing(f)
  <2>0. PICK k \in Nat : \E f \in Surjection(1 .. k, S) : Increasing(f)
    BY IncreasingExists
  <2>1. PICK f \in Surjection(1 .. k, S) : Increasing(f)
    BY <2>0
  <2>2. f \in [1 .. k -> S]
    BY <2>1 DEF Surjection
  <2>3. f \in Injection(1 .. k, S)
    BY <1>2, <2>1, <2>2
  <2>4. IsFiniteSet(1 .. k) /\ Cardinality(1 .. k) = k
    BY <2>1, FS_Interval
  <2>5. n = k
    BY <2>1, <2>3, <2>4, FS_Surjection
  <2>6. QED
    BY <2>1, <2>2, <2>5
<1>4. s \in [1 .. n -> S] /\ Increasing(s)
  <2>1. s = CHOOSE f \in [1 .. n -> S] : Increasing(f)
    BY DEF Ascending, Increasing
  <2>2. QED
    BY <1>3, <2>1
<1>5. s \in Injection(1 .. n, S)
  BY <1>1, <1>2, <1>4
<1>6. IsFiniteSet(1 .. n) /\ Cardinality(1 .. n) = n
  BY <1>1, FS_Interval
<1>7. s \in Surjection(1 .. n, S)
  BY <1>1, <1>5, <1>6, FS_Injection
<1>8. Len(s) = n /\ s \in Seq(S)
  BY <1>1, <1>4
<1>9. QED
  BY <1>1, <1>4, <1>5, <1>7, <1>8

-----------------------------------------------------------------------------
(* Layout.  From offset o on, bytes holds s. *)
Holds(bytes, o, s) ==
  o + Len(s) <= Len(bytes) /\ \A i \in 1 .. Len(s) : bytes[o + i] = s[i]

(* From offset at[0] on, bytes holds the sequences one after the other,    *)
(* the k-th from at[k - 1] to at[k].                                       *)
Laid(bytes, seqs, at) ==
  \A k \in 1 .. Len(seqs) : /\ at[k - 1] \in Nat /\ at[k] = at[k - 1] + Len(seqs[k])
                            /\ Holds(bytes, at[k - 1], seqs[k])

LEMMA HoldsWithin ==
  ASSUME NEW C, NEW bytes \in Seq(C), NEW o \in Nat, NEW s \in Seq(C), Holds(bytes, o, s),
         NEW p \in Nat, NEW u \in Seq(C), Holds(s, p, u)
  PROVE  Holds(bytes, o + p, u)
<1>1. Len(u) \in Nat /\ Len(s) \in Nat /\ Len(bytes) \in Nat
  OBVIOUS
<1>2. o + Len(s) <= Len(bytes) /\ p + Len(u) <= Len(s)
  BY DEF Holds
<1>3. ASSUME NEW i \in 1 .. Len(u)
      PROVE  bytes[o + p + i] = u[i]
  <2>1. p + i \in 1 .. Len(s)
    BY <1>1, <1>2
  <2>2. s[p + i] = u[i] /\ bytes[o + (p + i)] = s[p + i]
    BY <2>1 DEF Holds
  <2>3. o + (p + i) = o + p + i
    OBVIOUS
  <2>4. QED
    BY <2>2, <2>3
<1>4. QED
  BY <1>1, <1>2, <1>3 DEF Holds

LEMMA Joined ==
  ASSUME NEW C, NEW s \in Seq(C), NEW u \in Seq(C)
  PROVE  /\ s \o u \in Seq(C) /\ Len(s \o u) = Len(s) + Len(u)
         /\ \A i \in 1 .. Len(s) : (s \o u)[i] = s[i]
         /\ \A i \in 1 .. Len(u) : (s \o u)[Len(s) + i] = u[i]
OBVIOUS

LEMMA HoldsParts ==
  ASSUME NEW C, NEW s \in Seq(C), NEW u \in Seq(C)
  PROVE  /\ s \o u \in Seq(C) /\ Len(s \o u) = Len(s) + Len(u)
         /\ Holds(s \o u, 0, s) /\ Holds(s \o u, Len(s), u)
BY DEF Holds

(* The same parts, further on. *)
LEMMA LaidWithin ==
  ASSUME NEW C, NEW bytes \in Seq(C), NEW o \in Nat, NEW s \in Seq(C), Holds(bytes, o, s),
         NEW seqs \in Seq(Seq(C)), NEW at, Laid(s, seqs, at), at[Len(seqs)] \in Nat
  PROVE  LET far == [k \in 0 .. Len(seqs) |-> o + at[k]]
         IN  /\ Laid(bytes, seqs, far) /\ far[0] = o + at[0]
             /\ far[Len(seqs)] = o + at[Len(seqs)]
<1> DEFINE n == Len(seqs)
           far == [k \in 0 .. n |-> o + at[k]]
<1>1. n \in Nat
  OBVIOUS
<1>2. ASSUME NEW k \in 1 .. n
      PROVE  /\ far[k - 1] \in Nat /\ far[k] = far[k - 1] + Len(seqs[k])
             /\ Holds(bytes, far[k - 1], seqs[k])
  <2>1. seqs[k] \in Seq(C) /\ Len(seqs[k]) \in Nat
    OBVIOUS
  <2>2. /\ at[k - 1] \in Nat /\ at[k] = at[k - 1] + Len(seqs[k])
        /\ Holds(s, at[k - 1], seqs[k])
    BY DEF Laid
  <2>3. far[k] = o + at[k] /\ far[k - 1] = o + at[k - 1]
    BY <1>1
  <2> HIDE DEF far
  <2>4. Holds(bytes, o + at[k - 1], seqs[k])
    BY <2>1, <2>2, HoldsWithin
  <2>5. QED
    BY <2>1, <2>2, <2>3, <2>4
<1>3. far[0] = o + at[0] /\ far[n] = o + at[n]
  BY <1>1
<1>4. QED
  BY <1>2, <1>3 DEF Laid

-----------------------------------------------------------------------------
(* FlattenSeq puts its sequences one after the other. *)
LEMMA FlattenFold ==
  ASSUME NEW C, NEW seqs \in Seq(Seq(C)), Len(seqs) # 0
  PROVE  \E f : /\ f[1] = seqs[1]
                /\ \A k \in 2 .. Len(seqs) : f[k] = f[k - 1] \o seqs[k]
                /\ FlattenSeq(seqs) = f[Len(seqs)]
<1> DEFINE N == Len(seqs)
           Join(s, u) == s \o u
           Folds(g, n) == g = [i \in 1 .. n |-> IF i = 1 THEN seqs[i] ELSE Join(g[i - 1], seqs[i])]
           G == {n \in 0 .. N : \E g : Folds(g, n)}
<1>1. N \in Nat /\ N >= 1
  OBVIOUS
<1> HIDE DEF Join
<1>2. 0 \in G
  <2>1. 1 .. 0 = {}
    OBVIOUS
  <2>2. Folds([i \in 1 .. 0 |-> seqs], 0)
    BY <2>1
  <2>3. \E g : Folds(g, 0)
    BY <2>2
  <2> HIDE DEF Folds
  <2>4. QED
    BY <1>1, <2>3
<1>3. ASSUME NEW n \in 1 .. N, n - 1 \in G
      PROVE  n \in G
  <2>1. PICK g : Folds(g, n - 1)
    BY <1>3
  <2> DEFINE h == [i \in 1 .. n |-> IF i = 1 THEN seqs[i]
                                    ELSE IF i = n THEN Join(g[n - 1], seqs[n]) ELSE g[i]]
  <2>2. ASSUME NEW i \in 1 .. n
        PROVE  h[i] = IF i = 1 THEN seqs[i] ELSE Join(h[i - 1], seqs[i])
    <3>1. CASE i = 1
      BY <1>1, <3>1
    <3>2. CASE i \in 2 .. n
      <4>1. i - 1 \in 1 .. n - 1 /\ i - 1 # n /\ i # 1
        BY <1>1, <3>2
      <4>2. h[i - 1] = g[i - 1]
        <5>1. i - 1 = 1 => g[i - 1] = seqs[i - 1]
          BY <2>1, <4>1
        <5>2. QED
          BY <1>1, <4>1, <5>1
      <4>3. i # n => g[i] = Join(g[i - 1], seqs[i])
        BY <1>1, <2>1, <3>2, <4>1
      <4>4. QED
        BY <1>1, <3>2, <4>1, <4>2, <4>3
    <3>3. QED
      BY <1>1, <3>1, <3>2
  <2>3. Folds(h, n)
    BY <2>2
  <2>4. \E f : Folds(f, n)
    BY <2>3
  <2> HIDE DEF Folds, N
  <2>5. QED
    BY <1>1, <2>4
<1>4. N \in G
  <2> HIDE DEF G, N
  <2>1. 0 .. N \subseteq G
    BY <1>1, <1>2, <1>3, UpTo
  <2>2. QED
    BY <1>1, <2>1
<1> DEFINE f == CHOOSE g : Folds(g, N)
<1>5. Folds(f, N)
  BY <1>4
<1>6. FlattenSeq(seqs) = f[N]
  BY DEF FlattenSeq, Join
<1>7. f[1] = seqs[1] /\ \A k \in 2 .. N : f[k] = Join(f[k - 1], seqs[k])
  <2> HIDE DEF f
  <2>1. QED
    BY <1>1, <1>5
<1>8. QED
  BY <1>6, <1>7 DEF Join

LEMMA FlattenLaid ==
  ASSUME NEW C, NEW seqs \in Seq(Seq(C))
  PROVE  /\ FlattenSeq(seqs) \in Seq(C)
         /\ \E at : /\ Laid(FlattenSeq(seqs), seqs, at) /\ at[0] = 0
                    /\ at[Len(seqs)] = Len(FlattenSeq(seqs))
<1> DEFINE N == Len(seqs)
<1>1. N \in Nat /\ \A k \in 1 .. N : seqs[k] \in Seq(C) /\ Len(seqs[k]) \in Nat
  OBVIOUS
<1>2. CASE N = 0
  <2>1. FlattenSeq(seqs) = <<>> /\ Len(FlattenSeq(seqs)) = 0
    BY <1>2 DEF FlattenSeq
  <2>2. Laid(FlattenSeq(seqs), seqs, [k \in {0} |-> 0])
    BY <1>2 DEF Laid
  <2>3. [k \in {0} |-> 0][0] = 0
    OBVIOUS
  <2>4. QED
    BY <1>2, <2>1, <2>2, <2>3
<1>3. CASE N # 0
  <2>1. PICK f : /\ f[1] = seqs[1]
                 /\ \A k \in 2 .. N : f[k] = f[k - 1] \o seqs[k]
                 /\ FlattenSeq(seqs) = f[N]
    BY <1>3, FlattenFold
  <2> DEFINE at == [k \in 0 .. N |-> IF k = 0 THEN 0 ELSE Len(f[k])]
             Up(n) == /\ f[n] \in Seq(C) /\ at[0] = 0 /\ at[n] = Len(f[n])
                      /\ \A k \in 1 .. n : /\ at[k - 1] \in Nat
                                           /\ at[k] = at[k - 1] + Len(seqs[k])
                                           /\ Holds(f[n], at[k - 1], seqs[k])
             G == {n \in 0 .. N : n = 0 \/ Up(n)}
  <2>2. 0 \in G
    BY <1>1
  <2>3. at[0] = 0 /\ \A k \in 1 .. N : at[k] = Len(f[k])
    BY <1>1
  <2> HIDE DEF at
  <2>4. ASSUME NEW n \in 1 .. N, n - 1 \in G
        PROVE  n \in G
    <3>1. CASE n = 1
      <4>1. f[1] = seqs[1] /\ f[1] \in Seq(C) /\ Len(f[1]) \in Nat
        BY <1>1, <1>3, <2>1
      <4>2. at[1] = Len(f[1])
        BY <1>1, <1>3, <2>3
      <4>3. Holds(f[1], 0, seqs[1])
        BY <4>1 DEF Holds
      <4>4. ASSUME NEW k \in 1 .. 1
            PROVE  /\ at[k - 1] \in Nat
                   /\ at[k] = at[k - 1] + Len(seqs[k])
                   /\ Holds(f[1], at[k - 1], seqs[k])
        <5>1. k = 1 /\ k - 1 = 0
          OBVIOUS
        <5>2. QED
          BY <2>3, <4>1, <4>2, <4>3, <5>1
      <4>5. Up(1)
        BY <2>3, <4>1, <4>2, <4>4
      <4>6. QED
        BY <3>1, <4>5
    <3>2. CASE n # 1
      <4> DEFINE m == n - 1
      <4>1. m \in 1 .. N /\ n \in 2 .. N /\ n = m + 1
        BY <1>1, <3>2
      <4>2. Up(m)
        BY <2>4, <4>1
      <4>3. f[n] = f[m] \o seqs[n] /\ seqs[n] \in Seq(C) /\ f[m] \in Seq(C)
        BY <1>1, <2>1, <4>1, <4>2
      <4>4. /\ f[n] \in Seq(C) /\ Len(f[n]) = Len(f[m]) + Len(seqs[n])
            /\ Holds(f[n], 0, f[m]) /\ Holds(f[n], Len(f[m]), seqs[n])
        BY <4>3, HoldsParts
      <4>5. at[n] = Len(f[n]) /\ at[m] = Len(f[m]) /\ at[m] \in Nat
        <5>1. at[n] = Len(f[n]) /\ at[m] = Len(f[m])
          <6> HIDE DEF m, N
          <6>1. QED
            BY <2>3, <4>1
        <5>2. Len(f[m]) \in Nat
          BY <4>3
        <5>3. QED
          BY <5>1, <5>2
      <4>6. ASSUME NEW k \in 1 .. n
            PROVE  /\ at[k - 1] \in Nat
                   /\ at[k] = at[k - 1] + Len(seqs[k])
                   /\ Holds(f[n], at[k - 1], seqs[k])
        <5>1. CASE k = n
          BY <4>1, <4>4, <4>5, <5>1
        <5>2. CASE k # n
          <6>1. k \in 1 .. m /\ k \in 1 .. N
            BY <4>1, <5>2
          <6>2. /\ at[k - 1] \in Nat /\ at[k] = at[k - 1] + Len(seqs[k])
                /\ Holds(f[m], at[k - 1], seqs[k])
            BY <4>2, <6>1
          <6>3. seqs[k] \in Seq(C)
            BY <1>1, <6>1
          <6>4. Holds(f[n], 0 + at[k - 1], seqs[k])
            BY <4>3, <4>4, <6>2, <6>3, HoldsWithin
          <6>5. 0 + at[k - 1] = at[k - 1]
            BY <6>2
          <6>6. QED
            BY <6>2, <6>4, <6>5
        <5>3. QED
          BY <5>1, <5>2
      <4> HIDE DEF m
      <4>7. Up(n)
        BY <2>3, <4>4, <4>5, <4>6
      <4>8. QED
        BY <4>7
    <3>3. QED
      BY <3>1, <3>2
  <2>5. Up(N)
    <3> HIDE DEF G, Up, N
    <3>1. 0 .. N \subseteq G
      BY <1>1, <2>2, <2>4, UpTo
    <3>2. N \in G
      BY <1>1, <3>1
    <3>3. QED
      BY <1>3, <3>2 DEF G
  <2>6. Laid(f[N], seqs, at)
    BY <2>5 DEF Laid
  <2>7. QED
    BY <2>1, <2>5, <2>6
<1>4. QED
  BY <1>2, <1>3

-----------------------------------------------------------------------------
(* What is written, and of what. *)
Hits == [method : Nat, offset : Nat]
Written == [kind : {"int"}, value : Nat]
             \cup [kind : {"char"}, value : Characters \cup {Zero}]
             \cup [kind : {"record"}, value : Hits]
SentReports == [threadId : Nat, aborted : BOOLEAN, records : Seq(Hits)]

LEMMA CellsAre ==
  /\ \A n \in Nat : Word(n) \in Written /\ Word(n).kind = "int" /\ Word(n).value = n
  /\ \A c \in Characters \cup {Zero} :
       Char(c) \in Written /\ Char(c).kind = "char" /\ Char(c).value = c
  /\ \A r \in Hits : Cell(r) \in Written /\ Cell(r).kind = "record" /\ Cell(r).value = r
BY DEF Written, Word, Char, Cell

LEMMA NameIs ==
  ASSUME NEW n \in Seq(Characters)
  PROVE  /\ Name(n) \in Seq(Written) /\ Len(Name(n)) = Len(n) + 2
         /\ Name(n)[1] = Word(Len(n) + 1)
         /\ \A i \in 1 .. Len(n) : Name(n)[i + 1] = Char(n[i])
         /\ Name(n)[Len(n) + 2] = Char(Zero)
<1> DEFINE size == <<Word(Len(n) + 1)>>
           text == [i \in DOMAIN n |-> Char(n[i])]
           end  == <<Char(Zero)>>
<1>1. Len(n) \in Nat /\ \A i \in 1 .. Len(n) : n[i] \in Characters
  OBVIOUS
<1>2. size \in Seq(Written) /\ Len(size) = 1 /\ size[1] = Word(Len(n) + 1)
  <2>1. Word(Len(n) + 1) \in Written
    BY <1>1, CellsAre
  <2>2. QED
    BY <2>1
<1>3. text \in Seq(Written) /\ Len(text) = Len(n) /\ \A i \in 1 .. Len(n) : text[i] = Char(n[i])
  <2>1. \A i \in 1 .. Len(n) : Char(n[i]) \in Written
    BY <1>1, CellsAre
  <2>2. DOMAIN n = 1 .. Len(n)
    OBVIOUS
  <2>3. QED
    BY <1>1, <2>1, <2>2
<1>4. end \in Seq(Written) /\ Len(end) = 1 /\ end[1] = Char(Zero)
  <2>1. Char(Zero) \in Written
    BY CellsAre
  <2>2. QED
    BY <2>1
<1>5. Name(n) = (size \o text) \o end
  BY DEF Name, Cells
<1> HIDE DEF size, text, end
<1>6. /\ (size \o text) \in Seq(Written) /\ Len(size \o text) = Len(n) + 1
      /\ (size \o text)[1] = Word(Len(n) + 1)
      /\ \A i \in 1 .. Len(n) : (size \o text)[i + 1] = Char(n[i])
  <2>1. /\ (size \o text) \in Seq(Written) /\ Len(size \o text) = 1 + Len(n)
        /\ (size \o text)[1] = size[1]
        /\ \A i \in 1 .. Len(n) : (size \o text)[1 + i] = text[i]
    BY <1>2, <1>3, Joined
  <2>2. \A i \in 1 .. Len(n) : 1 + i = i + 1
    OBVIOUS
  <2>3. QED
    BY <1>1, <1>2, <1>3, <2>1, <2>2
<1> DEFINE front == size \o text
<1> HIDE DEF front
<1>7. /\ front \o end \in Seq(Written) /\ Len(front \o end) = (Len(n) + 1) + 1
      /\ \A i \in 1 .. Len(n) + 1 : (front \o end)[i] = front[i]
      /\ (front \o end)[(Len(n) + 1) + 1] = end[1]
  <2>1. 1 \in 1 .. Len(end)
    BY <1>4
  <2>2. front \in Seq(Written) /\ Len(front) = Len(n) + 1
    BY <1>6 DEF front
  <2>3. QED
    BY <1>4, <2>1, <2>2, Joined
<1>8. 1 \in 1 .. Len(n) + 1 /\ \A i \in 1 .. Len(n) : i + 1 \in 1 .. Len(n) + 1
  BY <1>1
<1>9. (Len(n) + 1) + 1 = Len(n) + 2
  BY <1>1
<1>10. QED
  BY <1>4, <1>5, <1>6, <1>7, <1>8, <1>9 DEF front

(* An int is read where it was written. *)
LEMMA ReadIntIs ==
  ASSUME NEW bytes \in Seq(Written), NEW o \in Nat, o + 1 <= Len(bytes), NEW n \in Nat,
         bytes[o + 1] = Word(n)
  PROVE  ReadInt(bytes, o) = [ok |-> TRUE, value |-> n, next |-> o + 1]
<1>1. Are("int", bytes, o + 1, o + 1)
  BY CellsAre DEF Are
<1>2. QED
  BY <1>1, CellsAre DEF ReadInt

(* A name is read where it was written. *)
LEMMA ReadStringIs ==
  ASSUME NEW bytes \in Seq(Written), NEW o \in Nat, NEW n \in Seq(Characters),
         Holds(bytes, o, Name(n))
  PROVE  ReadString(bytes, o) = [ok |-> TRUE, value |-> n, next |-> o + Len(Name(n))]
<1> DEFINE N == Len(n)
           size == ReadInt(bytes, o)
           last == size.next + size.value
<1>1. N \in Nat /\ DOMAIN n = 1 .. N /\ \A i \in 1 .. N : n[i] \in Characters
  OBVIOUS
<1>2. /\ Len(Name(n)) = N + 2 /\ Name(n)[1] = Word(N + 1)
      /\ \A i \in 1 .. N : Name(n)[i + 1] = Char(n[i])
      /\ Name(n)[N + 2] = Char(Zero)
  BY NameIs
<1>3. o + (N + 2) <= Len(bytes) /\ \A i \in 1 .. N + 2 : bytes[o + i] = Name(n)[i]
  BY <1>2 DEF Holds
<1>4. bytes[o + 1] = Word(N + 1)
  BY <1>1, <1>2, <1>3
<1>5. size = [ok |-> TRUE, value |-> N + 1, next |-> o + 1]
  BY <1>1, <1>3, <1>4, ReadIntIs
<1>6. size.ok = TRUE /\ size.value = N + 1 /\ size.next = o + 1 /\ last = o + N + 2
  BY <1>1, <1>5
<1> HIDE DEF size, last
<1>7. \A i \in 1 .. N : bytes[o + 1 + i] = Char(n[i]) /\ bytes[o + 1 + i].value = n[i]
  <2>1. ASSUME NEW i \in 1 .. N
        PROVE  bytes[o + 1 + i] = Char(n[i])
    <3>1. bytes[o + (i + 1)] = Char(n[i])
      BY <1>1, <1>2, <1>3
    <3>2. o + (i + 1) = o + 1 + i
      BY <1>1
    <3>3. QED
      BY <3>1, <3>2
  <2>2. QED
    BY <1>1, <2>1, CellsAre
<1>8. bytes[o + N + 2] = Char(Zero)
  <2>1. bytes[o + (N + 2)] = Char(Zero)
    BY <1>1, <1>2, <1>3
  <2>2. QED
    BY <1>1, <2>1
<1>9. Are("char", bytes, size.next + 1, last)
  <2>1. ASSUME NEW i \in o + 2 .. o + N + 2
        PROVE  bytes[i].kind = "char"
    <3>1. CASE i = o + N + 2
      BY <1>8, <3>1, CellsAre
    <3>2. CASE i # o + N + 2
      <4> DEFINE j == i - (o + 1)
      <4>1. j \in 1 .. N /\ i = o + 1 + j
        BY <1>1, <3>2
      <4>2. bytes[i] = Char(n[j]) /\ n[j] \in Characters
        BY <1>1, <1>7, <4>1
      <4>3. QED
        BY <4>2, CellsAre
    <3>3. QED
      BY <3>1, <3>2
  <2>2. last <= Len(bytes) /\ size.next + 1 = o + 2 /\ last = o + N + 2
    BY <1>1, <1>3, <1>6
  <2>3. QED
    BY <2>1, <2>2 DEF Are
<1>10. ValuesAt(bytes, size.next + 1, last - 1) = n
  <2> DEFINE first == size.next + 1
  <2>1. first = o + 2 /\ last - 1 = o + N + 1 /\ last - 1 <= Len(bytes)
    BY <1>1, <1>3, <1>6
  <2>2. (last - 1) - first + 1 = N /\ \A i \in 1 .. N : first + i - 1 = o + 1 + i
    BY <1>1, <2>1
  <2>3. ValuesAt(bytes, first, last - 1) = [i \in 1 .. N |-> bytes[first + i - 1].value]
    BY <2>1, <2>2 DEF ValuesAt
  <2>4. \A i \in 1 .. N : bytes[first + i - 1].value = n[i]
    BY <1>7, <2>2
  <2>5. n = [i \in 1 .. N |-> n[i]]
    BY <1>1
  <2> HIDE DEF first, N
  <2>6. [i \in 1 .. N |-> bytes[first + i - 1].value] = [i \in 1 .. N |-> n[i]]
    BY <2>4
  <2>7. QED
    BY <2>3, <2>5, <2>6 DEF first
<1>11. ReadString(bytes, o) =
         [ok |-> size.ok /\ size.value > 0 /\ Are("char", bytes, size.next + 1, last),
          value |-> ValuesAt(bytes, size.next + 1, last - 1), next |-> last]
  BY DEF ReadString, size, last
<1>12. last = o + Len(Name(n)) /\ size.value > 0
  BY <1>1, <1>2, <1>6
<1>13. QED
  BY <1>6, <1>9, <1>10, <1>11, <1>12

-----------------------------------------------------------------------------
(* The parts of a method's entry, and of a report. *)
LEMMA SerializedMethodIs ==
  ASSUME NEW id \in Nat, NEW info \in MethodInfos
  PROVE  LET s == SerializeMethod(id, info)
             n == Len(Name(info.assembly))
         IN  /\ s \in Seq(Written) /\ Len(s) = 2 + n + Len(Name(info.module)) /\ n \in Nat
             /\ Name(info.assembly) \in Seq(Written) /\ Name(info.module) \in Seq(Written)
             /\ s[1] = Word(id) /\ s[2] = Word(info.token)
             /\ Holds(s, 2, Name(info.assembly)) /\ Holds(s, 2 + n, Name(info.module))
<1> DEFINE a == Name(info.assembly)
           b == Name(info.module)
           head == <<Word(id), Word(info.token)>>
           front == head \o a
<1>1. info.token \in Nat /\ info.assembly \in Seq(Characters) /\ info.module \in Seq(Characters)
  BY DEF MethodInfos
<1>2. a \in Seq(Written) /\ b \in Seq(Written) /\ Len(a) \in Nat /\ Len(b) \in Nat
  <2>1. a \in Seq(Written) /\ b \in Seq(Written)
    BY <1>1, NameIs
  <2> HIDE DEF a, b
  <2>2. QED
    BY <2>1
<1>3. /\ head \in Seq(Written) /\ Len(head) = 2
      /\ head[1] = Word(id) /\ head[2] = Word(info.token)
  <2>1. Word(id) \in Written /\ Word(info.token) \in Written
    BY <1>1, CellsAre
  <2>2. QED
    BY <2>1
<1>4. SerializeMethod(id, info) = front \o b
  BY DEF SerializeMethod
<1> HIDE DEF a, b, head
<1>5. /\ front \in Seq(Written) /\ Len(front) = 2 + Len(a)
      /\ Holds(front, 0, head) /\ Holds(front, 2, a)
  BY <1>2, <1>3, HoldsParts
<1> HIDE DEF front
<1> DEFINE s == front \o b
<1>6. /\ s \in Seq(Written) /\ Len(s) = (2 + Len(a)) + Len(b)
      /\ Holds(s, 0, front) /\ Holds(s, 2 + Len(a), b)
  BY <1>2, <1>5, HoldsParts
<1> HIDE DEF s
<1>7. Holds(s, 0 + 0, head) /\ Holds(s, 0 + 2, a)
  BY <1>2, <1>3, <1>5, <1>6, HoldsWithin
<1>8. s[1] = Word(id) /\ s[2] = Word(info.token)
  <2>1. s[0 + 0 + 1] = head[1] /\ s[0 + 0 + 2] = head[2]
    BY <1>3, <1>7 DEF Holds
  <2>2. QED
    BY <1>3, <2>1
<1>9. QED
  BY <1>2, <1>4, <1>6, <1>7, <1>8 DEF a, b, s

(* A method is read where it was written. *)
LEMMA ReadMethodIs ==
  ASSUME NEW bytes \in Seq(Written), NEW o \in Nat, NEW id \in Nat, NEW info \in MethodInfos,
         Holds(bytes, o, SerializeMethod(id, info))
  PROVE  ReadMethodEntry(bytes, o) =
           [ok |-> TRUE, id |-> id, value |-> info,
            next |-> o + Len(SerializeMethod(id, info))]
<1> DEFINE s == SerializeMethod(id, info)
           a == Name(info.assembly)
           b == Name(info.module)
           n == Len(a)
<1>1. /\ s \in Seq(Written) /\ Len(s) = 2 + n + Len(b) /\ n \in Nat
      /\ a \in Seq(Written) /\ b \in Seq(Written)
      /\ s[1] = Word(id) /\ s[2] = Word(info.token)
      /\ Holds(s, 2, a) /\ Holds(s, 2 + n, b)
  BY SerializedMethodIs
<1>2. /\ info.token \in Nat /\ info.assembly \in Seq(Characters)
      /\ info.module \in Seq(Characters)
      /\ info = [token |-> info.token, assembly |-> info.assembly, module |-> info.module]
  BY DEF MethodInfos
<1>3. Holds(bytes, o, s)
  OBVIOUS
<1> HIDE DEF s
<1>4. Len(b) \in Nat
  <2> HIDE DEF b
  <2>1. QED
    BY <1>1
<1>5. o + Len(s) <= Len(bytes) /\ bytes[o + 1] = Word(id) /\ bytes[o + 2] = Word(info.token)
  <2>1. 1 \in 1 .. Len(s) /\ 2 \in 1 .. Len(s)
    BY <1>1, <1>4
  <2>2. QED
    BY <1>1, <1>3, <2>1 DEF Holds
<1>6. Holds(bytes, o + 2, a) /\ Holds(bytes, o + (2 + n), b)
  <2> HIDE DEF a, b
  <2>1. 2 \in Nat /\ 2 + n \in Nat
    BY <1>1
  <2>2. QED
    BY <1>1, <1>3, <2>1, HoldsWithin
<1> HIDE DEF n, a, b
<1>7. ReadInt(bytes, o) = [ok |-> TRUE, value |-> id, next |-> o + 1]
  <2>1. o + 1 <= Len(bytes) /\ id \in Nat
    BY <1>1, <1>4, <1>5
  <2>2. QED
    BY <1>5, <2>1, ReadIntIs
<1>8. ReadInt(bytes, o + 1) = [ok |-> TRUE, value |-> info.token, next |-> o + 2]
  <2>1. o + 1 \in Nat /\ (o + 1) + 1 <= Len(bytes) /\ (o + 1) + 1 = o + 2
    BY <1>1, <1>4, <1>5
  <2>2. QED
    BY <1>2, <1>5, <2>1, ReadIntIs
<1>9. ReadString(bytes, o + 2) = [ok |-> TRUE, value |-> info.assembly, next |-> o + 2 + n]
  <2>1. o + 2 \in Nat
    OBVIOUS
  <2>2. QED
    BY <1>2, <1>6, <2>1, ReadStringIs DEF a, n
<1>10. ReadString(bytes, o + 2 + n) =
         [ok |-> TRUE, value |-> info.module, next |-> o + Len(s)]
  <2>1. o + 2 + n \in Nat /\ o + (2 + n) = o + 2 + n /\ o + 2 + n + Len(b) = o + Len(s)
    BY <1>1, <1>4
  <2>2. ReadString(bytes, o + 2 + n) =
          [ok |-> TRUE, value |-> info.module, next |-> o + 2 + n + Len(b)]
    BY <1>2, <1>6, <2>1, ReadStringIs DEF b
  <2>3. QED
    BY <2>1, <2>2
<1> DEFINE r1 == ReadInt(bytes, o)
           r2 == ReadInt(bytes, r1.next)
           r3 == ReadString(bytes, r2.next)
           r4 == ReadString(bytes, r3.next)
<1>11. r1.ok = TRUE /\ r1.value = id /\ r1.next = o + 1
  BY <1>7
<1>12. r2.ok = TRUE /\ r2.value = info.token /\ r2.next = o + 2
  BY <1>8, <1>11
<1>13. r3.ok = TRUE /\ r3.value = info.assembly /\ r3.next = o + 2 + n
  BY <1>9, <1>12
<1>14. r4.ok = TRUE /\ r4.value = info.module /\ r4.next = o + Len(s)
  BY <1>10, <1>13
<1>15. ReadMethodEntry(bytes, o) =
         [ok |-> r1.ok /\ r2.ok /\ r3.ok /\ r4.ok, id |-> r1.value,
          value |-> [token |-> r2.value, assembly |-> r3.value, module |-> r4.value],
          next |-> r4.next]
  BY DEF ReadMethodEntry
<1> HIDE DEF r1, r2, r3, r4
<1>16. QED
  BY <1>2, <1>11, <1>12, <1>13, <1>14, <1>15 DEF s

-----------------------------------------------------------------------------
LEMMA RecordCellsAre ==
  ASSUME NEW records \in Seq(Hits)
  PROVE  /\ Cells(Cell, records) \in Seq(Written)
         /\ Len(Cells(Cell, records)) = Len(records)
         /\ \A i \in 1 .. Len(records) : Cells(Cell, records)[i] = Cell(records[i])
<1>1. DOMAIN records = 1 .. Len(records) /\ \A i \in 1 .. Len(records) : records[i] \in Hits
  OBVIOUS
<1>2. \A i \in 1 .. Len(records) : Cell(records[i]) \in Written
  BY <1>1, CellsAre
<1>3. Cells(Cell, records) = [i \in 1 .. Len(records) |-> Cell(records[i])]
  BY <1>1 DEF Cells
<1>4. QED
  BY <1>2, <1>3

LEMMA SerializedReportIs ==
  ASSUME NEW r \in SentReports
  PROVE  LET s == SerializeReport(r)
         IN  /\ s \in Seq(Written) /\ s[1] = Word(r.threadId)
             /\ r.aborted => Len(s) = 2 /\ s[2] = Word(1)
             /\ ~r.aborted => /\ Len(s) = 3 + Len(r.records)
                              /\ s[2] = Word(0) /\ s[3] = Word(Len(r.records))
                              /\ \A i \in 1 .. Len(r.records) : s[3 + i] = Cell(r.records[i])
<1> DEFINE head == <<Word(r.threadId)>>
           count == <<Word(0), Word(Len(r.records))>>
           cells == Cells(Cell, r.records)
<1>1. /\ r.threadId \in Nat /\ r.aborted \in BOOLEAN /\ r.records \in Seq(Hits)
      /\ Len(r.records) \in Nat
  BY DEF SentReports
<1>2. /\ Word(r.threadId) \in Written /\ Word(0) \in Written /\ Word(1) \in Written
      /\ Word(Len(r.records)) \in Written
  BY <1>1, CellsAre
<1>3. /\ head \in Seq(Written) /\ Len(head) = 1 /\ head[1] = Word(r.threadId)
      /\ <<Word(1)>> \in Seq(Written) /\ Len(<<Word(1)>>) = 1
      /\ count \in Seq(Written) /\ Len(count) = 2
      /\ count[1] = Word(0) /\ count[2] = Word(Len(r.records))
  BY <1>2
<1>4. /\ cells \in Seq(Written) /\ Len(cells) = Len(r.records)
      /\ \A i \in 1 .. Len(r.records) : cells[i] = Cell(r.records[i])
  BY <1>1, RecordCellsAre
<1>5. CASE r.aborted
  <2>1. SerializeReport(r) = head \o <<Word(1)>>
    BY <1>5 DEF SerializeReport
  <2>2. QED
    BY <1>3, <1>5, <2>1
<1>6. CASE ~r.aborted
  <2> DEFINE tail == count \o cells
  <2>1. SerializeReport(r) = head \o tail
    BY <1>6 DEF SerializeReport
  <2> HIDE DEF head, count, cells
  <2>2. /\ tail \in Seq(Written) /\ Len(tail) = Len(count) + Len(cells)
        /\ \A i \in 1 .. Len(count) : tail[i] = count[i]
        /\ \A i \in 1 .. Len(cells) : tail[Len(count) + i] = cells[i]
    <3>1. count \in Seq(Written) /\ cells \in Seq(Written)
      BY <1>3, <1>4
    <3>2. QED
      BY <3>1, Joined
  <2> HIDE DEF tail
  <2>3. /\ head \o tail \in Seq(Written) /\ Len(head \o tail) = Len(head) + Len(tail)
        /\ \A i \in 1 .. Len(head) : (head \o tail)[i] = head[i]
        /\ \A i \in 1 .. Len(tail) : (head \o tail)[Len(head) + i] = tail[i]
    <3>1. head \in Seq(Written) /\ tail \in Seq(Written)
      BY <1>3, <2>2
    <3>2. QED
      BY <3>1, Joined
  <2> DEFINE n == Len(r.records)
             s == head \o tail
  <2>4. n \in Nat /\ Len(head) = 1 /\ Len(count) = 2 /\ Len(cells) = n
    BY <1>1, <1>3, <1>4
  <2>5. Len(tail) = 2 + n
    BY <2>2, <2>4
  <2> HIDE DEF n, s
  <2>6. Len(s) = 3 + n /\ s \in Seq(Written)
    BY <2>3, <2>4, <2>5 DEF s
  <2>7. s[1] = Word(r.threadId)
    BY <1>3, <2>3, <2>4 DEF s
  <2>8. s[2] = Word(0)
    <3>1. 1 \in 1 .. Len(tail) /\ 1 \in 1 .. Len(count)
      BY <2>4, <2>5
    <3>2. s[Len(head) + 1] = tail[1] /\ tail[1] = count[1]
      BY <2>2, <2>3, <3>1 DEF s
    <3>3. QED
      BY <1>3, <2>4, <3>2
  <2>9. s[3] = Word(n)
    <3>1. 2 \in 1 .. Len(tail) /\ 2 \in 1 .. Len(count)
      BY <2>4, <2>5
    <3>2. s[Len(head) + 2] = tail[2] /\ tail[2] = count[2]
      BY <2>2, <2>3, <3>1 DEF s
    <3>3. QED
      BY <1>3, <2>4, <3>2 DEF n
  <2>10. ASSUME NEW i \in 1 .. n
         PROVE  s[3 + i] = Cell(r.records[i])
    <3>1. Len(count) + i \in 1 .. Len(tail) /\ Len(head) + (Len(count) + i) = 3 + i
      BY <2>4, <2>5
    <3>2. s[Len(head) + (Len(count) + i)] = tail[Len(count) + i]
      BY <2>3, <3>1 DEF s
    <3>3. tail[Len(count) + i] = cells[i]
      BY <2>2, <2>4
    <3>4. cells[i] = Cell(r.records[i])
      BY <1>4 DEF n
    <3>5. QED
      BY <3>1, <3>2, <3>3, <3>4
  <2>11. s = SerializeReport(r)
    BY <2>1 DEF s
  <2>12. QED
    BY <1>6, <2>6, <2>7, <2>8, <2>9, <2>10, <2>11 DEF n
<1>7. QED
  BY <1>1, <1>5, <1>6

(* A report is read where it was written; the report of a thread that did  *)
(* not enter main has no records.                                          *)
LEMMA ReadReportIs ==
  ASSUME NEW bytes \in Seq(Written), NEW o \in Nat, NEW r \in SentReports,
         r.aborted => r.records = <<>>,
         Holds(bytes, o, SerializeReport(r))
  PROVE  ReadReportEntry(bytes, o) =
           [ok |-> TRUE, value |-> [threadId |-> r.threadId, records |-> r.records],
            next |-> o + Len(SerializeReport(r))]
<1> DEFINE s == SerializeReport(r)
           n == Len(r.records)
           r1 == ReadInt(bytes, o)
           r2 == ReadInt(bytes, r1.next)
           r3 == ReadInt(bytes, r2.next)
           last == r3.next + r3.value
<1>1. /\ r.threadId \in Nat /\ r.aborted \in BOOLEAN /\ r.records \in Seq(Hits) /\ n \in Nat
      /\ DOMAIN r.records = 1 .. n /\ \A i \in 1 .. n : r.records[i] \in Hits
      /\ Len(bytes) \in Nat
  BY DEF SentReports
<1>2. /\ s \in Seq(Written) /\ s[1] = Word(r.threadId)
      /\ r.aborted => Len(s) = 2 /\ s[2] = Word(1)
      /\ ~r.aborted => /\ Len(s) = 3 + n
                       /\ s[2] = Word(0) /\ s[3] = Word(n)
                       /\ \A i \in 1 .. n : s[3 + i] = Cell(r.records[i])
  BY SerializedReportIs
<1>3. ReadReportEntry(bytes, o) =
        IF r2.value = 1
        THEN [ok |-> r1.ok /\ r2.ok, value |-> [threadId |-> r1.value, records |-> <<>>],
              next |-> r2.next]
        ELSE [ok |-> r1.ok /\ r2.ok /\ r3.ok /\ Are("record", bytes, r3.next + 1, last),
              value |-> [threadId |-> r1.value,
                         records |-> ValuesAt(bytes, r3.next + 1, last)],
              next |-> last]
  BY DEF ReadReportEntry
<1>4. o + Len(s) <= Len(bytes) /\ \A i \in 1 .. Len(s) : bytes[o + i] = s[i]
  BY DEF Holds
<1> HIDE DEF s, n
<1>5. Len(s) >= 2 /\ bytes[o + 1] = Word(r.threadId)
      /\ bytes[o + 2] = (IF r.aborted THEN Word(1) ELSE Word(0))
  <2>1. Len(s) \in Nat /\ Len(s) >= 2
    BY <1>1, <1>2
  <2>2. 1 \in 1 .. Len(s) /\ 2 \in 1 .. Len(s)
    BY <2>1
  <2>3. bytes[o + 1] = s[1] /\ bytes[o + 2] = s[2]
    BY <1>4, <2>2
  <2>4. QED
    BY <1>1, <1>2, <2>1, <2>3
<1>6. r1 = [ok |-> TRUE, value |-> r.threadId, next |-> o + 1]
  <2>1. o + 1 <= Len(bytes)
    BY <1>1, <1>2, <1>4, <1>5
  <2>2. QED
    BY <1>1, <1>5, <2>1, ReadIntIs
<1>7. r1.ok = TRUE /\ r1.value = r.threadId /\ r1.next = o + 1
  BY <1>6
<1>8. o + 1 \in Nat /\ (o + 1) + 1 = o + 2 /\ o + 2 \in Nat /\ (o + 2) + 1 = o + 3
  OBVIOUS
<1>9. o + 2 <= Len(bytes)
  BY <1>1, <1>2, <1>4, <1>5
<1>10. CASE r.aborted
  <2>1. ReadInt(bytes, o + 1) = [ok |-> TRUE, value |-> 1, next |-> o + 2]
    <3> HIDE DEF r1, r2, r3, last
    <3>1. bytes[(o + 1) + 1] = Word(1) /\ (o + 1) + 1 <= Len(bytes) /\ 1 \in Nat
      BY <1>5, <1>8, <1>9, <1>10
    <3>2. ReadInt(bytes, o + 1) = [ok |-> TRUE, value |-> 1, next |-> (o + 1) + 1]
      BY <1>8, <3>1, ReadIntIs
    <3>3. QED
      BY <1>8, <3>2
  <2>2. r2.ok = TRUE /\ r2.value = 1 /\ r2.next = o + 2
    BY <1>7, <2>1
  <2>3. r.records = <<>> /\ Len(s) = 2
    BY <1>2, <1>10
  <2> HIDE DEF r1, r2, r3, last
  <2>4. QED
    BY <1>3, <1>7, <2>2, <2>3 DEF s
<1>11. CASE ~r.aborted
  <2>1. ReadInt(bytes, o + 1) = [ok |-> TRUE, value |-> 0, next |-> o + 2]
    <3> HIDE DEF r1, r2, r3, last
    <3>1. bytes[(o + 1) + 1] = Word(0) /\ (o + 1) + 1 <= Len(bytes) /\ 0 \in Nat
      BY <1>5, <1>8, <1>9, <1>11
    <3>2. ReadInt(bytes, o + 1) = [ok |-> TRUE, value |-> 0, next |-> (o + 1) + 1]
      BY <1>8, <3>1, ReadIntIs
    <3>3. QED
      BY <1>8, <3>2
  <2>2. r2.ok = TRUE /\ r2.value = 0 /\ r2.next = o + 2
    BY <1>7, <2>1
  <2>3. Len(s) = 3 + n /\ o + 3 <= Len(bytes) /\ o + 3 + n <= Len(bytes)
    BY <1>1, <1>2, <1>4, <1>11
  <2>4. bytes[o + 3] = Word(n)
    <3>1. 3 \in 1 .. Len(s)
      BY <1>1, <2>3
    <3>2. QED
      BY <1>2, <1>4, <1>11, <3>1
  <2>5. ReadInt(bytes, o + 2) = [ok |-> TRUE, value |-> n, next |-> o + 3]
    <3> HIDE DEF r1, r2, r3, last
    <3>1. bytes[(o + 2) + 1] = Word(n) /\ (o + 2) + 1 <= Len(bytes) /\ n \in Nat
      BY <1>1, <1>8, <2>3, <2>4
    <3>2. ReadInt(bytes, o + 2) = [ok |-> TRUE, value |-> n, next |-> (o + 2) + 1]
      BY <1>8, <3>1, ReadIntIs
    <3>3. QED
      BY <1>8, <3>2
  <2>6. r3.ok = TRUE /\ r3.value = n /\ r3.next = o + 3
    BY <2>2, <2>5
  <2>7. last = o + 3 + n
    BY <2>6
  <2>8. \A i \in 1 .. n : bytes[o + 3 + i] = Cell(r.records[i])
    <3>1. ASSUME NEW i \in 1 .. n
          PROVE  bytes[o + 3 + i] = Cell(r.records[i])
      <4>1. 3 + i \in 1 .. Len(s) /\ o + (3 + i) = o + 3 + i
        BY <1>1, <2>3
      <4>2. bytes[o + (3 + i)] = s[3 + i]
        BY <1>4, <4>1
      <4>3. s[3 + i] = Cell(r.records[i])
        BY <1>2, <1>11
      <4>4. QED
        BY <4>1, <4>2, <4>3
    <3>2. QED
      BY <3>1
  <2> HIDE DEF r1, r2, r3, last
  <2>9. Are("record", bytes, r3.next + 1, last)
    <3>1. ASSUME NEW j \in o + 4 .. o + 3 + n
          PROVE  bytes[j].kind = "record"
      <4> DEFINE i == j - (o + 3)
      <4>1. i \in 1 .. n /\ o + 3 + i = j
        BY <1>1
      <4> HIDE DEF i
      <4>2. bytes[j] = Cell(r.records[i]) /\ r.records[i] \in Hits
        BY <1>1, <2>8, <4>1
      <4>3. QED
        BY <4>2, CellsAre
    <3>2. r3.next + 1 = o + 4
      BY <2>6
    <3>3. QED
      BY <2>3, <2>7, <3>1, <3>2 DEF Are
  <2>10. ValuesAt(bytes, r3.next + 1, last) = r.records
    <3> DEFINE first == r3.next + 1
    <3>1. first = o + 4
      BY <2>6
    <3> HIDE DEF first
    <3>2. last - first + 1 = n /\ \A i \in 1 .. n : first + i - 1 = o + 3 + i
      BY <1>1, <2>7, <3>1
    <3>3. ValuesAt(bytes, first, last) = [i \in 1 .. n |-> bytes[first + i - 1].value]
      BY <2>3, <2>7, <3>2 DEF ValuesAt
    <3>4. \A i \in 1 .. n : bytes[first + i - 1].value = r.records[i]
      BY <1>1, <2>8, <3>2, CellsAre
    <3>5. r.records = [i \in 1 .. n |-> r.records[i]]
      BY <1>1
    <3>6. [i \in 1 .. n |-> bytes[first + i - 1].value] = [i \in 1 .. n |-> r.records[i]]
      BY <3>4
    <3>7. QED
      BY <3>3, <3>5, <3>6 DEF first
  <2>11. o + Len(s) = last
    BY <1>1, <2>3, <2>7
  <2>12. (r1.ok /\ r2.ok /\ r3.ok /\ Are("record", bytes, r3.next + 1, last)) = TRUE
    BY <1>7, <2>2, <2>6, <2>9
  <2>13. r2.value # 1
    BY <2>2
  <2>14. QED
    BY <1>3, <1>7, <2>10, <2>11, <2>12, <2>13 DEF s
<1>12. QED
  BY <1>1, <1>10, <1>11

-----------------------------------------------------------------------------
(* A history: the number of its methods, the methods in the order of their *)
(* ids, method k from mo[k - 1] to mo[k], the number of its reports, and   *)
(* the reports, report k from ro[k - 1] to ro[k].                          *)
MethodCells(M) ==
  [k \in 1 .. Len(Ascending(DOMAIN M)) |->
     SerializeMethod(Ascending(DOMAIN M)[k], M[Ascending(DOMAIN M)[k]])]
ReportCells(R) == [k \in 1 .. Len(R) |-> SerializeReport(R[k])]

Layout(bytes, M, R, mo, ro) ==
  LET n == Len(Ascending(DOMAIN M))
  IN /\ 1 <= Len(bytes) /\ bytes[1] = Word(n) /\ mo[0] = 1
     /\ Laid(bytes, MethodCells(M), mo) /\ mo[n] \in Nat
     /\ mo[n] + 1 <= Len(bytes) /\ bytes[mo[n] + 1] = Word(Len(R)) /\ ro[0] = mo[n] + 1
     /\ Laid(bytes, ReportCells(R), ro) /\ ro[Len(R)] \in Nat

LEMMA MethodCellsAre ==
  ASSUME NEW N \in Nat, NEW M, DOMAIN M \in SUBSET (0 .. N - 1),
         \A id \in DOMAIN M : M[id] \in MethodInfos
  PROVE  LET ids == Ascending(DOMAIN M)
         IN  /\ MethodCells(M) \in Seq(Seq(Written)) /\ Len(MethodCells(M)) = Len(ids)
             /\ Len(ids) \in Nat /\ DOMAIN ids = 1 .. Len(ids)
             /\ \A k \in 1 .. Len(ids) : ids[k] \in DOMAIN M /\ ids[k] \in Nat
<1> DEFINE ids == Ascending(DOMAIN M)
           n == Len(ids)
<1>1. n \in Nat /\ ids \in [1 .. n -> DOMAIN M]
  <2>1. Len(ids) = Cardinality(DOMAIN M) /\ Cardinality(DOMAIN M) \in Nat
        /\ ids \in [1 .. Len(ids) -> DOMAIN M]
    BY AscendingIs
  <2>2. QED
    BY <2>1
<1> HIDE DEF ids
<1>2. \A k \in 1 .. n : ids[k] \in DOMAIN M /\ ids[k] \in Nat
  BY <1>1
<1>3. \A k \in 1 .. n : SerializeMethod(ids[k], M[ids[k]]) \in Seq(Written)
  <2>1. ASSUME NEW k \in 1 .. n
        PROVE  SerializeMethod(ids[k], M[ids[k]]) \in Seq(Written)
    <3>1. ids[k] \in Nat /\ M[ids[k]] \in MethodInfos
      BY <1>2
    <3>2. QED
      BY <3>1, SerializedMethodIs
  <2>2. QED
    BY <2>1
<1>4. MethodCells(M) = [k \in 1 .. n |-> SerializeMethod(ids[k], M[ids[k]])]
  BY DEF MethodCells, ids
<1> HIDE DEF n
<1>5. MethodCells(M) \in Seq(Seq(Written)) /\ Len(MethodCells(M)) = n
  BY <1>1, <1>3, <1>4
<1>6. QED
  BY <1>1, <1>2, <1>5 DEF ids, n

LEMMA ReportCellsAre ==
  ASSUME NEW R \in Seq(SentReports)
  PROVE  ReportCells(R) \in Seq(Seq(Written)) /\ Len(ReportCells(R)) = Len(R)
<1>1. Len(R) \in Nat /\ \A k \in 1 .. Len(R) : R[k] \in SentReports
  OBVIOUS
<1>2. \A k \in 1 .. Len(R) : SerializeReport(R[k]) \in Seq(Written)
  BY <1>1, SerializedReportIs
<1>3. QED
  BY <1>1, <1>2 DEF ReportCells

(* A history is laid out so. *)
LEMMA SerializeLaid ==
  ASSUME NEW N \in Nat, NEW M, DOMAIN M \in SUBSET (0 .. N - 1),
         \A id \in DOMAIN M : M[id] \in MethodInfos, NEW R \in Seq(SentReports)
  PROVE  /\ Serialize(M, R) \in Seq(Written)
         /\ \E mo, ro : Layout(Serialize(M, R), M, R, mo, ro)
<1> DEFINE ids == Ascending(DOMAIN M)
           n == Len(ids)
           A == FlattenSeq(MethodCells(M))
           B == FlattenSeq(ReportCells(R))
           h == <<Word(n)>>
           m == <<Word(Len(R))>>
<1>1. /\ MethodCells(M) \in Seq(Seq(Written)) /\ Len(MethodCells(M)) = n /\ n \in Nat
      /\ DOMAIN ids = 1 .. n
      /\ ReportCells(R) \in Seq(Seq(Written)) /\ Len(ReportCells(R)) = Len(R)
      /\ Len(R) \in Nat
  <2>1. /\ MethodCells(M) \in Seq(Seq(Written)) /\ Len(MethodCells(M)) = n /\ n \in Nat
        /\ DOMAIN ids = 1 .. n
    BY MethodCellsAre
  <2>2. ReportCells(R) \in Seq(Seq(Written)) /\ Len(ReportCells(R)) = Len(R)
    BY ReportCellsAre
  <2>3. Len(R) \in Nat
    OBVIOUS
  <2>4. QED
    BY <2>1, <2>2, <2>3
<1>2. Serialize(M, R) = ((h \o A) \o m) \o B
  <2>1. [i \in DOMAIN ids |-> SerializeMethod(ids[i], M[ids[i]])] = MethodCells(M)
    BY <1>1 DEF MethodCells
  <2>2. [i \in DOMAIN R |-> SerializeReport(R[i])] = ReportCells(R)
    BY DEF ReportCells
  <2>3. Serialize(M, R) =
          ((h \o FlattenSeq([i \in DOMAIN ids |-> SerializeMethod(ids[i], M[ids[i]])])) \o m)
            \o FlattenSeq([i \in DOMAIN R |-> SerializeReport(R[i])])
    BY DEF Serialize, Cells
  <2>4. QED
    BY <2>1, <2>2, <2>3
<1>3. h \in Seq(Written) /\ Len(h) = 1 /\ h[1] = Word(n)
      /\ m \in Seq(Written) /\ Len(m) = 1 /\ m[1] = Word(Len(R))
  <2>1. Word(n) \in Written /\ Word(Len(R)) \in Written
    BY <1>1, CellsAre
  <2>2. QED
    BY <2>1
<1>4. A \in Seq(Written) /\ B \in Seq(Written)
  BY <1>1, FlattenLaid
<1>5. PICK ma : Laid(A, MethodCells(M), ma) /\ ma[0] = 0 /\ ma[n] = Len(A)
  BY <1>1, FlattenLaid
<1>6. PICK ra : Laid(B, ReportCells(R), ra) /\ ra[0] = 0 /\ ra[Len(R)] = Len(B)
  BY <1>1, FlattenLaid
<1> HIDE DEF ids, n, A, B, h, m
<1> DEFINE a == Len(A)
           b == Len(B)
           p == h \o A
           q == p \o m
           s == q \o B
<1>7. a \in Nat /\ b \in Nat
  BY <1>4
<1>8. p \in Seq(Written) /\ Len(p) = 1 + a /\ Holds(p, 0, h) /\ Holds(p, 1, A)
  BY <1>3, <1>4, HoldsParts
<1> HIDE DEF a, b, p
<1>9. q \in Seq(Written) /\ Len(q) = (1 + a) + 1 /\ Holds(q, 0, p) /\ Holds(q, 1 + a, m)
  BY <1>3, <1>8, HoldsParts
<1> HIDE DEF q
<1>10. s \in Seq(Written) /\ Len(s) = 2 + a + b /\ Holds(s, 0, q) /\ Holds(s, 2 + a, B)
  <2>1. /\ s \in Seq(Written) /\ Len(s) = Len(q) + Len(B)
        /\ Holds(s, 0, q) /\ Holds(s, Len(q), B)
    BY <1>4, <1>9, HoldsParts
  <2>2. Len(q) = 2 + a /\ Len(q) + Len(B) = 2 + a + b
    BY <1>7, <1>9 DEF b
  <2>3. QED
    BY <2>1, <2>2
<1> HIDE DEF s
<1>11. Holds(s, 0 + 0, p) /\ Holds(s, 0 + (1 + a), m)
  <2>1. 0 \in Nat /\ 1 + a \in Nat
    BY <1>7
  <2>2. QED
    BY <1>3, <1>8, <1>9, <1>10, <2>1, HoldsWithin
<1>12. Holds(s, 0, h) /\ Holds(s, 1, A) /\ Holds(s, 1 + a, m)
  <2>1. Holds(s, 0, p) /\ Holds(s, 1 + a, m)
    BY <1>7, <1>11
  <2>2. Holds(s, 0 + 0, h) /\ Holds(s, 0 + 1, A)
    BY <1>3, <1>4, <1>8, <1>10, <2>1, HoldsWithin
  <2>3. QED
    BY <2>1, <2>2
<1>13. 1 <= Len(s) /\ s[1] = Word(n)
  <2>1. 1 \in 1 .. Len(h)
    BY <1>3
  <2>2. s[0 + 1] = h[1] /\ 0 + Len(h) <= Len(s)
    BY <1>12, <2>1 DEF Holds
  <2>3. QED
    BY <1>3, <2>2
<1>14. (1 + a) + 1 <= Len(s) /\ s[(1 + a) + 1] = Word(Len(R))
  <2>1. 1 \in 1 .. Len(m)
    BY <1>3
  <2>2. s[(1 + a) + 1] = m[1] /\ (1 + a) + Len(m) <= Len(s)
    BY <1>12, <2>1 DEF Holds
  <2>3. QED
    BY <1>3, <2>2
<1> DEFINE mo == [k \in 0 .. Len(MethodCells(M)) |-> 1 + ma[k]]
           ro == [k \in 0 .. Len(ReportCells(R)) |-> (2 + a) + ra[k]]
<1>15. Laid(s, MethodCells(M), mo) /\ mo[0] = 1 /\ mo[n] = 1 + a
  <2>1. ma[Len(MethodCells(M))] \in Nat /\ ma[n] = a /\ Len(MethodCells(M)) = n
    BY <1>1, <1>5, <1>7 DEF a
  <2>2. Laid(s, MethodCells(M), mo) /\ mo[0] = 1 + ma[0] /\ mo[Len(MethodCells(M))] = 1 + ma[n]
    BY <1>1, <1>4, <1>5, <1>10, <1>12, <2>1, LaidWithin
  <2> HIDE DEF mo
  <2>3. QED
    BY <1>5, <2>1, <2>2
<1>16. Laid(s, ReportCells(R), ro) /\ ro[0] = 2 + a /\ ro[Len(R)] = 2 + a + b
  <2>1. /\ ra[Len(ReportCells(R))] \in Nat /\ ra[Len(R)] = b /\ Len(ReportCells(R)) = Len(R)
        /\ 2 + a \in Nat
    BY <1>1, <1>6, <1>7 DEF b
  <2>2. /\ Laid(s, ReportCells(R), ro) /\ ro[0] = (2 + a) + ra[0]
        /\ ro[Len(ReportCells(R))] = (2 + a) + ra[Len(ReportCells(R))]
    <3> DEFINE o == 2 + a
    <3>1. o \in Nat /\ Holds(s, o, B)
      BY <1>10, <2>1
    <3> HIDE DEF o
    <3>2. LET far == [k \in 0 .. Len(ReportCells(R)) |-> o + ra[k]]
          IN  /\ Laid(s, ReportCells(R), far) /\ far[0] = o + ra[0]
              /\ far[Len(ReportCells(R))] = o + ra[Len(ReportCells(R))]
      BY <1>1, <1>4, <1>6, <1>10, <2>1, <3>1, LaidWithin
    <3>3. QED
      BY <3>2 DEF o
  <2> HIDE DEF ro
  <2>3. QED
    BY <1>6, <1>7, <2>1, <2>2
<1>17. Layout(s, M, R, mo, ro)
  <2> HIDE DEF mo, ro
  <2>1. mo[n] \in Nat /\ ro[0] = mo[n] + 1 /\ ro[Len(R)] \in Nat
    BY <1>7, <1>15, <1>16
  <2>2. mo[n] + 1 <= Len(s) /\ s[mo[n] + 1] = Word(Len(R))
    BY <1>14, <1>15
  <2>3. QED
    BY <1>13, <1>15, <1>16, <2>1, <2>2 DEF Layout, n, ids
<1>18. Serialize(M, R) = s
  BY <1>2 DEF p, q, s
<1>19. QED
  BY <1>10, <1>17, <1>18
=============================================================================
