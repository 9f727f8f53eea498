----------------------- MODULE ExecutorServiceProofs -----------------------
(***************************************************************************)
(* Proofs about ExecutorService, for every set of requests and of tests:   *)
(* tests are resolved as their statements say, every comparison is one of  *)
(* ObjectsComparison, and tests are counted right, however many requests   *)
(* are served at once; a request that nobody disturbs reads the history it *)
(* was sent; and one served alone answers with the coverage of its own     *)
(* calls, and fails only for reasons of its own.                           *)
(***************************************************************************)
EXTENDS ExecutorService, ObjectsComparisonProofs, ReportCodecProofs

-----------------------------------------------------------------------------
(* Statements are executed one after the other. *)
LEMMA ArrangedFold ==
  ASSUME NEW r, NEW T, NEW s \in Seq(T)
  PROVE  \E after : /\ after[0] = r
                    /\ \A n \in 1 .. Len(s) : after[n] = Assign(after[n - 1], s[n])
                    /\ Arranged(r, s) = after[Len(s)]
<1> DEFINE N == Len(s)
           Folds(g, n) == g = [k \in 0 .. n |-> IF k = 0 THEN r ELSE Assign(g[k - 1], s[k])]
           G == {n \in 0 .. N : \E g : Folds(g, n)}
<1>1. N \in Nat
  OBVIOUS
<1>2. 0 \in G
  <2>1. Folds([k \in 0 .. 0 |-> r], 0)
    BY Z3
  <2>2. \E g : Folds(g, 0)
    BY <2>1
  <2>3. QED
    BY <1>1, <2>2
<1>3. ASSUME NEW n \in 1 .. N, n - 1 \in G
      PROVE  n \in G
  <2>1. PICK g : Folds(g, n - 1)
    BY <1>3
  <2> DEFINE h == [k \in 0 .. n |-> IF k = n THEN Assign(g[n - 1], s[n]) ELSE g[k]]
  <2>2. ASSUME NEW k \in 0 .. n
        PROVE  h[k] = IF k = 0 THEN r ELSE Assign(h[k - 1], s[k])
    <3>1. CASE k = 0
      BY <1>1, <2>1, <3>1
    <3>2. CASE k \in 1 .. n - 1
      <4>1. h[k] = g[k] /\ h[k - 1] = g[k - 1]
        BY <1>1, <3>2
      <4>2. g[k] = Assign(g[k - 1], s[k])
        BY <1>1, <2>1, <3>2
      <4>3. QED
        BY <1>1, <3>2, <4>1, <4>2
    <3>3. CASE k = n
      BY <1>1, <3>3
    <3>4. QED
      BY <1>1, <3>1, <3>2, <3>3
  <2>3. Folds(h, n)
    BY <2>2
  <2>4. \E f : Folds(f, n)
    BY <2>3
  <2>5. QED
    BY <1>1, <2>4
<1>4. N \in G
  <2> HIDE DEF G, N
  <2>1. 0 .. N \subseteq G
    BY <1>1, <1>2, <1>3, UpTo
  <2>2. QED
    BY <1>1, <2>1
<1> DEFINE after == CHOOSE g : Folds(g, N)
<1>5. Folds(after, N)
  BY <1>4
<1>6. Arranged(r, s) = after[N]
  BY DEF Arranged
<1>7. after[0] = r /\ \A n \in 1 .. N : after[n] = Assign(after[n - 1], s[n])
  <2> HIDE DEF after
  <2>1. QED
    BY <1>1, <1>5
<1>8. QED
  BY <1>6, <1>7

(* Expressions are instantiated one after the other. *)
LEMMA InstantiatedFold ==
  ASSUME NEW r, NEW T, NEW s \in Seq(T)
  PROVE  \E after : /\ after[0] = r
                    /\ \A n \in 1 .. Len(s) : after[n] = InstantiateExpression(after[n - 1], s[n])
                    /\ Instantiated(r, s) = after[Len(s)]
<1> DEFINE N == Len(s)
           Folds(g, n) == g = [k \in 0 .. n |-> IF k = 0 THEN r ELSE InstantiateExpression(g[k - 1], s[k])]
           G == {n \in 0 .. N : \E g : Folds(g, n)}
<1>1. N \in Nat
  OBVIOUS
<1>2. 0 \in G
  <2>1. Folds([k \in 0 .. 0 |-> r], 0)
    BY Z3
  <2>2. \E g : Folds(g, 0)
    BY <2>1
  <2>3. QED
    BY <1>1, <2>2
<1>3. ASSUME NEW n \in 1 .. N, n - 1 \in G
      PROVE  n \in G
  <2>1. PICK g : Folds(g, n - 1)
    BY <1>3
  <2> DEFINE h == [k \in 0 .. n |-> IF k = n THEN InstantiateExpression(g[n - 1], s[n]) ELSE g[k]]
  <2>2. ASSUME NEW k \in 0 .. n
        PROVE  h[k] = IF k = 0 THEN r ELSE InstantiateExpression(h[k - 1], s[k])
    <3>1. CASE k = 0
      BY <1>1, <2>1, <3>1
    <3>2. CASE k \in 1 .. n - 1
      <4>1. h[k] = g[k] /\ h[k - 1] = g[k - 1]
        BY <1>1, <3>2
      <4>2. g[k] = InstantiateExpression(g[k - 1], s[k])
        BY <1>1, <2>1, <3>2
      <4>3. QED
        BY <1>1, <3>2, <4>1, <4>2
    <3>3. CASE k = n
      BY <1>1, <3>3
    <3>4. QED
      BY <1>1, <3>1, <3>2, <3>3
  <2>3. Folds(h, n)
    BY <2>2
  <2>4. \E f : Folds(f, n)
    BY <2>3
  <2>5. QED
    BY <1>1, <2>4
<1>4. N \in G
  <2> HIDE DEF G, N
  <2>1. 0 .. N \subseteq G
    BY <1>1, <1>2, <1>3, UpTo
  <2>2. QED
    BY <1>1, <2>1
<1> DEFINE after == CHOOSE g : Folds(g, N)
<1>5. Folds(after, N)
  BY <1>4
<1>6. Instantiated(r, s) = after[N]
  BY DEF Instantiated
<1>7. after[0] = r /\ \A n \in 1 .. N : after[n] = InstantiateExpression(after[n - 1], s[n])
  <2> HIDE DEF after
  <2>1. QED
    BY <1>1, <1>5
<1>8. QED
  BY <1>6, <1>7

-----------------------------------------------------------------------------
(* A resolver of a test that mentions the addresses of M: each address it  *)
(* has an instance for is an object of its own, of the address's type and  *)
(* size, and the heap is filled from its first object on.                  *)
Occupied(h) == {p \in Objects : h[p].type # None}

Resolvers(M) ==
  [instances : UNION {[D -> Objects] : D \in SUBSET M}, heap : Heaps, failed : BOOLEAN]

Resolver(r, M) ==
  /\ r \in Resolvers(M)
  /\ \A a, b \in DOMAIN r.instances : a # b => r.instances[a] # r.instances[b]
  /\ Occupied(r.heap) = 1 .. Cardinality(DOMAIN r.instances)
  /\ \A a \in DOMAIN r.instances :
       /\ r.heap[r.instances[a]].type = TypeOf[a]
       /\ Len(r.heap[r.instances[a]].content) = SizeOf[a]

(* From r to q addresses got instances, and none lost its own. *)
Extends(q, r) ==
  /\ DOMAIN r.instances \subseteq DOMAIN q.instances
  /\ \A a \in DOMAIN r.instances : q.instances[a] = r.instances[a]
  /\ r.failed => q.failed

(* Objects that were there are left alone, new ones have no content yet. *)
Grows(q, r) ==
  /\ Extends(q, r)
  /\ \A b \in DOMAIN r.instances : q.heap[r.instances[b]] = r.heap[r.instances[b]]
  /\ \A b \in DOMAIN q.instances \ DOMAIN r.instances :
       q.heap[q.instances[b]].content = [i \in 1 .. SizeOf[b] |-> Null]

(* The expression needs no new object. *)
Has(r, e) == e \in Addresses => e \in DOMAIN r.instances

LEMMA ResolversAre ==
  ASSUME NEW M, NEW r \in Resolvers(M)
  PROVE  /\ r = [instances |-> r.instances, heap |-> r.heap, failed |-> r.failed]
         /\ DOMAIN r.instances \subseteq M
         /\ r.instances \in [DOMAIN r.instances -> Objects]
         /\ r.heap \in Heaps /\ r.failed \in BOOLEAN
BY DEF Resolvers

LEMMA NewResolverIs ==
  ASSUME NEW M
  PROVE  Resolver(NewResolver, M)
<1>1. NoObjects \in Heaps
  BY DEF NoObjects, Heaps
<1>2. <<>> \in [{} -> Objects] /\ DOMAIN <<>> = {}
  OBVIOUS
<1>3. NewResolver \in Resolvers(M)
  BY <1>1, <1>2 DEF NewResolver, Resolvers
<1>4. Occupied(NoObjects) = {}
  BY DEF Occupied, NoObjects
<1>5. Cardinality(DOMAIN <<>>) = 0
  BY <1>2, FS_EmptySet
<1>6. NewResolver.instances = <<>> /\ NewResolver.heap = NoObjects
  BY DEF NewResolver
<1>7. Occupied(NewResolver.heap) = 1 .. Cardinality(DOMAIN NewResolver.instances)
  <2>1. 1 .. 0 = {}
    OBVIOUS
  <2>2. QED
    BY <1>4, <1>5, <1>6, <2>1
<1>8. DOMAIN NewResolver.instances = {}
  BY <1>2, <1>6
<1>9. QED
  BY <1>3, <1>7, <1>8 DEF Resolver

LEMMA ObjectsAre == Cardinality(Objects) \in Nat /\ Objects = 1 .. Cardinality(Objects)
<1>1. IsFiniteSet(Objects) /\ Objects = 1 .. Cardinality(Objects)
  BY ResolutionAssumption
<1>2. QED
  BY <1>1, FS_CardinalityType

(* An address that is mentioned for the first time gets the next object.   *)
LEMMA CreatedIs ==
  ASSUME NEW M \in Fitting, NEW r, Resolver(r, M), NEW a \in M, a \notin DOMAIN r.instances
  PROVE  /\ Resolver(Created(r, a), M) /\ Grows(Created(r, a), r)
         /\ DOMAIN Created(r, a).instances = DOMAIN r.instances \cup {a}
         /\ Created(r, a).failed = r.failed
<1> DEFINE D == DOMAIN r.instances
           n == Cardinality(D)
           o == n + 1
           new == [type |-> TypeOf[a], content |-> [i \in 1 .. SizeOf[a] |-> Null]]
           I == [b \in D \cup {a} |-> IF b = a THEN o ELSE r.instances[b]]
           H == [r.heap EXCEPT ![o] = new]
<1>1. r \in Resolvers(M) /\ Occupied(r.heap) = 1 .. n
  BY DEF Resolver
<1>2. IsFiniteSet(D) /\ D \subseteq M /\ n \in Nat /\ n + 1 <= Cardinality(Objects)
  <2>1. D \subseteq M /\ IsFiniteSet(M) /\ Cardinality(M) <= Cardinality(Objects)
    BY <1>1, ResolversAre DEF Fitting
  <2>2. IsFiniteSet(D)
    BY <2>1, FS_Subset
  <2>3. D \cup {a} \subseteq M
    BY <2>1
  <2>4. IsFiniteSet(D \cup {a}) /\ Cardinality(D \cup {a}) = n + 1
    BY <2>2, FS_AddElement
  <2>5. Cardinality(D \cup {a}) <= Cardinality(M)
    BY <2>1, <2>3, FS_Subset
  <2>6. n \in Nat /\ Cardinality(M) \in Nat
    BY <2>1, <2>2, FS_CardinalityType
  <2>7. n + 1 <= Cardinality(Objects)
    BY <2>1, <2>4, <2>5, <2>6, ObjectsAre
  <2>8. QED
    BY <2>1, <2>2, <2>6, <2>7
<1>3. o \in Objects
  BY <1>2, ObjectsAre
<1>4. o \notin Occupied(r.heap)
  BY <1>1, <1>2
<1>5. Cardinality({p \in Objects : r.heap[p].type # None}) + 1 = o
  <2>1. Cardinality(1 .. n) = n
    <3>1. Cardinality(1 .. n) = IF 1 > n THEN 0 ELSE n - 1 + 1
      BY <1>2, FS_Interval
    <3>2. QED
      BY <1>2, <3>1
  <2>2. QED
    BY <1>1, <2>1 DEF Occupied
<1>6. Created(r, a) = [instances |-> I, heap |-> H, failed |-> r.failed]
  <2> DEFINE m == Cardinality({p \in Objects : r.heap[p].type # None}) + 1
  <2>1. m = o
    BY <1>5
  <2>2. r = [instances |-> r.instances, heap |-> r.heap, failed |-> r.failed]
    BY <1>1, ResolversAre
  <2>3. Created(r, a) = [r EXCEPT !.instances = [b \in DOMAIN @ \cup {a} |-> IF b = a THEN m ELSE @[b]],
                                  !.heap[m] = new]
    BY DEF Created
  <2> HIDE DEF m
  <2>4. Created(r, a) = [r EXCEPT !.instances = [b \in DOMAIN @ \cup {a} |-> IF b = a THEN o ELSE @[b]],
                                  !.heap[o] = new]
    BY <2>1, <2>3
  <2>5. QED
    BY <2>2, <2>4
<1>7. a \in Addresses /\ TypeOf[a] \in Types /\ SizeOf[a] \in Nat /\ TypeOf[a] # None
  BY ResolutionAssumption, ComparisonAssumption DEF Fitting
<1>8. new.content \in Seq(Values) /\ Len(new.content) = SizeOf[a]
  <2>1. Null \in Values
    BY DEF Values
  <2>2. QED
    BY <1>7, <2>1
<1>9. H \in Heaps
  BY <1>1, <1>7, <1>8, ResolversAre DEF Heaps
<1>10. I \in [D \cup {a} -> Objects]
  BY <1>1, <1>3, ResolversAre
<1>11. ASSUME NEW b \in D
       PROVE  /\ I[b] = r.instances[b] /\ r.instances[b] \in Objects
              /\ r.instances[b] # o /\ H[r.instances[b]] = r.heap[r.instances[b]]
  <2>1. I[b] = r.instances[b] /\ r.instances[b] \in Objects
    BY <1>1, ResolversAre
  <2>2. b \in Addresses /\ r.heap[r.instances[b]].type = TypeOf[b]
    BY <1>2 DEF Resolver, Fitting
  <2>3. r.instances[b] \in Occupied(r.heap)
    BY <2>1, <2>2, ResolutionAssumption, ComparisonAssumption DEF Occupied
  <2>4. r.instances[b] # o
    BY <2>3, <1>4
  <2>5. H[r.instances[b]] = r.heap[r.instances[b]]
    BY <2>1, <2>4, <1>1, ResolversAre DEF Heaps
  <2>6. QED
    BY <2>1, <2>4, <2>5
<1>12. I[a] = o /\ H[o] = new
  BY <1>1, <1>3, ResolversAre DEF Heaps
<1>13. Occupied(H) = 1 .. Cardinality(D \cup {a})
  <2>1. Cardinality(D \cup {a}) = n + 1
    BY <1>2, FS_AddElement
  <2>2. Occupied(H) = Occupied(r.heap) \cup {o}
    <3>1. ASSUME NEW p \in Objects, p # o
          PROVE  H[p] = r.heap[p]
      BY <3>1, <1>1, ResolversAre DEF Heaps
    <3>2. H[o].type # None
      BY <1>12, <1>7
    <3>3. QED
      BY <1>3, <3>1, <3>2 DEF Occupied
  <2>3. (1 .. n) \cup {o} = 1 .. n + 1
    BY <1>2
  <2>4. QED
    BY <1>1, <2>1, <2>2, <2>3
<1> DEFINE q == Created(r, a)
<1> HIDE DEF I, H
<1>14. q.instances = I /\ q.heap = H /\ q.failed = r.failed
  BY <1>6
<1>15. q \in Resolvers(M)
  <2>1. I \in UNION {[E -> Objects] : E \in SUBSET M}
    BY <1>2, <1>10
  <2>2. QED
    BY <1>6, <1>9, <1>1, <2>1, ResolversAre DEF Resolvers
<1>16. DOMAIN I = D \cup {a}
  BY <1>10
<1> HIDE DEF q
<1>17. Resolver(q, M)
  <2>1. ASSUME NEW b \in D \cup {a}, NEW c \in D \cup {a}, b # c
        PROVE  I[b] # I[c]
    <3>1. CASE b \in D /\ c \in D
      BY <3>1, <2>1, <1>11 DEF Resolver
    <3>2. CASE b = a \/ c = a
      BY <3>2, <2>1, <1>11, <1>12
    <3>3. QED
      BY <3>1, <3>2
  <2>2. ASSUME NEW b \in D \cup {a}
        PROVE  H[I[b]].type = TypeOf[b] /\ Len(H[I[b]].content) = SizeOf[b]
    <3>1. CASE b \in D
      BY <3>1, <1>11 DEF Resolver
    <3>2. CASE b = a
      <4>1. I[b] = o /\ H[I[b]] = new /\ new.type = TypeOf[b] /\ SizeOf[b] = SizeOf[a]
        BY <3>2, <1>12
      <4>2. QED
        BY <4>1, <1>8
    <3>3. QED
      BY <3>1, <3>2
  <2>3. QED
    BY <1>13, <1>14, <1>15, <1>16, <2>1, <2>2 DEF Resolver
<1>18. Extends(q, r)
  BY <1>11, <1>14, <1>16 DEF Extends
<1>19. q.heap[q.instances[a]].content = [i \in 1 .. SizeOf[a] |-> Null]
  <2>1. q.heap[q.instances[a]] = new
    BY <1>12, <1>14
  <2>2. new.content = [i \in 1 .. SizeOf[a] |-> Null]
    OBVIOUS
  <2>3. QED
    BY <2>1, <2>2
<1>20. \A b \in DOMAIN r.instances : q.heap[r.instances[b]] = r.heap[r.instances[b]]
  BY <1>11, <1>14
<1>21. Grows(q, r)
  BY <1>14, <1>16, <1>18, <1>19, <1>20 DEF Grows
<1>22. QED
  BY <1>14, <1>16, <1>17, <1>21 DEF q

LEMMA GrowsTwice ==
  ASSUME NEW M, NEW r, NEW p, NEW q, Resolver(r, M), Resolver(p, M), Resolver(q, M),
         Grows(p, r), Grows(q, p)
  PROVE  Grows(q, r)
<1>1. Extends(q, r)
  BY DEF Grows, Extends
<1>2. ASSUME NEW b \in DOMAIN r.instances
      PROVE  q.heap[r.instances[b]] = r.heap[r.instances[b]]
  <2>1. b \in DOMAIN p.instances /\ p.instances[b] = r.instances[b]
    BY DEF Grows, Extends
  <2>2. QED
    BY <2>1 DEF Grows
<1>3. ASSUME NEW b \in DOMAIN q.instances, b \notin DOMAIN r.instances
      PROVE  q.heap[q.instances[b]].content = [i \in 1 .. SizeOf[b] |-> Null]
  <2>1. CASE b \in DOMAIN p.instances
    <3>1. p.heap[p.instances[b]].content = [i \in 1 .. SizeOf[b] |-> Null]
      BY <1>3, <2>1 DEF Grows
    <3>2. q.instances[b] = p.instances[b] /\ q.heap[p.instances[b]] = p.heap[p.instances[b]]
      BY <2>1 DEF Grows, Extends
    <3>3. QED
      BY <3>1, <3>2
  <2>2. CASE b \notin DOMAIN p.instances
    BY <2>2 DEF Grows
  <2>3. QED
    BY <2>1, <2>2
<1>4. QED
  BY <1>1, <1>2, <1>3 DEF Grows

LEMMA InstantiateIs ==
  ASSUME NEW M \in Fitting, NEW r, Resolver(r, M), NEW e \in Expressions(M),
         NEW q, q = InstantiateExpression(r, e)
  PROVE  /\ Resolver(q, M) /\ Extends(q, r)
         /\ ~q.failed => e # Unknown /\ Has(q, e) /\ Grows(q, r)
         /\ e # Unknown /\ ~r.failed => ~q.failed
<1>1. r = [instances |-> r.instances, heap |-> r.heap, failed |-> r.failed] /\ r.failed \in BOOLEAN
  BY ResolversAre DEF Resolver
<1>2. Grows(r, r)
  BY DEF Grows, Extends
<1>3. CASE r.failed \/ e = Unknown
  <2>1. q = [instances |-> r.instances, heap |-> r.heap, failed |-> TRUE]
    <3>1. q = [r EXCEPT !.failed = TRUE]
      BY <1>3, ResolutionAssumption DEF InstantiateExpression
    <3>2. QED
      BY <1>1, <3>1
  <2>2. q \in Resolvers(M)
    BY <2>1 DEF Resolver, Resolvers
  <2>3. Resolver(q, M) /\ Extends(q, r)
    BY <2>1, <2>2 DEF Resolver, Extends
  <2>4. QED
    BY <1>1, <1>3, <2>1, <2>3
<1>4. CASE ~(r.failed \/ e = Unknown) /\ e \in Addresses
  <2>1. q = IF e \in DOMAIN r.instances THEN r ELSE Created(r, e)
    BY <1>4 DEF InstantiateExpression, ResolveReferenceType
  <2>2. CASE e \in DOMAIN r.instances
    BY <1>2, <1>4, <2>1, <2>2 DEF Grows, Has
  <2>3. CASE e \notin DOMAIN r.instances
    <3>1. e \in M
      BY <1>4, ResolutionAssumption DEF Expressions
    <3>2. /\ Resolver(Created(r, e), M) /\ Grows(Created(r, e), r)
          /\ DOMAIN Created(r, e).instances = DOMAIN r.instances \cup {e}
          /\ Created(r, e).failed = r.failed
      BY <2>3, <3>1, CreatedIs
    <3>3. q = Created(r, e)
      BY <2>1, <2>3
    <3>4. QED
      BY <1>4, <3>2, <3>3 DEF Grows, Has
  <2>4. QED
    BY <2>2, <2>3
<1>5. CASE ~(r.failed \/ e = Unknown) /\ e \notin Addresses
  <2>1. q = r
    BY <1>5 DEF InstantiateExpression
  <2>2. QED
    BY <1>2, <1>5, <2>1 DEF Grows, Has
<1>6. QED
  BY <1>3, <1>4, <1>5

(* An expression that was instantiated denotes a value, and the same value *)
(* from then on.                                                           *)
LEMMA DenotedIs ==
  ASSUME NEW M \in Fitting, NEW r, Resolver(r, M),
         NEW e \in Expressions(M), e # Unknown, Has(r, e)
  PROVE  /\ Denoted(r, e) \in Values
         /\ \A q : Extends(q, r) => Has(q, e) /\ Denoted(q, e) = Denoted(r, e)
<1>1. CASE e \in Addresses
  <2>1. e \in DOMAIN r.instances
    BY <1>1 DEF Has
  <2>2. r.instances[e] \in Objects
    BY <2>1, ResolversAre DEF Resolver
  <2>3. QED
    BY <1>1, <2>1, <2>2 DEF Denoted, Values, Has, Extends
<1>2. CASE e \notin Addresses
  <2>1. e \in Data \cup {Null}
    BY <1>2 DEF Expressions, Fitting
  <2>2. QED
    BY <1>2, <2>1 DEF Denoted, Values, Has
<1>3. QED
  BY <1>1, <1>2

(* What a statement leaves in a field. *)
FieldAfter(q, r, s, b, i) ==
  IF b = s.instance /\ i = s.index THEN Denoted(q, s.value)
  ELSE IF b \in DOMAIN r.instances THEN r.heap[r.instances[b]].content[i]
  ELSE Null

Done(q, r, s) ==
  /\ s.instance \in DOMAIN q.instances
  /\ s.value # Unknown /\ Has(q, s.value)
  /\ \A b \in DOMAIN q.instances : \A i \in 1 .. SizeOf[b] :
       q.heap[q.instances[b]].content[i] = FieldAfter(q, r, s, b, i)

LEMMA AssignIs ==
  ASSUME NEW M \in Fitting, NEW r, Resolver(r, M), NEW s \in Statements(M),
         NEW q, q = Assign(r, s)
  PROVE  /\ Resolver(q, M) /\ Extends(q, r)
         /\ ~q.failed => Done(q, r, s)
         /\ s \in Writes(M) /\ ~r.failed => ~q.failed
<1> DEFINE p == InstantiateExpression(r, s.instance)
           ready == InstantiateExpression(p, s.value)
<1>1. s.instance \in Expressions(M) /\ s.value \in Expressions(M) /\ s.index \in Nat \ {0}
  BY DEF Statements, Expressions
<1>2. /\ Resolver(p, M) /\ Extends(p, r)
      /\ ~p.failed => s.instance # Unknown /\ Has(p, s.instance) /\ Grows(p, r)
      /\ s.instance # Unknown /\ ~r.failed => ~p.failed
  BY <1>1, InstantiateIs
<1> HIDE DEF p
<1>3. /\ Resolver(ready, M) /\ Extends(ready, p)
      /\ ~ready.failed => s.value # Unknown /\ Has(ready, s.value) /\ Grows(ready, p)
      /\ s.value # Unknown /\ ~p.failed => ~ready.failed
  BY <1>1, <1>2, InstantiateIs
<1>4. q = IF ready.failed \/ s.index > SizeOf[s.instance]
          THEN [ready EXCEPT !.failed = TRUE]
          ELSE [ready EXCEPT !.heap[ready.instances[s.instance]].content[s.index] =
                               Denoted(ready, s.value)]
  BY DEF Assign, p
<1> HIDE DEF ready
<1>5. Extends(ready, r)
  BY <1>2, <1>3 DEF Extends
<1>6. /\ ready = [instances |-> ready.instances, heap |-> ready.heap, failed |-> ready.failed]
      /\ ready.heap \in Heaps /\ ready.failed \in BOOLEAN
      /\ ready.instances \in [DOMAIN ready.instances -> Objects]
      /\ DOMAIN ready.instances \subseteq M
  BY <1>3, ResolversAre DEF Resolver
<1>7. s \in Writes(M) /\ ~r.failed => ~ready.failed /\ ~(s.index > SizeOf[s.instance])
  <2>1. SUFFICES ASSUME s \in Writes(M), ~r.failed
                 PROVE  ~ready.failed /\ ~(s.index > SizeOf[s.instance])
    OBVIOUS
  <2>2. s.instance # Unknown /\ s.value # Unknown /\ s.index \in 1 .. SizeOf[s.instance]
    BY <2>1 DEF Writes
  <2>3. s.instance \in Addresses
    BY <2>2 DEF Statements, Fitting
  <2>4. SizeOf[s.instance] \in Nat
    BY <2>3, ResolutionAssumption
  <2>5. QED
    BY <1>2, <1>3, <2>1, <2>2, <2>4
<1>8. CASE ready.failed \/ s.index > SizeOf[s.instance]
  <2>1. q = [instances |-> ready.instances, heap |-> ready.heap, failed |-> TRUE]
    BY <1>4, <1>6, <1>8
  <2>2. q \in Resolvers(M)
    BY <1>3, <2>1 DEF Resolver, Resolvers
  <2>3. Resolver(q, M) /\ Extends(q, r)
    BY <1>3, <1>5, <2>1, <2>2 DEF Resolver, Extends
  <2>4. s \in Writes(M) /\ ~r.failed => ~q.failed
    BY <1>7, <1>8, <2>1
  <2>5. QED
    BY <2>1, <2>3, <2>4
<1>9. CASE ~ready.failed /\ ~(s.index > SizeOf[s.instance])
  <2> DEFINE o == ready.instances[s.instance]
             v == Denoted(ready, s.value)
             H == [ready.heap EXCEPT ![o].content[s.index] = v]
  <2>1. s.value # Unknown /\ Has(ready, s.value) /\ Grows(ready, p) /\ ~p.failed
    BY <1>3, <1>9 DEF Extends
  <2>2. s.instance # Unknown /\ Has(p, s.instance) /\ Grows(p, r)
    BY <1>2, <2>1
  <2>3. s.instance \in M /\ s.instance \in Addresses /\ s.instance \in DOMAIN ready.instances
    <3>1. s.instance \in M
      BY <2>2 DEF Statements
    <3>2. s.instance \in Addresses
      BY <3>1 DEF Fitting
    <3>3. QED
      BY <1>3, <2>2, <3>1, <3>2 DEF Has, Extends
  <2>4. o \in Objects
    BY <1>6, <2>3
  <2>5. v \in Values
    BY <1>1, <1>3, <2>1, DenotedIs
  <2>6. s.index \in 1 .. SizeOf[s.instance] /\ Len(ready.heap[o].content) = SizeOf[s.instance]
    <3>1. Len(ready.heap[o].content) = SizeOf[s.instance]
      BY <1>3, <2>3 DEF Resolver
    <3>2. SizeOf[s.instance] \in Nat
      BY <2>3, ResolutionAssumption
    <3>3. QED
      BY <1>1, <1>9, <3>1, <3>2
  <2>7. q = [instances |-> ready.instances, heap |-> H, failed |-> FALSE]
    <3>1. q = [ready EXCEPT !.heap[o].content[s.index] = v]
      BY <1>4, <1>9
    <3>2. QED
      BY <1>6, <1>9, <3>1
  <2>8. ready.heap[o].type \in Types \cup {None} /\ ready.heap[o].content \in Seq(Values)
    BY <1>6, <2>4 DEF Heaps
  <2>9. /\ \A x \in Objects : x # o => H[x] = ready.heap[x]
        /\ H[o] = [ready.heap[o] EXCEPT !.content[s.index] = v]
    BY <1>6, <2>4 DEF Heaps
  <2>10. /\ H[o].type = ready.heap[o].type
         /\ H[o].content = [ready.heap[o].content EXCEPT ![s.index] = v]
    BY <1>6, <2>4, <2>9 DEF Heaps
  <2>11. /\ Len(H[o].content) = SizeOf[s.instance] /\ H[o].content \in Seq(Values)
         /\ \A i \in 1 .. SizeOf[s.instance] :
              H[o].content[i] = IF i = s.index THEN v ELSE ready.heap[o].content[i]
    <3> DEFINE old == ready.heap[o].content
               c == [old EXCEPT ![s.index] = v]
    <3>1. old \in Seq(Values) /\ Len(old) = SizeOf[s.instance] /\ v \in Values /\ H[o].content = c
      BY <2>5, <2>6, <2>8, <2>10
    <3> HIDE DEF old, v, H
    <3>2. DOMAIN old = 1 .. SizeOf[s.instance] /\ DOMAIN c = DOMAIN old
      BY <3>1
    <3>3. c \in Seq(Values) /\ Len(c) = Len(old)
      BY <2>6, <3>1
    <3>4. \A i \in 1 .. SizeOf[s.instance] : c[i] = IF i = s.index THEN v ELSE old[i]
      BY <3>2
    <3>5. QED
      BY <3>1, <3>3, <3>4 DEF old
  <2>12. H \in Heaps
    <3>1. H[o] \in [type : Types \cup {None}, content : Seq(Values)]
      <4>1. ready.heap[o] = [type |-> ready.heap[o].type, content |-> ready.heap[o].content]
        BY <1>6, <2>4 DEF Heaps
      <4>2. H[o] = [type |-> H[o].type, content |-> H[o].content]
        BY <2>9, <2>10, <4>1
      <4>3. QED
        BY <2>8, <2>10, <2>11, <4>2
    <3>2. H = [x \in Objects |-> H[x]]
      BY <1>6, <2>4 DEF Heaps
    <3>3. ASSUME NEW x \in Objects
          PROVE  H[x] \in [type : Types \cup {None}, content : Seq(Values)]
      BY <1>6, <2>9, <3>1 DEF Heaps
    <3>4. QED
      BY <3>2, <3>3 DEF Heaps
  <2> HIDE DEF H, v
  <2>13. q.instances = ready.instances /\ q.heap = H /\ q.failed = FALSE
    BY <2>7
  <2>14. q \in Resolvers(M)
    BY <1>3, <2>7, <2>12 DEF Resolver, Resolvers
  <2>15. Occupied(H) = Occupied(ready.heap)
    <3>1. \A x \in Objects : H[x].type = ready.heap[x].type
      BY <2>9, <2>10
    <3>2. QED
      BY <3>1 DEF Occupied
  <2>16. Resolver(q, M)
    <3>1. ASSUME NEW b \in DOMAIN ready.instances
          PROVE  /\ H[ready.instances[b]].type = TypeOf[b]
                 /\ Len(H[ready.instances[b]].content) = SizeOf[b]
      <4>1. /\ ready.instances[b] \in Objects
            /\ ready.heap[ready.instances[b]].type = TypeOf[b]
            /\ Len(ready.heap[ready.instances[b]].content) = SizeOf[b]
        BY <1>3, <1>6 DEF Resolver
      <4>2. CASE ready.instances[b] = o
        BY <2>6, <2>10, <2>11, <4>1, <4>2
      <4>3. CASE ready.instances[b] # o
        BY <2>9, <4>1, <4>3
      <4>4. QED
        BY <4>2, <4>3
    <3>2. QED
      BY <1>3, <2>13, <2>14, <2>15, <3>1 DEF Resolver
  <2>17. Extends(q, r)
    BY <1>5, <1>9, <2>13 DEF Extends
  <2>18. Denoted(q, s.value) = v
    BY <2>13 DEF Denoted, v
  <2>19. ASSUME NEW b \in DOMAIN ready.instances, NEW i \in 1 .. SizeOf[b]
         PROVE  H[ready.instances[b]].content[i] = FieldAfter(q, r, s, b, i)
    <3>1. CASE b = s.instance /\ i = s.index
      BY <2>6, <2>11, <2>18, <3>1 DEF FieldAfter
    <3>2. CASE ~(b = s.instance /\ i = s.index)
      <4>1. H[ready.instances[b]].content[i] = ready.heap[ready.instances[b]].content[i]
        <5>1. CASE b = s.instance
          BY <2>11, <3>2, <5>1
        <5>2. CASE b # s.instance
          <6>1. ready.instances[b] # o /\ ready.instances[b] \in Objects
            BY <1>3, <1>6, <2>3, <5>2 DEF Resolver
          <6>2. QED
            BY <2>9, <6>1
        <5>3. QED
          BY <5>1, <5>2
      <4>2. Grows(ready, r)
        BY <1>2, <1>3, <2>1, <2>2, GrowsTwice
      <4>3. CASE b \in DOMAIN r.instances
        <5>1. ready.heap[ready.instances[b]] = r.heap[r.instances[b]]
          BY <4>2, <4>3 DEF Grows, Extends
        <5>2. QED
          BY <3>2, <4>1, <4>3, <5>1 DEF FieldAfter
      <4>4. CASE b \notin DOMAIN r.instances
        <5>1. ready.heap[ready.instances[b]].content = [j \in 1 .. SizeOf[b] |-> Null]
          BY <4>2, <4>4 DEF Grows
        <5>2. QED
          BY <3>2, <4>1, <4>4, <5>1 DEF FieldAfter
      <4>5. QED
        BY <4>3, <4>4
    <3>3. QED
      BY <3>1, <3>2
  <2>20. Done(q, r, s)
    <3>1. Has(q, s.value)
      BY <2>1, <2>13 DEF Has
    <3>2. QED
      BY <2>1, <2>3, <2>13, <2>19, <3>1 DEF Done
  <2>21. s \in Writes(M) /\ ~r.failed => ~q.failed
    BY <1>7, <1>9, <2>13
  <2>22. QED
    BY <2>16, <2>17, <2>20, <2>21
<1>10. QED
  BY <1>6, <1>8, <1>9

-----------------------------------------------------------------------------
(* After the first n statements a field has the value the last of them     *)
(* about it gives it.                                                      *)
About(s, k, a, i) == s[k].instance = a /\ s[k].index = i

Stated(r, s, n, a, i, v) ==
  \/ v = Null /\ \A k \in 1 .. n : ~About(s, k, a, i)
  \/ \E k \in 1 .. n : /\ About(s, k, a, i) /\ v = Denoted(r, s[k].value)
                       /\ \A l \in k + 1 .. n : ~About(s, l, a, i)

AsStated(r, s, n) ==
  /\ \A k \in 1 .. n :
       s[k].instance \in DOMAIN r.instances /\ s[k].value # Unknown /\ Has(r, s[k].value)
  /\ \A a \in DOMAIN r.instances : \A i \in 1 .. SizeOf[a] :
       Stated(r, s, n, a, i, r.heap[r.instances[a]].content[i])

LEMMA StatementsAre ==
  ASSUME NEW M, NEW s \in Seq(Statements(M)), NEW k \in 1 .. Len(s)
  PROVE  s[k] \in Statements(M) /\ s[k].value \in Expressions(M)
<1>1. s[k] \in Statements(M)
  OBVIOUS
<1>2. QED
  BY <1>1 DEF Statements

(* What was stated of a field is still so when its resolver has grown. *)
LEMMA StatedExtends ==
  ASSUME NEW M \in Fitting, NEW r, NEW q, Resolver(r, M), Extends(q, r),
         NEW s \in Seq(Statements(M)), NEW n \in 0 .. Len(s), AsStated(r, s, n),
         NEW a, NEW i, NEW v, Stated(r, s, n, a, i, v)
  PROVE  Stated(q, s, n, a, i, v)
<1>1. CASE \E k \in 1 .. n : /\ About(s, k, a, i) /\ v = Denoted(r, s[k].value)
                             /\ \A l \in k + 1 .. n : ~About(s, l, a, i)
  <2>1. PICK k \in 1 .. n : /\ About(s, k, a, i) /\ v = Denoted(r, s[k].value)
                            /\ \A l \in k + 1 .. n : ~About(s, l, a, i)
    BY <1>1
  <2>2. s[k].value \in Expressions(M)
    BY StatementsAre
  <2>3. s[k].value # Unknown /\ Has(r, s[k].value)
    BY DEF AsStated
  <2>4. Denoted(q, s[k].value) = Denoted(r, s[k].value)
    BY <2>2, <2>3, DenotedIs
  <2>5. QED
    BY <2>1, <2>4 DEF Stated
<1>2. QED
  BY <1>1 DEF Stated

LEMMA AsStatedGrows ==
  ASSUME NEW M \in Fitting, NEW r, NEW q, Resolver(r, M), Resolver(q, M), Grows(q, r),
         NEW s \in Seq(Statements(M)), NEW n \in 0 .. Len(s), AsStated(r, s, n)
  PROVE  AsStated(q, s, n)
<1>1. Extends(q, r)
  BY DEF Grows
<1>2. ASSUME NEW k \in 1 .. n
      PROVE  s[k].instance \in DOMAIN q.instances /\ s[k].value # Unknown /\ Has(q, s[k].value)
  <2>1. s[k].instance \in DOMAIN r.instances /\ s[k].value # Unknown /\ Has(r, s[k].value)
    BY DEF AsStated
  <2>2. QED
    BY <1>1, <2>1 DEF Extends, Has
<1>3. ASSUME NEW a \in DOMAIN q.instances, NEW i \in 1 .. SizeOf[a]
      PROVE  Stated(q, s, n, a, i, q.heap[q.instances[a]].content[i])
  <2>1. CASE a \in DOMAIN r.instances
    <3>1. q.heap[q.instances[a]] = r.heap[r.instances[a]]
      BY <2>1 DEF Grows, Extends
    <3>2. Stated(r, s, n, a, i, r.heap[r.instances[a]].content[i])
      BY <2>1 DEF AsStated
    <3>3. Stated(q, s, n, a, i, r.heap[r.instances[a]].content[i])
      BY <1>1, <3>2, StatedExtends
    <3>4. QED
      BY <3>1, <3>3
  <2>2. CASE a \notin DOMAIN r.instances
    <3>1. q.heap[q.instances[a]].content[i] = Null
      <4>1. q.heap[q.instances[a]].content = [j \in 1 .. SizeOf[a] |-> Null]
        BY <2>2 DEF Grows
      <4>2. QED
        BY <4>1
    <3>2. \A k \in 1 .. n : ~About(s, k, a, i)
      BY <2>2 DEF AsStated, About
    <3>3. QED
      BY <3>1, <3>2 DEF Stated
  <2>3. QED
    BY <2>1, <2>2
<1>4. QED
  BY <1>2, <1>3 DEF AsStated

LEMMA AsStatedNext ==
  ASSUME NEW M \in Fitting, NEW r, NEW q, Resolver(r, M), Resolver(q, M), Extends(q, r),
         NEW s \in Seq(Statements(M)), NEW n \in 1 .. Len(s),
         AsStated(r, s, n - 1), Done(q, r, s[n])
  PROVE  AsStated(q, s, n)
<1>1. ASSUME NEW k \in 1 .. n
      PROVE  s[k].instance \in DOMAIN q.instances /\ s[k].value # Unknown /\ Has(q, s[k].value)
  <2>1. CASE k = n
    BY <2>1 DEF Done
  <2>2. CASE k \in 1 .. n - 1
    <3>1. s[k].instance \in DOMAIN r.instances /\ s[k].value # Unknown /\ Has(r, s[k].value)
      BY <2>2 DEF AsStated
    <3>2. QED
      BY <3>1 DEF Extends, Has
  <2>3. QED
    BY <2>1, <2>2
<1>2. ASSUME NEW a \in DOMAIN q.instances, NEW i \in 1 .. SizeOf[a]
      PROVE  Stated(q, s, n, a, i, q.heap[q.instances[a]].content[i])
  <2> DEFINE v == q.heap[q.instances[a]].content[i]
  <2>1. v = FieldAfter(q, r, s[n], a, i)
    BY DEF Done
  <2> HIDE DEF v
  <2>2. CASE About(s, n, a, i)
    <3>1. v = Denoted(q, s[n].value)
      BY <2>1, <2>2 DEF About, FieldAfter
    <3>2. \A l \in n + 1 .. n : ~About(s, l, a, i)
      OBVIOUS
    <3>3. QED
      BY <2>2, <3>1, <3>2 DEF Stated, v
  <2>3. CASE ~About(s, n, a, i)
    <3>1. v = IF a \in DOMAIN r.instances THEN r.heap[r.instances[a]].content[i] ELSE Null
      BY <2>1, <2>3 DEF About, FieldAfter
    <3>2. Stated(q, s, n - 1, a, i, v)
      <4>1. CASE a \in DOMAIN r.instances
        <5>1. Stated(r, s, n - 1, a, i, v)
          BY <3>1, <4>1 DEF AsStated
        <5>2. n - 1 \in 0 .. Len(s)
          OBVIOUS
        <5>3. QED
          BY <5>1, <5>2, StatedExtends
      <4>2. CASE a \notin DOMAIN r.instances
        <5>1. \A k \in 1 .. n - 1 : ~About(s, k, a, i)
          BY <4>2 DEF AsStated, About
        <5>2. QED
          BY <3>1, <4>2, <5>1 DEF Stated
      <4>3. QED
        BY <4>1, <4>2
    <3>3. CASE v = Null /\ \A k \in 1 .. n - 1 : ~About(s, k, a, i)
      <4>1. \A k \in 1 .. n : ~About(s, k, a, i)
        <5>1. \A k \in 1 .. n : k = n \/ k \in 1 .. n - 1
          OBVIOUS
        <5>2. QED
          BY <2>3, <3>3, <5>1
      <4>2. QED
        BY <3>3, <4>1 DEF Stated, v
    <3>4. CASE \E k \in 1 .. n - 1 : /\ About(s, k, a, i) /\ v = Denoted(q, s[k].value)
                                     /\ \A l \in k + 1 .. n - 1 : ~About(s, l, a, i)
      <4>1. PICK k \in 1 .. n - 1 : /\ About(s, k, a, i) /\ v = Denoted(q, s[k].value)
                                    /\ \A l \in k + 1 .. n - 1 : ~About(s, l, a, i)
        BY <3>4
      <4>2. \A l \in k + 1 .. n : l = n \/ l \in k + 1 .. n - 1
        OBVIOUS
      <4>3. k \in 1 .. n /\ \A l \in k + 1 .. n : ~About(s, l, a, i)
        BY <2>3, <4>1, <4>2
      <4>4. QED
        BY <4>1, <4>3 DEF Stated, v
    <3>5. QED
      BY <3>2, <3>3, <3>4 DEF Stated
  <2>4. QED
    BY <2>2, <2>3
<1>3. QED
  BY <1>1, <1>2 DEF AsStated

(* Nothing was stated yet. *)
LEMMA NothingStated ==
  ASSUME NEW s
  PROVE  AsStated(NewResolver, s, 0)
<1>1. DOMAIN NewResolver.instances = {}
  BY DEF NewResolver
<1>2. QED
  BY <1>1 DEF AsStated

LEMMA ExtendsTwice ==
  ASSUME NEW r, NEW p, NEW q, Extends(p, r), Extends(q, p)
  PROVE  Extends(q, r)
BY DEF Extends

LEMMA ArrangedIs ==
  ASSUME NEW M \in Fitting, NEW r, Resolver(r, M), NEW s \in Seq(Statements(M)),
         NEW q, q = Arranged(r, s)
  PROVE  /\ Resolver(q, M) /\ Extends(q, r)
         /\ r = NewResolver /\ ~q.failed => AsStated(q, s, Len(s))
         /\ s \in Seq(Writes(M)) /\ ~r.failed => ~q.failed
<1> DEFINE N == Len(s)
           Fine(p, n) == /\ Resolver(p, M) /\ Extends(p, r)
                         /\ r = NewResolver /\ ~p.failed => AsStated(p, s, n)
                         /\ s \in Seq(Writes(M)) /\ ~r.failed => ~p.failed
<1>1. PICK after : /\ after[0] = r
                   /\ \A n \in 1 .. N : after[n] = Assign(after[n - 1], s[n])
                   /\ q = after[N]
  BY ArrangedFold
<1> DEFINE G == {n \in 0 .. N : Fine(after[n], n)}
<1>2. N \in Nat
  OBVIOUS
<1>3. 0 \in G
  <2>1. Extends(r, r)
    BY DEF Extends
  <2>2. Fine(r, 0)
    BY <2>1, NothingStated
  <2>3. QED
    BY <1>1, <1>2, <2>2
<1>4. ASSUME NEW n \in 1 .. N, n - 1 \in G
      PROVE  n \in G
  <2> DEFINE p == after[n - 1]
  <2>1. Fine(p, n - 1)
    BY <1>4
  <2>2. after[n] = Assign(p, s[n])
    BY <1>1
  <2> HIDE DEF p
  <2>3. s[n] \in Statements(M)
    BY StatementsAre
  <2>4. /\ Resolver(after[n], M) /\ Extends(after[n], p)
        /\ ~after[n].failed => Done(after[n], p, s[n])
        /\ s[n] \in Writes(M) /\ ~p.failed => ~after[n].failed
    BY <2>1, <2>2, <2>3, AssignIs
  <2>5. Extends(after[n], r)
    BY <2>1, <2>4, ExtendsTwice
  <2>6. ASSUME r = NewResolver, ~after[n].failed
        PROVE  AsStated(after[n], s, n)
    <3>1. ~p.failed
      BY <2>4, <2>6 DEF Extends
    <3>2. AsStated(p, s, n - 1)
      BY <2>1, <2>6, <3>1
    <3>3. QED
      BY <2>1, <2>4, <2>6, <3>2, AsStatedNext
  <2>7. ASSUME s \in Seq(Writes(M)), ~r.failed
        PROVE  ~after[n].failed
    <3>1. s[n] \in Writes(M)
      BY <2>7
    <3>2. QED
      BY <2>1, <2>4, <2>7, <3>1
  <2>8. Fine(after[n], n)
    BY <2>4, <2>5, <2>6, <2>7
  <2>9. QED
    BY <1>2, <2>8
<1>5. N \in G
  <2> HIDE DEF G, N
  <2>1. 0 .. N \subseteq G
    BY <1>2, <1>3, <1>4, UpTo
  <2>2. QED
    BY <1>2, <2>1
<1>6. QED
  BY <1>1, <1>5

LEMMA InstantiatedIs ==
  ASSUME NEW M \in Fitting, NEW r, Resolver(r, M), NEW e \in Seq(Expressions(M)),
         NEW q, q = Instantiated(r, e)
  PROVE  /\ Resolver(q, M) /\ Extends(q, r)
         /\ ~q.failed => Grows(q, r) /\ \A k \in 1 .. Len(e) : e[k] # Unknown /\ Has(q, e[k])
<1> DEFINE N == Len(e)
           Fine(p, n) == /\ Resolver(p, M) /\ Extends(p, r)
                         /\ ~p.failed => /\ Grows(p, r)
                                         /\ \A k \in 1 .. n : e[k] # Unknown /\ Has(p, e[k])
<1>1. PICK after : /\ after[0] = r
                   /\ \A n \in 1 .. N : after[n] = InstantiateExpression(after[n - 1], e[n])
                   /\ q = after[N]
  BY InstantiatedFold
<1> DEFINE G == {n \in 0 .. N : Fine(after[n], n)}
<1>2. N \in Nat
  OBVIOUS
<1>3. 0 \in G
  <2>1. Extends(r, r) /\ Grows(r, r)
    BY DEF Extends, Grows
  <2>2. Fine(r, 0)
    BY <2>1
  <2>3. QED
    BY <1>1, <1>2, <2>2
<1>4. ASSUME NEW n \in 1 .. N, n - 1 \in G
      PROVE  n \in G
  <2> DEFINE p == after[n - 1]
  <2>1. Fine(p, n - 1)
    BY <1>4
  <2>2. after[n] = InstantiateExpression(p, e[n])
    BY <1>1
  <2> HIDE DEF p
  <2>3. e[n] \in Expressions(M)
    OBVIOUS
  <2>4. /\ Resolver(after[n], M) /\ Extends(after[n], p)
        /\ ~after[n].failed => e[n] # Unknown /\ Has(after[n], e[n]) /\ Grows(after[n], p)
    BY <2>1, <2>2, <2>3, InstantiateIs
  <2>5. Extends(after[n], r)
    BY <2>1, <2>4, ExtendsTwice
  <2>6. ASSUME ~after[n].failed
        PROVE  /\ Grows(after[n], r)
               /\ \A k \in 1 .. n : e[k] # Unknown /\ Has(after[n], e[k])
    <3>1. ~p.failed
      BY <2>4, <2>6 DEF Extends
    <3>2. Grows(after[n], r)
      BY <2>1, <2>4, <2>6, <3>1, GrowsTwice
    <3>3. ASSUME NEW k \in 1 .. n - 1
          PROVE  e[k] # Unknown /\ Has(after[n], e[k])
      BY <2>1, <2>4, <3>1 DEF Extends, Has
    <3>4. \A k \in 1 .. n : k = n \/ k \in 1 .. n - 1
      OBVIOUS
    <3>5. QED
      BY <2>4, <2>6, <3>2, <3>3, <3>4
  <2>7. Fine(after[n], n)
    BY <2>4, <2>5, <2>6
  <2>8. QED
    BY <1>2, <2>7
<1>5. N \in G
  <2> HIDE DEF G, N
  <2>1. 0 .. N \subseteq G
    BY <1>2, <1>3, <1>4, UpTo
  <2>2. QED
    BY <1>2, <2>1
<1>6. QED
  BY <1>1, <1>5

(* The field of an address with the value its last statement gives it. *)
LEMMA LastIs ==
  ASSUME NEW M, NEW r, NEW s \in Seq(Statements(M)), NEW a, NEW i, NEW v,
         Stated(r, s, Len(s), a, i, v)
  PROVE  v = LastValue(r, s, a, i)
<1> DEFINE about == {k \in DOMAIN s : s[k].instance = a /\ s[k].index = i}
           last == CHOOSE k \in about : \A l \in about : l <= k
<1>1. LastValue(r, s, a, i) = IF about = {} THEN Null ELSE Denoted(r, s[last].value)
  BY DEF LastValue
<1>2. DOMAIN s = 1 .. Len(s) /\ Len(s) \in Nat
  OBVIOUS
<1>3. CASE v = Null /\ \A k \in 1 .. Len(s) : ~About(s, k, a, i)
  <2>1. about = {}
    BY <1>2, <1>3 DEF About
  <2>2. QED
    BY <1>1, <1>3, <2>1
<1>4. CASE \E k \in 1 .. Len(s) : /\ About(s, k, a, i) /\ v = Denoted(r, s[k].value)
                                  /\ \A l \in k + 1 .. Len(s) : ~About(s, l, a, i)
  <2>1. PICK k \in 1 .. Len(s) : /\ About(s, k, a, i) /\ v = Denoted(r, s[k].value)
                                 /\ \A l \in k + 1 .. Len(s) : ~About(s, l, a, i)
    BY <1>4
  <2>2. k \in about
    BY <1>2, <2>1 DEF About
  <2>3. ASSUME NEW l \in about
        PROVE  l <= k
    <3>1. l \in 1 .. Len(s) /\ About(s, l, a, i)
      BY <1>2 DEF About
    <3>2. QED
      BY <1>2, <2>1, <3>1
  <2>4. last \in about /\ \A l \in about : l <= last
    BY <2>2, <2>3
  <2>5. last = k
    <3>1. last \in Nat
      BY <1>2, <2>4
    <3> HIDE DEF about, last
    <3>2. k <= last /\ last <= k
      BY <2>2, <2>3, <2>4
    <3>3. QED
      BY <1>2, <3>1, <3>2
  <2>6. QED
    BY <1>1, <2>1, <2>2, <2>5
<1>5. QED
  BY <1>3, <1>4 DEF Stated

(* A test is resolved as its statements say. *)
LEMMA ResolvedIs ==
  ASSUME NEW M \in Fitting, NEW test \in TestsOn(M), NEW r, r = Resolve(test)
  PROVE  /\ Resolver(r, M)
         /\ ~r.failed => /\ IsArrangedAs(r, test)
                         /\ test.expected # Unknown /\ Has(r, test.expected)
                         /\ Denoted(r, test.expected) \in Values
<1> DEFINE arranged == Arranged(NewResolver, test.arrange)
           e == Append(test.args, test.expected)
<1>1. /\ test.arrange \in Seq(Statements(M)) /\ test.args \in Seq(Expressions(M))
      /\ test.expected \in Expressions(M)
  BY DEF TestsOn
<1>2. e \in Seq(Expressions(M)) /\ Len(e) \in Nat \ {0} /\ e[Len(e)] = test.expected
  BY <1>1
<1>3. /\ Resolver(arranged, M)
      /\ ~arranged.failed => AsStated(arranged, test.arrange, Len(test.arrange))
  BY <1>1, NewResolverIs, ArrangedIs
<1>4. r = Instantiated(arranged, e)
  BY DEF Resolve
<1> HIDE DEF arranged, e
<1>5. /\ Resolver(r, M) /\ Extends(r, arranged)
      /\ ~r.failed => /\ Grows(r, arranged)
                      /\ \A k \in 1 .. Len(e) : e[k] # Unknown /\ Has(r, e[k])
  BY <1>2, <1>3, <1>4, InstantiatedIs
<1>6. SUFFICES ASSUME ~r.failed
               PROVE  /\ IsArrangedAs(r, test)
                      /\ test.expected # Unknown /\ Has(r, test.expected)
                      /\ Denoted(r, test.expected) \in Values
  BY <1>5
<1>7. test.expected # Unknown /\ Has(r, test.expected)
  <2>1. Len(e) \in 1 .. Len(e)
    BY <1>2
  <2>2. QED
    BY <1>2, <1>5, <1>6, <2>1
<1>8. Denoted(r, test.expected) \in Values
  BY <1>1, <1>5, <1>7, DenotedIs
<1>9. AsStated(r, test.arrange, Len(test.arrange))
  <2>1. ~arranged.failed
    BY <1>5, <1>6 DEF Extends
  <2>2. Len(test.arrange) \in 0 .. Len(test.arrange)
    BY <1>1
  <2>3. QED
    BY <1>1, <1>3, <1>5, <1>6, <2>1, <2>2, AsStatedGrows
<1>10. ASSUME NEW a \in DOMAIN r.instances
       PROVE  /\ r.instances[a] \in Objects
              /\ r.heap[r.instances[a]] =
                   [type |-> TypeOf[a],
                    content |-> [i \in 1 .. SizeOf[a] |-> LastValue(r, test.arrange, a, i)]]
  <2> DEFINE o == r.instances[a]
             c == r.heap[o].content
  <2>1. o \in Objects /\ r.heap \in Heaps /\ a \in Addresses
    BY <1>5, ResolversAre DEF Resolver, Fitting
  <2>2. r.heap[o].type = TypeOf[a] /\ Len(c) = SizeOf[a] /\ c \in Seq(Values)
    BY <1>5, <2>1 DEF Resolver, Heaps
  <2>3. r.heap[o] = [type |-> TypeOf[a], content |-> c]
    BY <2>1, <2>2 DEF Heaps
  <2>4. \A i \in 1 .. SizeOf[a] : Stated(r, test.arrange, Len(test.arrange), a, i, c[i])
    BY <1>9 DEF AsStated
  <2> HIDE DEF c
  <2>5. \A i \in 1 .. SizeOf[a] : c[i] = LastValue(r, test.arrange, a, i)
    BY <1>1, <2>4, LastIs
  <2>6. c = [i \in 1 .. SizeOf[a] |-> LastValue(r, test.arrange, a, i)]
    BY <2>2, <2>5
  <2>7. QED
    BY <2>1, <2>3, <2>6
<1>11. IsArrangedAs(r, test)
  BY <1>5, <1>10 DEF IsArrangedAs, Resolver
<1>12. QED
  BY <1>7, <1>8, <1>11

-----------------------------------------------------------------------------
(* The places where a test was resolved and its objects are as resolved,   *)
(* and those where what its call returned is compared.                     *)
InHand == {"setMain", "setThread", "invoke", "run"}
Comparing == {"begin", "compare"}

Locals ==
  [test : Nat \ {0}, expectedException : ExceptionTypes \cup {None}, expected : Values,
   reproduced : Nat, failed : Nat, entryMainWasSet : BOOLEAN,
   assembly : Seq(Characters) \cup {None}]

ServiceTypes ==
  /\ batch \in Batches
  /\ pc \in [Tasks -> Places]
  /\ local \in [Tasks -> Locals]
  /\ outcome \in [Tasks -> Values]
  /\ DOMAIN instances = Tasks
  /\ heap \in [Tasks -> Heaps]
  /\ DOMAIN invoked = Tasks /\ todo \in [Tasks -> Seq(Events)]

(* One request: its batch b, its place p, its locals l, the instances I    *)
(* and the heap h of the test in hand.                                     *)
Served(b, p, l) ==
  /\ p # "idle" => b # None
  /\ p \in InHand \cup Comparing => l.test <= Len(b)
  /\ p \notin InHand \cup Comparing => l.expectedException = None

Prepared(b, p, l, I, h) ==
  p \in InHand =>
    /\ \E M \in Fitting : /\ b[l.test] \in TestsOn(M)
                          /\ Resolver([instances |-> I, heap |-> h, failed |-> FALSE], M)
    /\ IsArrangedAs([instances |-> I, heap |-> h], b[l.test])
    /\ l.expectedException = ExceptionOf(b[l.test].expected, None)

(* An invocation o that runs is one the test may have.                     *)
Running(b, p, l, o) == p = "run" => o \in b[l.test].outcomes

ServiceInv ==
  /\ ServiceTypes
  /\ \A t \in Tasks : /\ Served(batch[t], pc[t], local[t])
                      /\ Prepared(batch[t], pc[t], local[t], instances[t], heap[t])
                      /\ Running(batch[t], pc[t], local[t], invoked[t])

LEMMA ServiceInitial == Init => ServiceInv
<1>1. SUFFICES ASSUME Init
               PROVE  ServiceInv
  OBVIOUS
<1>2. NoObjects \in Heaps
  BY DEF NoObjects, Heaps
<1>3. NewLocals \in Locals /\ Null \in Values
  BY DEF NewLocals, Locals, Values
<1>6. <<>> \in Seq(Events)
  OBVIOUS
<1>4. ServiceTypes
  BY <1>1, <1>2, <1>3, <1>6 DEF Init, ServiceTypes, Places
<1>5. ASSUME NEW t \in Tasks
      PROVE  /\ Served(batch[t], pc[t], local[t])
             /\ Prepared(batch[t], pc[t], local[t], instances[t], heap[t])
             /\ Running(batch[t], pc[t], local[t], invoked[t])
  BY <1>1 DEF Init, Served, Prepared, Running, InHand, Comparing, NewLocals
<1>7. QED
  BY <1>4, <1>5 DEF ServiceInv

(* A step of a request leaves the others alone. *)
Unaffected(u) ==
  /\ pc'[u] = pc[u] /\ local'[u] = local[u] /\ instances'[u] = instances[u]
  /\ heap'[u] = heap[u] /\ invoked'[u] = invoked[u]

LEMMA OneTask ==
  ASSUME ServiceInv, NEW t \in Tasks, batch' = batch, ServiceTypes',
         \A u \in Tasks \ {t} : Unaffected(u),
         Served(batch[t], pc'[t], local'[t]),
         Prepared(batch[t], pc'[t], local'[t], instances'[t], heap'[t]),
         Running(batch[t], pc'[t], local'[t], invoked'[t])
  PROVE  ServiceInv'
<1>1. ASSUME NEW u \in Tasks
      PROVE  /\ Served(batch'[u], pc'[u], local'[u])
             /\ Prepared(batch'[u], pc'[u], local'[u], instances'[u], heap'[u])
             /\ Running(batch'[u], pc'[u], local'[u], invoked'[u])
  <2>1. CASE u = t
    BY <2>1
  <2>2. CASE u # t
    <3>1. Unaffected(u)
      BY <2>2
    <3>2. /\ Served(batch[u], pc[u], local[u])
          /\ Prepared(batch[u], pc[u], local[u], instances[u], heap[u])
          /\ Running(batch[u], pc[u], local[u], invoked[u])
      BY DEF ServiceInv
    <3>3. QED
      BY <3>1, <3>2 DEF Unaffected
  <2>3. QED
    BY <2>1, <2>2
<1>2. QED
  BY <1>1 DEF ServiceInv

(* A step that does nothing to tests and comparisons. *)
Plain(t) ==
  /\ UNCHANGED <<comparerVars, batch, testVars>>
  /\ pc' = [pc EXCEPT ![t] = pc'[t]]
  /\ pc[t] \notin InHand \cup Comparing /\ pc'[t] \in Places \ (InHand \cup Comparing)
  /\ batch[t] # None

LEMMA PlainSteps ==
  ASSUME ServiceInv, NEW t \in Tasks,
         \/ Receive(t) \/ ResolveType(t) \/ AddTypes(t) \/ GetMethod(t) \/ AddMethod(t)
         \/ BuildGraph(t) \/ LookupThrows(t) \/ AddTestTypes(t) \/ GetRawHistory(t)
         \/ NothingToAsk(t) \/ StartNewDeserialization(t) \/ Reads(t) \/ DisturbedReads(t)
         \/ DeserializationFails(t)
         \/ ComputeCoverage(t) \/ CoverageThrows(t)
  PROVE  Plain(t)
<1> DEFINE At(p) == p \in Places \ (InHand \cup Comparing)
<1>1. pc \in [Tasks -> Places] /\ (pc[t] # "idle" => batch[t] # None)
  BY DEF ServiceInv, ServiceTypes, Served
<1>2. \A x : pc' = [pc EXCEPT ![t] = x] => /\ pc'[t] = x
                                           /\ pc' = [pc EXCEPT ![t] = pc'[t]]
  BY <1>1
<1>3. UNCHANGED <<comparerVars, batch, testVars>>
  BY DEF Receive, ResolveType, AddTypes, GetMethod, AddMethod, BuildGraph, LookupThrows,
     AddTestTypes, GetRawHistory, NothingToAsk, StartNewDeserialization, Reads,
     DisturbedReads, DeserializationFails, ComputeCoverage, CoverageThrows, Throw
<1>4. /\ At(pc[t]) /\ batch[t] # None
      /\ \E x : At(x) /\ pc' = [pc EXCEPT ![t] = x]
  <2> USE DEF Places, InHand, Comparing, Goto
  <2>1. CASE Receive(t)
    BY <1>1, <2>1 DEF Receive
  <2>2. CASE ResolveType(t) \/ GetMethod(t)
    BY <1>1, <2>2 DEF ResolveType, GetMethod
  <2>3. CASE AddTypes(t) \/ AddMethod(t) \/ BuildGraph(t) \/ AddTestTypes(t)
    BY <1>1, <2>3 DEF AddTypes, AddMethod, BuildGraph, AddTestTypes
  <2>4. CASE LookupThrows(t) \/ NothingToAsk(t)
    BY <1>1, <2>4 DEF LookupThrows, NothingToAsk, Throw, Answer
  <2>5. CASE GetRawHistory(t) \/ StartNewDeserialization(t)
    BY <1>1, <2>5 DEF GetRawHistory, StartNewDeserialization
  <2>6. CASE Reads(t)
    <3>1. CASE ReadMethod(t) \/ ReadReport(t)
      <4>1. pc[t] \in {"methods", "reports"} /\ pc' = pc
        BY <3>1 DEF ReadMethod, ReadReport
      <4>2. pc' = [pc EXCEPT ![t] = pc[t]]
        BY <1>1, <4>1
      <4>3. QED
        BY <1>1, <4>1, <4>2
    <3>2. CASE ReadCount(t, "methodCount", "methods") \/ ReadCount(t, "methods", "reports")
      BY <1>1, <3>2 DEF ReadCount
    <3>3. QED
      BY <2>6, <3>1, <3>2 DEF Reads
  <2>7. CASE DisturbedReads(t) \/ DeserializationFails(t)
    BY <1>1, <2>7 DEF DisturbedReads, DeserializationFails, Using, Throw, Answer
  <2>8. CASE ComputeCoverage(t) \/ CoverageThrows(t)
    BY <1>1, <2>8 DEF ComputeCoverage, CoverageThrows, Deserialized, Throw, Answer
  <2>9. QED
    BY <2>1, <2>2, <2>3, <2>4, <2>5, <2>6, <2>7, <2>8
<1>5. QED
  BY <1>2, <1>3, <1>4 DEF Plain

LEMMA PlainKeeps ==
  ASSUME ServiceInv, NEW t \in Tasks, Plain(t)
  PROVE  ServiceInv'
<1>1. /\ batch' = batch /\ local' = local /\ outcome' = outcome /\ instances' = instances
      /\ heap' = heap /\ invoked' = invoked /\ todo' = todo
  BY DEF Plain, comparerVars, testVars, callVars
<1>2. ServiceTypes'
  BY <1>1 DEF ServiceInv, ServiceTypes, Plain
<1>3. \A u \in Tasks \ {t} : Unaffected(u)
  BY <1>1 DEF Plain, Unaffected, ServiceInv, ServiceTypes
<1>4. Served(batch[t], pc'[t], local'[t])
  BY <1>1 DEF Plain, Served, ServiceInv
<1>5. /\ Prepared(batch[t], pc'[t], local'[t], instances'[t], heap'[t])
      /\ Running(batch[t], pc'[t], local'[t], invoked'[t])
  BY DEF Plain, Prepared, Running, InHand
<1>6. QED
  BY <1>1, <1>2, <1>3, <1>4, <1>5, OneTask

LEMMA CountedIs ==
  ASSUME NEW l \in Locals, NEW success
  PROVE  /\ Counted(l, success) \in Locals
         /\ Counted(l, success).test = l.test + 1
         /\ Counted(l, success).expectedException = None
         /\ Counted(l, success).reproduced = l.reproduced + (IF success THEN 1 ELSE 0)
         /\ Counted(l, success).failed = l.failed + (IF success THEN 0 ELSE 1)
<1>1. /\ l.test \in Nat \ {0} /\ l.expected \in Values /\ l.reproduced \in Nat
      /\ l.failed \in Nat /\ l.entryMainWasSet \in BOOLEAN
      /\ l.assembly \in Seq(Characters) \cup {None}
      /\ l = [test |-> l.test, expectedException |-> l.expectedException,
              expected |-> l.expected, reproduced |-> l.reproduced, failed |-> l.failed,
              entryMainWasSet |-> l.entryMainWasSet, assembly |-> l.assembly]
  BY DEF Locals
<1> DEFINE won == IF success THEN 1 ELSE 0
           lost == IF success THEN 0 ELSE 1
<1>2. won \in Nat /\ lost \in Nat
  OBVIOUS
<1>3. Counted(l, success) =
        [l EXCEPT !.test = l.test + 1, !.expectedException = None,
                  !.reproduced = l.reproduced + won, !.failed = l.failed + lost]
  BY DEF Counted
<1> HIDE DEF won, lost
<1>4. Counted(l, success) =
        [test |-> l.test + 1, expectedException |-> None, expected |-> l.expected,
         reproduced |-> l.reproduced + won, failed |-> l.failed + lost,
         entryMainWasSet |-> l.entryMainWasSet, assembly |-> l.assembly]
  BY <1>1, <1>3
<1>5. Counted(l, success) \in Locals
  BY <1>1, <1>2, <1>4 DEF Locals
<1>6. QED
  BY <1>4, <1>5 DEF won, lost

(* A test is over. *)
LEMMA NextTestKeeps ==
  ASSUME ServiceInv, NEW t \in Tasks, NEW success, NextTest(t, success), pc[t] # "idle",
         UNCHANGED <<batch, outcome, instances, heap, invoked, todo>>
  PROVE  ServiceInv'
<1>1. /\ local' = [local EXCEPT ![t] = Counted(local[t], success)]
      /\ pc' = [pc EXCEPT ![t] = "resolve"]
  BY DEF NextTest, Goto
<1>2. local \in [Tasks -> Locals] /\ pc \in [Tasks -> Places] /\ local[t] \in Locals
  BY DEF ServiceInv, ServiceTypes
<1>3. Counted(local[t], success) \in Locals /\ Counted(local[t], success).expectedException = None
  BY <1>2, CountedIs
<1>4. /\ local' \in [Tasks -> Locals] /\ local'[t].expectedException = None
      /\ \A u \in Tasks \ {t} : local'[u] = local[u]
  BY <1>1, <1>2, <1>3
<1>5. /\ pc' \in [Tasks -> Places] /\ pc'[t] = "resolve"
      /\ \A u \in Tasks \ {t} : pc'[u] = pc[u]
  BY <1>1, <1>2 DEF Places
<1>6. ServiceTypes'
  BY <1>4, <1>5 DEF ServiceInv, ServiceTypes
<1>7. \A u \in Tasks \ {t} : Unaffected(u)
  BY <1>4, <1>5 DEF Unaffected
<1>8. Served(batch[t], pc'[t], local'[t])
  BY <1>4, <1>5 DEF Served, ServiceInv, InHand, Comparing
<1>9. /\ Prepared(batch[t], pc'[t], local'[t], instances'[t], heap'[t])
      /\ Running(batch[t], pc'[t], local'[t], invoked'[t])
  BY <1>5 DEF Prepared, Running, InHand
<1>10. QED
  BY <1>6, <1>7, <1>8, <1>9, OneTask

(* A test of a batch mentions no more addresses than its heap has objects. *)
LEMMA TestsAre ==
  ASSUME NEW b \in Batches, NEW t \in Tasks, b[t] # None
  PROVE  /\ Len(b[t]) \in Nat
         /\ \A n \in 1 .. Len(b[t]) : \E M \in Fitting : b[t][n] \in TestsOn(M)
<1> DEFINE T == {test \in TestsOn(Addresses) : \E M \in Fitting : test \in TestsOn(M)}
<1>1. b[t] \in Seq(T)
  BY ServiceAssumption
<1>2. \A test \in T : \E M \in Fitting : test \in TestsOn(M)
  OBVIOUS
<1> HIDE DEF T
<1>3. Len(b[t]) \in Nat /\ \A n \in 1 .. Len(b[t]) : b[t][n] \in T
  BY <1>1
<1>4. QED
  BY <1>2, <1>3

(* The heap of one request changes. *)
LEMMA HeapChanged ==
  ASSUME ServiceInv, NEW t \in Tasks, NEW h \in Heaps, heap' = [heap EXCEPT ![t] = h]
  PROVE  heap' \in [Tasks -> Heaps] /\ heap'[t] = h /\ \A u \in Tasks \ {t} : heap'[u] = heap[u]
BY DEF ServiceInv, ServiceTypes

LEMMA ExceptionIs ==
  ASSUME NEW e
  PROVE  ExceptionOf(e, None) \in ExceptionTypes \cup {None}
BY DEF ExceptionOf

LEMMA ResolveTestKeeps ==
  ASSUME ServiceInv, NEW t \in Tasks, ResolveTest(t)
  PROVE  ServiceInv'
<1> DEFINE n == local[t].test
           test == batch[t][n]
           r == Resolve(test)
           e == test.expected
<1>1. /\ pc[t] = "resolve" /\ n <= Len(batch[t]) /\ ~r.failed
      /\ heap' = [heap EXCEPT ![t] = r.heap]
      /\ instances' = [instances EXCEPT ![t] = r.instances]
      /\ local' = [local EXCEPT ![t].expected = Denoted(r, e),
                                ![t].expectedException = ExceptionOf(e, @)]
      /\ pc' = [pc EXCEPT ![t] = "setMain"]
      /\ batch' = batch /\ outcome' = outcome /\ invoked' = invoked /\ todo' = todo
  BY DEF ResolveTest, MoreTests, Fails, Tests, Test, Goto, callVars
<1>2. /\ batch \in Batches /\ pc \in [Tasks -> Places] /\ local \in [Tasks -> Locals]
      /\ outcome \in [Tasks -> Values] /\ DOMAIN instances = Tasks /\ heap \in [Tasks -> Heaps]
      /\ batch[t] # None /\ local[t].expectedException = None /\ local[t] \in Locals
  BY <1>1 DEF ServiceInv, ServiceTypes, Served, InHand, Comparing
<1>3. n \in 1 .. Len(batch[t])
  <2>1. n \in Nat \ {0} /\ Len(batch[t]) \in Nat
    BY <1>2, TestsAre DEF Locals
  <2>2. QED
    BY <1>1, <2>1
<1>4. PICK M \in Fitting : test \in TestsOn(M)
  BY <1>2, <1>3, TestsAre
<1> HIDE DEF test
<1>5. Resolver(r, M) /\ IsArrangedAs(r, test) /\ Denoted(r, e) \in Values
  BY <1>1, <1>4, ResolvedIs
<1> HIDE DEF r, e
<1>6. r \in Resolvers(M) /\ r.heap \in Heaps
  BY <1>5, ResolversAre DEF Resolver
<1>7. heap' \in [Tasks -> Heaps] /\ heap'[t] = r.heap /\ \A u \in Tasks \ {t} : heap'[u] = heap[u]
  BY <1>1, <1>6, HeapChanged
<1> DEFINE l == [local[t] EXCEPT !.expected = Denoted(r, e), !.expectedException = ExceptionOf(e, None)]
<1>8. /\ l \in Locals /\ l.test = n /\ l.expectedException = ExceptionOf(e, None)
  BY <1>2, <1>5, ExceptionIs DEF Locals
<1>9. local' = [local EXCEPT ![t] = l]
  BY <1>1, <1>2
<1> HIDE DEF l
<1>10. /\ local' \in [Tasks -> Locals] /\ local'[t] = l
       /\ \A u \in Tasks \ {t} : local'[u] = local[u]
  BY <1>2, <1>8, <1>9
<1>11. /\ pc' \in [Tasks -> Places] /\ pc'[t] = "setMain"
       /\ \A u \in Tasks \ {t} : pc'[u] = pc[u]
  BY <1>1, <1>2 DEF Places
<1>12. /\ DOMAIN instances' = Tasks /\ instances'[t] = r.instances
       /\ \A u \in Tasks \ {t} : instances'[u] = instances[u]
  BY <1>1, <1>2
<1>13. ServiceTypes'
  BY <1>1, <1>2, <1>7, <1>10, <1>11, <1>12 DEF ServiceInv, ServiceTypes
<1>14. \A u \in Tasks \ {t} : Unaffected(u)
  BY <1>1, <1>7, <1>10, <1>11, <1>12 DEF Unaffected
<1>15. Served(batch[t], pc'[t], local'[t])
  BY <1>1, <1>2, <1>8, <1>10, <1>11 DEF Served, InHand, Comparing
<1>16. Prepared(batch[t], "setMain", l, r.instances, r.heap)
  <2>1. Resolver([instances |-> r.instances, heap |-> r.heap, failed |-> FALSE], M)
    <3>1. [instances |-> r.instances, heap |-> r.heap, failed |-> FALSE] \in Resolvers(M)
      BY <1>6 DEF Resolvers
    <3>2. QED
      BY <1>5, <3>1 DEF Resolver
  <2>2. IsArrangedAs([instances |-> r.instances, heap |-> r.heap], test)
    <3> DEFINE q == [instances |-> r.instances, heap |-> r.heap]
    <3>1. q.instances = r.instances /\ q.heap = r.heap
      OBVIOUS
    <3> HIDE DEF q
    <3>2. \A x : Denoted(q, x) = Denoted(r, x)
      BY <3>1 DEF Denoted
    <3>3. ASSUME NEW a, NEW i
          PROVE  LastValue(q, test.arrange, a, i) = LastValue(r, test.arrange, a, i)
      BY <3>2 DEF LastValue
    <3>4. IsArrangedAs(q, test)
      BY <1>5, <3>1, <3>3 DEF IsArrangedAs
    <3>5. QED
      BY <3>4 DEF q
  <2>3. batch[t][l.test] = test
    BY <1>8 DEF test
  <2>4. \E K \in Fitting : /\ test \in TestsOn(K)
                           /\ Resolver([instances |-> r.instances, heap |-> r.heap, failed |-> FALSE], K)
    BY <1>4, <2>1
  <2>5. QED
    BY <1>8, <2>2, <2>3, <2>4 DEF Prepared, e
<1>17. /\ Prepared(batch[t], pc'[t], local'[t], instances'[t], heap'[t])
       /\ Running(batch[t], pc'[t], local'[t], invoked'[t])
  BY <1>7, <1>10, <1>11, <1>12, <1>16 DEF Running
<1>18. QED
  BY <1>1, <1>13, <1>14, <1>15, <1>17, OneTask

LEMMA SetEntryMainKeeps ==
  ASSUME ServiceInv, NEW t \in Tasks, SetEntryMain(t)
  PROVE  ServiceInv'
<1> DEFINE l == [local[t] EXCEPT !.entryMainWasSet = TRUE]
<1>1. /\ pc[t] = "setMain" /\ pc' = [pc EXCEPT ![t] = "setThread"]
      /\ local' = [local EXCEPT ![t].entryMainWasSet = TRUE]
      /\ batch' = batch /\ outcome' = outcome /\ instances' = instances /\ heap' = heap
      /\ invoked' = invoked /\ todo' = todo
  BY DEF SetEntryMain, Goto, comparerVars, callVars
<1>2. pc \in [Tasks -> Places] /\ local \in [Tasks -> Locals] /\ local[t] \in Locals
  BY DEF ServiceInv, ServiceTypes
<1>3. /\ l \in Locals /\ l.test = local[t].test
      /\ l.expectedException = local[t].expectedException
  BY <1>2 DEF Locals
<1>4. local' = [local EXCEPT ![t] = l]
  BY <1>1, <1>2
<1> HIDE DEF l
<1>5. /\ local' \in [Tasks -> Locals] /\ local'[t] = l
      /\ \A u \in Tasks \ {t} : local'[u] = local[u]
  BY <1>2, <1>3, <1>4
<1>6. /\ pc' \in [Tasks -> Places] /\ pc'[t] = "setThread"
      /\ \A u \in Tasks \ {t} : pc'[u] = pc[u]
  BY <1>1, <1>2 DEF Places
<1>7. ServiceTypes'
  BY <1>1, <1>5, <1>6 DEF ServiceInv, ServiceTypes
<1>8. \A u \in Tasks \ {t} : Unaffected(u)
  BY <1>1, <1>5, <1>6 DEF Unaffected
<1>9. /\ Served(batch[t], pc[t], local[t])
      /\ Prepared(batch[t], pc[t], local[t], instances[t], heap[t])
  BY DEF ServiceInv
<1>10. Served(batch[t], pc'[t], local'[t])
  BY <1>1, <1>3, <1>5, <1>6, <1>9 DEF Served, InHand, Comparing
<1>11. /\ Prepared(batch[t], pc'[t], local'[t], instances'[t], heap'[t])
       /\ Running(batch[t], pc'[t], local'[t], invoked'[t])
  BY <1>1, <1>3, <1>5, <1>6, <1>9 DEF Prepared, Running, InHand
<1>12. QED
  BY <1>1, <1>7, <1>8, <1>10, <1>11, OneTask

LEMMA SetThreadKeeps ==
  ASSUME ServiceInv, NEW t \in Tasks, SetCurrentThreadId(t)
  PROVE  ServiceInv'
<1>1. /\ pc[t] = "setThread" /\ pc' = [pc EXCEPT ![t] = "invoke"] /\ local' = local
      /\ batch' = batch /\ outcome' = outcome /\ instances' = instances /\ heap' = heap
      /\ invoked' = invoked /\ todo' = todo
  BY DEF SetCurrentThreadId, Goto, comparerVars, testVars, callVars
<1>2. /\ pc' \in [Tasks -> Places] /\ pc'[t] = "invoke"
      /\ \A u \in Tasks \ {t} : pc'[u] = pc[u]
  BY <1>1 DEF ServiceInv, ServiceTypes, Places
<1>3. ServiceTypes'
  BY <1>1, <1>2 DEF ServiceInv, ServiceTypes
<1>4. \A u \in Tasks \ {t} : Unaffected(u)
  BY <1>1, <1>2 DEF Unaffected
<1>5. Served(batch[t], pc'[t], local'[t])
  BY <1>1, <1>2 DEF ServiceInv, Served, InHand, Comparing
<1>6. /\ Prepared(batch[t], pc'[t], local'[t], instances'[t], heap'[t])
      /\ Running(batch[t], pc'[t], local'[t], invoked'[t])
  BY <1>1, <1>2 DEF ServiceInv, Prepared, Running, InHand
<1>7. QED
  BY <1>1, <1>3, <1>4, <1>5, <1>6, OneTask

(* Another assembly is looked up. *)
LEMMA AssemblyIs ==
  ASSUME NEW M, NEW test \in TestsOn(M)
  PROVE  Assemblies(test) \subseteq Seq(Characters)
<1>1. test.method \in Methods
  BY DEF TestsOn
<1>2. Assembly(test.method) \in Seq(Characters)
  BY <1>1, ServiceAssumption DEF Assembly, MethodInfos
<1>3. \A a \in Addresses : AssemblyOf[TypeOf[a]] \in Seq(Characters)
  BY ServiceAssumption, ResolutionAssumption
<1>4. QED
  BY <1>2, <1>3 DEF Assemblies

LEMMA FindTypesKeeps ==
  ASSUME ServiceInv, NEW t \in Tasks, FindTypes(t)
  PROVE  ServiceInv'
<1>1. /\ pc[t] = "resolve" /\ local[t].test <= Len(batch[t])
      /\ pc' = [pc EXCEPT ![t] = "addTestTypes"]
      /\ batch' = batch /\ outcome' = outcome /\ instances' = instances /\ heap' = heap
      /\ invoked' = invoked /\ todo' = todo
  BY DEF FindTypes, MoreTests, Tests, Goto, comparerVars, callVars
<1>2. PICK a \in Assemblies(Test(t)) : local' = [local EXCEPT ![t].assembly = a]
  BY DEF FindTypes
<1>3. /\ batch \in Batches /\ pc \in [Tasks -> Places] /\ local \in [Tasks -> Locals]
      /\ local[t] \in Locals /\ batch[t] # None /\ local[t].expectedException = None
  BY <1>1 DEF ServiceInv, ServiceTypes, Served, InHand, Comparing
<1>4. a \in Seq(Characters)
  <2>1. local[t].test \in 1 .. Len(batch[t])
    <3>1. local[t].test \in Nat \ {0} /\ Len(batch[t]) \in Nat
      BY <1>3, TestsAre DEF Locals
    <3>2. QED
      BY <1>1, <3>1
  <2>2. PICK M \in Fitting : Test(t) \in TestsOn(M)
    BY <1>3, <2>1, TestsAre DEF Test
  <2>3. QED
    BY <1>2, <2>2, AssemblyIs
<1> DEFINE l == [local[t] EXCEPT !.assembly = a]
<1>5. l \in Locals /\ l.expectedException = None
  BY <1>3, <1>4 DEF Locals
<1>6. local' = [local EXCEPT ![t] = l]
  BY <1>2, <1>3
<1> HIDE DEF l
<1>7. /\ local' \in [Tasks -> Locals] /\ local'[t] = l
      /\ \A u \in Tasks \ {t} : local'[u] = local[u]
  BY <1>3, <1>5, <1>6
<1>8. /\ pc' \in [Tasks -> Places] /\ pc'[t] = "addTestTypes"
      /\ \A u \in Tasks \ {t} : pc'[u] = pc[u]
  BY <1>1, <1>3 DEF Places
<1>9. ServiceTypes'
  BY <1>1, <1>7, <1>8 DEF ServiceInv, ServiceTypes
<1>10. \A u \in Tasks \ {t} : Unaffected(u)
  BY <1>1, <1>7, <1>8 DEF Unaffected
<1>11. Served(batch[t], pc'[t], local'[t])
  BY <1>3, <1>5, <1>7, <1>8 DEF Served, InHand, Comparing
<1>12. /\ Prepared(batch[t], pc'[t], local'[t], instances'[t], heap'[t])
       /\ Running(batch[t], pc'[t], local'[t], invoked'[t])
  BY <1>8 DEF Prepared, Running, InHand
<1>13. QED
  BY <1>1, <1>9, <1>10, <1>11, <1>12, OneTask

(* An outcome is one of a test in hand. *)
LEMMA OutcomeIs ==
  ASSUME ServiceInv, NEW t \in Tasks, pc[t] \in InHand, NEW o \in Test(t).outcomes
  PROVE  \E M \in Fitting : Test(t) \in TestsOn(M) /\ o \in Outcomes(M)
<1>1. PICK M \in Fitting : Test(t) \in TestsOn(M)
  BY DEF ServiceInv, Prepared, Test
<1>2. o \in Outcomes(M)
  BY <1>1 DEF TestsOn
<1>3. QED
  BY <1>1, <1>2

LEMMA InvokeKeeps ==
  ASSUME ServiceInv, NEW t \in Tasks, Invoke(t)
  PROVE  ServiceInv'
<1>1. /\ pc[t] = "invoke" /\ pc' = [pc EXCEPT ![t] = "run"] /\ local' = local
      /\ batch' = batch /\ outcome' = outcome /\ instances' = instances /\ heap' = heap
  BY DEF Invoke, Goto, comparerVars
<1>2. PICK o \in Test(t).outcomes : /\ invoked' = [invoked EXCEPT ![t] = o]
                                    /\ todo' = [todo EXCEPT ![t] = o.trace]
  BY DEF Invoke
<1>3. o.trace \in Seq(Events)
  <2>1. \E M \in Fitting : o \in Outcomes(M)
    BY <1>1, OutcomeIs DEF InHand
  <2>2. QED
    BY <2>1 DEF Outcomes
<1>4. /\ todo' \in [Tasks -> Seq(Events)] /\ DOMAIN invoked' = Tasks /\ invoked'[t] = o
      /\ \A u \in Tasks \ {t} : invoked'[u] = invoked[u]
  BY <1>2, <1>3 DEF ServiceInv, ServiceTypes
<1>5. /\ pc' \in [Tasks -> Places] /\ pc'[t] = "run"
      /\ \A u \in Tasks \ {t} : pc'[u] = pc[u]
  BY <1>1 DEF ServiceInv, ServiceTypes, Places
<1>6. ServiceTypes'
  BY <1>1, <1>4, <1>5 DEF ServiceInv, ServiceTypes
<1>7. \A u \in Tasks \ {t} : Unaffected(u)
  BY <1>1, <1>4, <1>5 DEF Unaffected
<1>8. Served(batch[t], pc'[t], local'[t])
  BY <1>1, <1>5 DEF ServiceInv, Served, InHand, Comparing
<1>9. Prepared(batch[t], pc'[t], local'[t], instances'[t], heap'[t])
  BY <1>1, <1>5 DEF ServiceInv, Prepared, InHand
<1>10. Running(batch[t], pc'[t], local'[t], invoked'[t])
  BY <1>1, <1>4 DEF Running, Test
<1>11. QED
  BY <1>1, <1>6, <1>7, <1>8, <1>9, <1>10, OneTask

(* What goes on in an invocation is no business of tests. *)
LEMMA EventIs ==
  ASSUME ServiceInv, NEW t \in Tasks, NEW kind, Event(t, kind)
  PROVE  /\ pc[t] = "run" /\ Head(todo[t]) \in Events /\ Head(todo[t]).kind = kind
         /\ todo' \in [Tasks -> Seq(Events)]
BY DEF Event, ServiceInv, ServiceTypes

LEMMA EventKeeps ==
  ASSUME ServiceInv, NEW t \in Tasks, NEW kind, Event(t, kind)
  PROVE  ServiceInv'
<1>1. /\ UNCHANGED <<batch, pc, local, outcome, instances, heap, invoked>>
      /\ todo' \in [Tasks -> Seq(Events)]
  BY EventIs DEF Event, comparerVars
<1>2. QED
  BY <1>1 DEF ServiceInv, ServiceTypes

LEMMA EventSteps ==
  ASSUME NEW t \in Tasks, Enter(t) \/ Block(t) \/ Leave(t) \/ Unwind(t)
  PROVE  \E kind : Event(t, kind)
BY DEF Enter, Block, Leave, Unwind

(* A call may write to what its test arranged, and what it returns is a value. *)
LEMMA ReturnedIs ==
  ASSUME ServiceInv, NEW t \in Tasks, pc[t] = "run",
         NEW o \in Test(t).outcomes, o.kind = "returns",
         NEW called, called = [instances |-> instances[t], heap |-> heap[t], failed |-> FALSE],
         NEW over, over = InstantiateExpression(Arranged(called, o.writes), o.value)
  PROVE  Denoted(over, o.value) \in Values /\ over.heap \in Heaps
<1>1. PICK M \in Fitting : Test(t) \in TestsOn(M) /\ Resolver(called, M)
  BY DEF ServiceInv, Prepared, InHand, Test
<1>2. o \in Outcomes(M)
  BY <1>1 DEF TestsOn
<1>3. /\ o.writes \in Seq(Writes(M)) /\ o.value \in Expressions(M) /\ o.value # Unknown
  BY <1>2 DEF Outcomes
<1>4. o.writes \in Seq(Statements(M))
  <2>1. Writes(M) \subseteq Statements(M)
    BY DEF Writes
  <2>2. QED
    BY <1>3, <2>1
<1> DEFINE p == Arranged(called, o.writes)
<1>5. ~called.failed
  OBVIOUS
<1>6. Resolver(p, M) /\ ~p.failed
  BY <1>1, <1>3, <1>4, <1>5, ArrangedIs
<1> HIDE DEF p
<1>7. /\ Resolver(over, M)
      /\ ~over.failed => o.value # Unknown /\ Has(over, o.value)
      /\ o.value # Unknown /\ ~p.failed => ~over.failed
  <2>1. over = InstantiateExpression(p, o.value)
    BY DEF p
  <2>2. QED
    BY <1>3, <1>6, <2>1, InstantiateIs
<1>8. Denoted(over, o.value) \in Values
  BY <1>3, <1>6, <1>7, DenotedIs
<1>9. QED
  BY <1>7, <1>8, ResolversAre DEF Resolver

LEMMA ReturnsKeeps ==
  ASSUME ServiceInv, NEW t \in Tasks, Returns(t)
  PROVE  ServiceInv'
<1> DEFINE called == [instances |-> instances[t], heap |-> heap[t], failed |-> FALSE]
           over(o) == InstantiateExpression(Arranged(called, o.writes), o.value)
           o == invoked[t]
<1>1. /\ pc[t] = "run" /\ pc' = [pc EXCEPT ![t] = "begin"] /\ batch' = batch
      /\ local' = local /\ instances' = instances /\ invoked' = invoked /\ todo' = todo
  BY DEF Returns, Over, Goto, callVars
<1>2. /\ o \in Test(t).outcomes
      /\ o.kind = "returns" /\ heap' = [heap EXCEPT ![t] = over(o).heap]
      /\ outcome' = [outcome EXCEPT ![t] = Denoted(over(o), o.value)]
  BY <1>1 DEF Returns, Over, ServiceInv, Running, Test
<1>3. Denoted(over(o), o.value) \in Values /\ over(o).heap \in Heaps
  BY <1>1, <1>2, ReturnedIs
<1> HIDE DEF over
<1>4. heap' \in [Tasks -> Heaps] /\ \A u \in Tasks \ {t} : heap'[u] = heap[u]
  BY <1>2, <1>3, HeapChanged
<1>5. /\ pc' \in [Tasks -> Places] /\ pc'[t] = "begin"
      /\ \A u \in Tasks \ {t} : pc'[u] = pc[u]
  BY <1>1 DEF ServiceInv, ServiceTypes, Places
<1>6. outcome' \in [Tasks -> Values]
  BY <1>2, <1>3 DEF ServiceInv, ServiceTypes
<1>7. ServiceTypes'
  BY <1>1, <1>4, <1>5, <1>6 DEF ServiceInv, ServiceTypes
<1>8. \A u \in Tasks \ {t} : Unaffected(u)
  BY <1>1, <1>4, <1>5 DEF Unaffected
<1>9. Served(batch[t], pc'[t], local'[t])
  BY <1>1, <1>5 DEF ServiceInv, Served, InHand, Comparing
<1>10. /\ Prepared(batch[t], pc'[t], local'[t], instances'[t], heap'[t])
       /\ Running(batch[t], pc'[t], local'[t], invoked'[t])
  BY <1>5 DEF Prepared, Running, InHand
<1>11. QED
  BY <1>1, <1>7, <1>8, <1>9, <1>10, OneTask

(* Comparisons change nothing of tests but when they begin and end. *)
LEMMA ComparingKeeps ==
  ASSUME ServiceInv, NEW t \in Tasks, BeginComparison(t) \/ CompareResults(t)
  PROVE  ServiceInv'
<1>1. /\ pc[t] \in Comparing /\ pc' \in {pc, [pc EXCEPT ![t] = "compare"]}
      /\ batch' = batch /\ local' = local /\ outcome' = outcome /\ instances' = instances
      /\ invoked' = invoked /\ todo' = todo
  BY DEF BeginComparison, CompareResults, Goto, Comparing, testVars, callVars
<1>2. heap' = heap
  BY DEF BeginComparison, Begin, CompareResults, Compare, EqualAtOnce, DifferentAtOnce,
     AlreadyCompared, Descend, DifferentLength, NextField, AllEqual, SomeDifferent, Reply
<1>3. /\ pc' \in [Tasks -> Places] /\ pc'[t] \in Comparing
      /\ \A u \in Tasks \ {t} : pc'[u] = pc[u]
  BY <1>1 DEF ServiceInv, ServiceTypes, Places, Comparing
<1>4. ServiceTypes'
  BY <1>1, <1>2, <1>3 DEF ServiceInv, ServiceTypes
<1>5. \A u \in Tasks \ {t} : Unaffected(u)
  BY <1>1, <1>2, <1>3 DEF Unaffected
<1>6. Served(batch[t], pc'[t], local'[t])
  BY <1>1, <1>3 DEF ServiceInv, Served, InHand, Comparing
<1>7. /\ Prepared(batch[t], pc'[t], local'[t], instances'[t], heap'[t])
      /\ Running(batch[t], pc'[t], local'[t], invoked'[t])
  BY <1>3 DEF Prepared, Running, InHand, Comparing
<1>8. QED
  BY <1>1, <1>4, <1>5, <1>6, <1>7, OneTask

LEMMA ServiceStep == ServiceInv /\ [Next]_vars => ServiceInv'
<1>1. ASSUME ServiceInv, NEW t \in Tasks, Receive(t) \/ Execute(t)
      PROVE  ServiceInv'
  <2>1. CASE \/ Receive(t) \/ ResolveType(t) \/ AddTypes(t) \/ GetMethod(t) \/ AddMethod(t)
             \/ BuildGraph(t) \/ LookupThrows(t) \/ AddTestTypes(t) \/ GetRawHistory(t)
             \/ NothingToAsk(t) \/ StartNewDeserialization(t) \/ Reads(t)
             \/ DisturbedReads(t) \/ DeserializationFails(t)
             \/ ComputeCoverage(t) \/ CoverageThrows(t)
    BY <1>1, <2>1, PlainSteps, PlainKeeps
  <2>2. CASE ResolveFails(t) \/ TestTypesThere(t)
    <3>1. /\ NextTest(t, FALSE) /\ pc[t] # "idle"
          /\ UNCHANGED <<batch, outcome, instances, heap, invoked, todo>>
      BY <2>2 DEF ResolveFails, TestTypesThere, MoreTests, comparerVars, callVars
    <3>2. QED
      BY <1>1, <3>1, NextTestKeeps
  <2>3. CASE ResolveTest(t)
    BY <1>1, <2>3, ResolveTestKeeps
  <2>4. CASE SetEntryMain(t)
    BY <1>1, <2>4, SetEntryMainKeeps
  <2>5. CASE SetCurrentThreadId(t)
    BY <1>1, <2>5, SetThreadKeeps
  <2>6. CASE Rejected(t)
    <3>1. /\ NextTest(t, FALSE) /\ pc[t] # "idle"
          /\ UNCHANGED <<batch, outcome, instances, heap, invoked, todo>>
      BY <2>6 DEF Rejected, comparerVars, callVars
    <3>2. QED
      BY <1>1, <3>1, NextTestKeeps
  <2>7. CASE Throws(t)
    <3>1. pc[t] # "idle" /\ UNCHANGED <<batch, outcome, instances, heap, invoked, todo>>
      BY <2>7 DEF Throws, Over, comparerVars, callVars
    <3>2. \E success : NextTest(t, success)
      BY <2>7 DEF Throws
    <3>3. QED
      BY <1>1, <3>1, <3>2, NextTestKeeps
  <2>8. CASE Returns(t)
    BY <1>1, <2>8, ReturnsKeeps
  <2>9. CASE BeginComparison(t) \/ CompareResults(t)
    BY <1>1, <2>9, ComparingKeeps
  <2>10. CASE Compared(t)
    <3>1. /\ NextTest(t, answer[t]) /\ pc[t] # "idle"
          /\ UNCHANGED <<batch, outcome, instances, heap, invoked, todo>>
      BY <2>10 DEF Compared, callVars
    <3>2. QED
      BY <1>1, <3>1, NextTestKeeps
  <2>11. CASE FindTypes(t)
    BY <1>1, <2>11, FindTypesKeeps
  <2>12. CASE Invoke(t)
    BY <1>1, <2>12, InvokeKeeps
  <2>13. CASE Enter(t) \/ Block(t) \/ Leave(t) \/ Unwind(t)
    BY <1>1, <2>13, EventSteps, EventKeeps
  <2>14. QED
    BY <1>1, <2>1, <2>2, <2>3, <2>4, <2>5, <2>6, <2>7, <2>8, <2>9, <2>10, <2>11, <2>12,
       <2>13 DEF Execute
<1>2. ASSUME ServiceInv, UNCHANGED vars
      PROVE  ServiceInv'
  <2>1. UNCHANGED <<batch, pc, local, outcome, instances, heap, invoked, todo>>
    BY <1>2 DEF vars, testVars, callVars, comparerVars
  <2>2. QED
    BY <1>2, <2>1 DEF ServiceInv, ServiceTypes
<1>3. QED
  BY <1>1, <1>2 DEF Next, AllServed

(* Wherever the statements of a test put its objects, they are there, with *)
(* the fields as the last statements about them say, until it is called.   *)
THEOREM ResolvedAsArrangedCorrect == Spec => []ResolvedAsArranged
<1>1. Init => ServiceInv
  BY ServiceInitial
<1>2. ServiceInv /\ [Next]_vars => ServiceInv'
  BY ServiceStep
<1>3. ServiceInv => ResolvedAsArranged
  BY DEF ServiceInv, Prepared, InHand, ResolvedAsArranged, Test
<1>4. QED
  BY <1>1, <1>2, <1>3, PTL DEF Spec

-----------------------------------------------------------------------------
(* The requests together compare as ObjectsComparison says: between        *)
(* comparisons heaps change, and a comparison is begun with values.        *)
LEMMA ComparisonInitial == Init => ComparisonInit
<1>1. NoObjects \in Heaps
  BY DEF NoObjects, Heaps
<1>2. QED
  BY <1>1 DEF Init, ComparisonInit

LEMMA ComparisonStep == ServiceInv /\ [Next]_vars => [ComparisonNext]_comparerVars
<1>1. ASSUME ServiceInv, NEW t \in Tasks, Receive(t) \/ Execute(t)
      PROVE  [ComparisonNext]_comparerVars
  <2>1. CASE \/ Receive(t) \/ ResolveType(t) \/ AddTypes(t) \/ GetMethod(t) \/ AddMethod(t)
             \/ BuildGraph(t) \/ LookupThrows(t) \/ AddTestTypes(t) \/ GetRawHistory(t)
             \/ NothingToAsk(t) \/ StartNewDeserialization(t) \/ Reads(t)
             \/ DisturbedReads(t) \/ DeserializationFails(t)
             \/ ComputeCoverage(t) \/ CoverageThrows(t)
    <3>1. Plain(t)
      BY <1>1, <2>1, PlainSteps
    <3>2. QED
      BY <3>1 DEF Plain
  <2>2. CASE \/ FindTypes(t) \/ TestTypesThere(t) \/ ResolveFails(t) \/ SetEntryMain(t)
             \/ SetCurrentThreadId(t) \/ Invoke(t) \/ Rejected(t) \/ Throws(t)
             \/ Enter(t) \/ Block(t) \/ Leave(t) \/ Unwind(t)
    BY <2>2 DEF FindTypes, TestTypesThere, ResolveFails, SetEntryMain, SetCurrentThreadId,
       Invoke, Rejected, Throws, Enter, Block, Leave, Unwind, Event
  <2>3. CASE ResolveTest(t) \/ Returns(t) \/ Compared(t)
    <3>1. Change(t)
      BY <2>3 DEF ResolveTest, Returns, Compared
    <3>2. QED
      BY <3>1 DEF ComparisonNext
  <2>4. CASE BeginComparison(t)
    <3>1. Begin(t, local[t].expected, outcome[t])
      BY <2>4 DEF BeginComparison
    <3>2. local[t].expected \in Values /\ outcome[t] \in Values
      BY <1>1 DEF ServiceInv, ServiceTypes, Locals
    <3>3. QED
      BY <3>1, <3>2 DEF ComparisonNext
  <2>5. CASE CompareResults(t)
    BY <2>5 DEF CompareResults, ComparisonNext
  <2>6. QED
    BY <1>1, <2>1, <2>2, <2>3, <2>4, <2>5 DEF Execute
<1>2. ASSUME UNCHANGED vars
      PROVE  [ComparisonNext]_comparerVars
  BY <1>2 DEF vars
<1>3. QED
  BY <1>1, <1>2 DEF Next, AllServed

(* The service implements ObjectsComparison. *)
THEOREM ServiceCompares == Spec => ComparisonSpec
<1>1. Init => ServiceInv /\ ComparisonInit
  BY ServiceInitial, ComparisonInitial
<1>2. ServiceInv /\ [Next]_vars => ServiceInv' /\ [ComparisonNext]_comparerVars
  BY ServiceStep, ComparisonStep
<1>3. QED
  BY <1>1, <1>2, PTL DEF Spec, ComparisonSpec

(* So what is proved of comparisons is true of those of the service. *)
THEOREM ServiceVerdictCorrect == KeysAreIdentities => (Spec => []VerdictIsBisimilarity)
BY ServiceCompares, ComparisonCorrect, PTL

THEOREM ServiceDepthCorrect == Spec => []DepthIsBounded
<1>1. IsFiniteSet(Objects)
  BY ResolutionAssumption
<1>2. QED
  BY <1>1, ServiceCompares, DepthCorrect, PTL

-----------------------------------------------------------------------------
(* What the tests handled so far should count, and how the test whose      *)
(* result is compared will: j are the verdicts of the request's tests, g   *)
(* is what its comparer was asked.                                         *)
Wins(j, n) == {i \in 1 .. n : j[i]}
Losses(j, n)  == {i \in 1 .. n : ~j[i]}

Tallied(p, l, j) ==
  /\ Len(j) = IF p \in Comparing THEN l.test ELSE l.test - 1
  /\ l.reproduced = Cardinality(Wins(j, l.test - 1))
  /\ l.failed = Cardinality(Losses(j, l.test - 1))

Judged(p, l, j, h, o, g) ==
  /\ p = "begin" => (j[l.test] <=> Bisimilar(h, l.expected, o))
  /\ p = "compare" => (j[l.test] <=> Bisimilar(h, g[1], g[2]))

TallyInv ==
  /\ asExpected \in [Tasks -> Seq(BOOLEAN)]
  /\ \A t \in Tasks :
       /\ Tallied(pc[t], local[t], asExpected[t])
       /\ Judged(pc[t], local[t], asExpected[t], heap[t], outcome[t], goal[t])

LEMMA TallyInitial == Init => TallyInv
<1>1. SUFFICES ASSUME Init
               PROVE  TallyInv
  OBVIOUS
<1>2. Wins(<<>>, 0) = {} /\ Losses(<<>>, 0) = {} /\ Cardinality({}) = 0
  BY FS_EmptySet DEF Wins, Losses
<1>3. asExpected \in [Tasks -> Seq(BOOLEAN)]
  BY <1>1 DEF Init
<1>4. ASSUME NEW t \in Tasks
      PROVE  /\ Tallied(pc[t], local[t], asExpected[t])
             /\ Judged(pc[t], local[t], asExpected[t], heap[t], outcome[t], goal[t])
  <2>1. pc[t] = "idle" /\ local[t] = NewLocals /\ asExpected[t] = <<>>
    BY <1>1 DEF Init
  <2>2. QED
    <3> DEFINE l == NewLocals
    <3>1. l.test = 1 /\ l.reproduced = 0 /\ l.failed = 0
      BY DEF NewLocals
    <3>2. Len(<<>>) = l.test - 1 /\ Wins(<<>>, l.test - 1) = {} /\ Losses(<<>>, l.test - 1) = {}
      BY <1>2, <3>1
    <3> HIDE DEF l
    <3>3. Tallied("idle", l, <<>>)
      BY <1>2, <3>1, <3>2 DEF Tallied, Comparing
    <3>4. QED
      BY <2>1, <3>3 DEF Judged, l
<1>5. QED
  BY <1>3, <1>4 DEF TallyInv

(* One more verdict counts as what it says. *)
LEMMA TallyNext ==
  ASSUME NEW j \in Seq(BOOLEAN), NEW n \in Nat \ {0}, n <= Len(j)
  PROVE  /\ Cardinality(Wins(j, n)) = Cardinality(Wins(j, n - 1)) + (IF j[n] THEN 1 ELSE 0)
         /\ Cardinality(Losses(j, n)) = Cardinality(Losses(j, n - 1)) + (IF j[n] THEN 0 ELSE 1)
<1>1. IsFiniteSet(Wins(j, n - 1)) /\ IsFiniteSet(Losses(j, n - 1))
  <2>1. IsFiniteSet(1 .. n - 1)
    BY FS_Interval
  <2>2. Wins(j, n - 1) \subseteq 1 .. n - 1 /\ Losses(j, n - 1) \subseteq 1 .. n - 1
    BY DEF Wins, Losses
  <2>3. QED
    BY <2>1, <2>2, FS_Subset
<1>2. Cardinality(Wins(j, n - 1)) \in Nat /\ Cardinality(Losses(j, n - 1)) \in Nat
  BY <1>1, FS_CardinalityType
<1>3. n \notin Wins(j, n - 1) /\ n \notin Losses(j, n - 1)
  BY DEF Wins, Losses
<1>4. 1 .. n = (1 .. n - 1) \cup {n}
  OBVIOUS
<1>5. CASE j[n]
  <2>1. Wins(j, n) = Wins(j, n - 1) \cup {n} /\ Losses(j, n) = Losses(j, n - 1)
    BY <1>4, <1>5 DEF Wins, Losses
  <2>2. Cardinality(Wins(j, n - 1) \cup {n}) = Cardinality(Wins(j, n - 1)) + 1
    BY <1>1, <1>3, FS_AddElement
  <2>3. QED
    BY <1>2, <1>5, <2>1, <2>2
<1>6. CASE ~j[n]
  <2>1. Losses(j, n) = Losses(j, n - 1) \cup {n} /\ Wins(j, n) = Wins(j, n - 1)
    BY <1>4, <1>6 DEF Wins, Losses
  <2>2. Cardinality(Losses(j, n - 1) \cup {n}) = Cardinality(Losses(j, n - 1)) + 1
    BY <1>1, <1>3, FS_AddElement
  <2>3. QED
    BY <1>2, <1>6, <2>1, <2>2
<1>7. QED
  BY <1>5, <1>6

LEMMA AppendedVerdict ==
  ASSUME NEW j \in Seq(BOOLEAN), NEW v \in BOOLEAN
  PROVE  /\ Append(j, v) \in Seq(BOOLEAN) /\ Len(Append(j, v)) = Len(j) + 1
         /\ Append(j, v)[Len(j) + 1] = v
         /\ Wins(Append(j, v), Len(j)) = Wins(j, Len(j))
         /\ Losses(Append(j, v), Len(j)) = Losses(j, Len(j))
<1>1. /\ Append(j, v) \in Seq(BOOLEAN) /\ Len(Append(j, v)) = Len(j) + 1
      /\ Append(j, v)[Len(j) + 1] = v /\ Len(j) \in Nat
  OBVIOUS
<1>2. \A i \in 1 .. Len(j) : Append(j, v)[i] = j[i]
  OBVIOUS
<1>3. QED
  BY <1>1, <1>2 DEF Wins, Losses

(* One request is counted; the others are left alone. *)
Untouched(u) ==
  /\ pc'[u] = pc[u] /\ local'[u] = local[u] /\ asExpected'[u] = asExpected[u]
  /\ heap'[u] = heap[u] /\ outcome'[u] = outcome[u] /\ goal'[u] = goal[u]

LEMMA OneTally ==
  ASSUME TallyInv, NEW t \in Tasks, asExpected' \in [Tasks -> Seq(BOOLEAN)],
         \A u \in Tasks \ {t} : Untouched(u),
         Tallied(pc'[t], local'[t], asExpected'[t]),
         Judged(pc'[t], local'[t], asExpected'[t], heap'[t], outcome'[t], goal'[t])
  PROVE  TallyInv'
<1>1. ASSUME NEW u \in Tasks
      PROVE  /\ Tallied(pc'[u], local'[u], asExpected'[u])
             /\ Judged(pc'[u], local'[u], asExpected'[u], heap'[u], outcome'[u], goal'[u])
  <2>1. CASE u = t
    BY <2>1
  <2>2. CASE u # t
    <3>1. Untouched(u)
      BY <2>2
    <3>2. /\ Tallied(pc[u], local[u], asExpected[u])
          /\ Judged(pc[u], local[u], asExpected[u], heap[u], outcome[u], goal[u])
      BY DEF TallyInv
    <3>3. QED
      BY <3>1, <3>2 DEF Untouched
  <2>3. QED
    BY <2>1, <2>2
<1>2. QED
  BY <1>1 DEF TallyInv

(* Steps that count nothing: outside of comparisons, with the counts left  *)
(* as they are.                                                            *)
LEMMA UncountedKeeps ==
  ASSUME TallyInv, NEW t \in Tasks, asExpected' = asExpected,
         \A u \in Tasks \ {t} : Untouched(u),
         pc[t] \notin Comparing, pc'[t] \notin Comparing,
         local'[t].test = local[t].test, local'[t].reproduced = local[t].reproduced,
         local'[t].failed = local[t].failed
  PROVE  TallyInv'
<1>1. asExpected' \in [Tasks -> Seq(BOOLEAN)] /\ Tallied(pc[t], local[t], asExpected[t])
  BY DEF TallyInv
<1>2. Tallied(pc'[t], local'[t], asExpected'[t])
  BY <1>1 DEF Tallied
<1>3. Judged(pc'[t], local'[t], asExpected'[t], heap'[t], outcome'[t], goal'[t])
  BY DEF Judged, Comparing
<1>4. QED
  BY <1>1, <1>2, <1>3, OneTally

(* A test is judged, and counted as it was judged, in one step. *)
LEMMA JudgedAndCounted ==
  ASSUME ServiceInv, TallyInv, NEW t \in Tasks, pc[t] \notin Comparing,
         NEW v \in BOOLEAN, NEW success, v <=> success,
         Judge(t, v), NextTest(t, success), UNCHANGED <<heap, outcome, goal>>
  PROVE  TallyInv'
<1> DEFINE l == local[t]
           k == local'[t]
           j == asExpected[t]
<1>1. /\ local \in [Tasks -> Locals] /\ pc \in [Tasks -> Places] /\ l \in Locals
      /\ asExpected \in [Tasks -> Seq(BOOLEAN)] /\ j \in Seq(BOOLEAN)
      /\ Tallied(pc[t], l, j)
  BY DEF ServiceInv, ServiceTypes, TallyInv
<1>2. /\ local' = [local EXCEPT ![t] = Counted(l, success)]
      /\ pc' = [pc EXCEPT ![t] = "resolve"]
      /\ asExpected' = [asExpected EXCEPT ![t] = Append(j, v)]
  BY DEF NextTest, Goto, Judge
<1>3. Append(j, v) \in Seq(BOOLEAN)
  BY <1>1, AppendedVerdict
<1>4. /\ asExpected' \in [Tasks -> Seq(BOOLEAN)] /\ asExpected'[t] = Append(j, v)
      /\ \A u \in Tasks \ {t} : asExpected'[u] = asExpected[u]
  BY <1>1, <1>2, <1>3
<1>5. /\ k = Counted(l, success) /\ pc'[t] = "resolve"
      /\ \A u \in Tasks \ {t} : local'[u] = local[u] /\ pc'[u] = pc[u]
  BY <1>1, <1>2
<1>6. /\ l.test \in Nat \ {0} /\ k.test = l.test + 1
      /\ k.reproduced = l.reproduced + (IF success THEN 1 ELSE 0)
      /\ k.failed = l.failed + (IF success THEN 0 ELSE 1)
  <2>1. l \in Locals
    BY <1>1
  <2>2. l.test \in Nat \ {0}
    BY <2>1 DEF Locals
  <2> HIDE DEF l
  <2>3. /\ Counted(l, success).test = l.test + 1
        /\ Counted(l, success).reproduced = l.reproduced + (IF success THEN 1 ELSE 0)
        /\ Counted(l, success).failed = l.failed + (IF success THEN 0 ELSE 1)
    BY <2>1, CountedIs
  <2>4. k = Counted(l, success)
    BY <1>5
  <2>5. QED
    BY <2>2, <2>3, <2>4
<1> HIDE DEF l, k, j
<1>7. Len(j) = l.test - 1 /\ l.reproduced = Cardinality(Wins(j, Len(j)))
      /\ l.failed = Cardinality(Losses(j, Len(j)))
  BY <1>1 DEF Tallied
<1> DEFINE w == Append(j, v)
<1>8. /\ w \in Seq(BOOLEAN) /\ Len(w) = l.test /\ w[l.test] = v
      /\ Wins(w, l.test - 1) = Wins(j, Len(j)) /\ Losses(w, l.test - 1) = Losses(j, Len(j))
  BY <1>1, <1>6, <1>7, AppendedVerdict
<1> HIDE DEF w
<1>9. /\ Cardinality(Wins(w, l.test)) = l.reproduced + (IF w[l.test] THEN 1 ELSE 0)
      /\ Cardinality(Losses(w, l.test)) = l.failed + (IF w[l.test] THEN 0 ELSE 1)
  BY <1>6, <1>7, <1>8, TallyNext
<1>10. (IF w[l.test] THEN 1 ELSE 0) = (IF success THEN 1 ELSE 0)
       /\ (IF w[l.test] THEN 0 ELSE 1) = (IF success THEN 0 ELSE 1)
  <2>1. w[l.test] <=> success
    BY <1>8
  <2>2. QED
    BY <2>1
<1>11. k.test - 1 = l.test
  BY <1>6
<1>12. Tallied(pc'[t], k, w)
  BY <1>5, <1>6, <1>8, <1>9, <1>10, <1>11 DEF Tallied, Comparing
<1>13. Judged(pc'[t], k, w, heap'[t], outcome'[t], goal'[t])
  BY <1>5 DEF Judged
<1>14. \A u \in Tasks \ {t} : Untouched(u)
  BY <1>4, <1>5 DEF Untouched
<1>15. QED
  BY <1>4, <1>12, <1>13, <1>14, OneTally DEF k, w

(* An exception counts as what the test expects of its expected value. *)
LEMMA ThrowsTallies ==
  ASSUME ServiceInv, TallyInv, NEW t \in Tasks, Throws(t)
  PROVE  TallyInv'
<1> DEFINE e == Test(t).expected
           o == invoked[t]
<1>1. pc[t] = "run" /\ UNCHANGED <<heap, outcome, goal>>
  BY DEF Throws, Over, comparerVars
<1>2. /\ o \in Test(t).outcomes
      /\ o.kind = "throws" /\ NextTest(t, o.type = local[t].expectedException)
      /\ Judge(t, e \in Addresses /\ o.type = TypeOf[e])
  BY <1>1 DEF Throws, Over, ServiceInv, Running, Test
<1> HIDE DEF o
<1>3. o.type \in ExceptionTypes /\ o.type # None
  <2>1. PICK M \in Fitting : o \in Outcomes(M)
    BY <1>1, <1>2, OutcomeIs DEF InHand
  <2>2. o \in Outcomes(M)
    BY <2>1
  <2>3. QED
    BY <1>2, <2>2 DEF Outcomes
<1>4. local[t].expectedException = ExceptionOf(e, None)
  BY <1>1 DEF ServiceInv, Prepared, InHand, Test
<1> DEFINE v == e \in Addresses /\ o.type = TypeOf[e]
           success == o.type = local[t].expectedException
<1>5. v <=> success
  BY <1>3, <1>4 DEF ExceptionOf
<1>6. v \in BOOLEAN
  OBVIOUS
<1>7. Judge(t, v) /\ NextTest(t, success)
  BY <1>2
<1>8. pc[t] \notin Comparing
  BY <1>1 DEF Comparing
<1> HIDE DEF v, success
<1>9. QED
  BY <1>1, <1>5, <1>6, <1>7, <1>8, JudgedAndCounted

(* What a method returned is judged before it is compared. *)
LEMMA ReturnsTallies ==
  ASSUME ServiceInv, TallyInv, NEW t \in Tasks, Returns(t)
  PROVE  TallyInv'
<1> DEFINE called == [instances |-> instances[t], heap |-> heap[t], failed |-> FALSE]
           over(o) == InstantiateExpression(Arranged(called, o.writes), o.value)
           j == asExpected[t]
           l == local[t]
           o == invoked[t]
<1>1. /\ pc[t] = "run" /\ pc' = [pc EXCEPT ![t] = "begin"] /\ local' = local
      /\ goal' = goal
  BY DEF Returns, Over, Goto, Change
<1>2. /\ o \in Test(t).outcomes
      /\ o.kind = "returns" /\ heap' = [heap EXCEPT ![t] = over(o).heap]
      /\ outcome' = [outcome EXCEPT ![t] = Denoted(over(o), o.value)]
      /\ Judge(t, Bisimilar(over(o).heap, l.expected, Denoted(over(o), o.value)))
  BY <1>1 DEF Returns, Over, ServiceInv, Running, Test
<1>3. over(o).heap \in Heaps
  BY <1>1, <1>2, ReturnedIs
<1> DEFINE h == over(o).heap
           x == Denoted(over(o), o.value)
           v == Bisimilar(h, l.expected, x)
<1> HIDE DEF over
<1>4. heap'[t] = h /\ \A u \in Tasks \ {t} : heap'[u] = heap[u]
  BY <1>2, <1>3, HeapChanged
<1>5. outcome'[t] = x /\ \A u \in Tasks \ {t} : outcome'[u] = outcome[u]
  BY <1>2 DEF ServiceInv, ServiceTypes
<1>6. asExpected' = [asExpected EXCEPT ![t] = Append(j, v)]
  BY <1>2 DEF Judge
<1>7. v \in BOOLEAN
  BY DEF Bisimilar
<1>8. /\ pc'[t] = "begin" /\ \A u \in Tasks \ {t} : pc'[u] = pc[u]
      /\ l \in Locals /\ asExpected \in [Tasks -> Seq(BOOLEAN)] /\ j \in Seq(BOOLEAN)
      /\ Tallied(pc[t], l, j)
  BY <1>1 DEF ServiceInv, ServiceTypes, TallyInv
<1> HIDE DEF v, h, x
<1> DEFINE w == Append(j, v)
<1>9. /\ w \in Seq(BOOLEAN) /\ Len(w) = Len(j) + 1 /\ w[Len(j) + 1] = v
      /\ Wins(w, Len(j)) = Wins(j, Len(j)) /\ Losses(w, Len(j)) = Losses(j, Len(j))
  BY <1>7, <1>8, AppendedVerdict
<1>10. asExpected' = [asExpected EXCEPT ![t] = w]
  BY <1>6
<1> HIDE DEF w
<1>11. /\ asExpected' \in [Tasks -> Seq(BOOLEAN)] /\ asExpected'[t] = w
       /\ \A u \in Tasks \ {t} : asExpected'[u] = asExpected[u]
  BY <1>8, <1>9, <1>10
<1>12. Len(j) = l.test - 1 /\ l.test \in Nat \ {0}
  BY <1>1, <1>8 DEF Tallied, Comparing, Locals
<1>13. Len(j) + 1 = l.test
  BY <1>12
<1>14. Tallied("begin", l, w)
  BY <1>1, <1>8, <1>9, <1>12, <1>13 DEF Tallied, Comparing
<1>15. Judged("begin", l, w, h, x, goal'[t])
  BY <1>9, <1>13 DEF Judged, v
<1>16. \A u \in Tasks \ {t} : Untouched(u)
  BY <1>1, <1>4, <1>5, <1>8, <1>11 DEF Untouched
<1>17. QED
  BY <1>1, <1>4, <1>5, <1>8, <1>11, <1>14, <1>15, <1>16, OneTally

LEMMA BeginTallies ==
  ASSUME ServiceInv, TallyInv, TypeInv, NEW t \in Tasks, BeginComparison(t)
  PROVE  TallyInv'
<1> DEFINE j == asExpected[t]
           l == local[t]
<1>1. /\ pc[t] = "begin" /\ pc' = [pc EXCEPT ![t] = "compare"] /\ local' = local
      /\ asExpected' = asExpected /\ heap' = heap /\ outcome' = outcome
      /\ goal' = [goal EXCEPT ![t] = <<l.expected, outcome[t]>>]
  BY DEF BeginComparison, Begin, Goto, testVars
<1>2. /\ pc'[t] = "compare" /\ goal'[t] = <<l.expected, outcome[t]>>
      /\ \A u \in Tasks \ {t} : pc'[u] = pc[u] /\ goal'[u] = goal[u]
      /\ asExpected' \in [Tasks -> Seq(BOOLEAN)]
  BY <1>1 DEF ServiceInv, ServiceTypes, TallyInv, TypeInv
<1>3. Tallied("begin", l, j) /\ Judged("begin", l, j, heap[t], outcome[t], goal[t])
  BY <1>1 DEF TallyInv
<1> HIDE DEF j, l
<1>4. Tallied("compare", l, j)
  BY <1>3 DEF Tallied, Comparing
<1>5. Judged("compare", l, j, heap[t], outcome[t], goal'[t])
  BY <1>2, <1>3 DEF Judged
<1>6. \A u \in Tasks \ {t} : Untouched(u)
  BY <1>1, <1>2 DEF Untouched
<1>7. QED
  BY <1>1, <1>2, <1>4, <1>5, <1>6, OneTally DEF j, l

(* The comparer's answer is what the test was judged by. *)
LEMMA ComparedTallies ==
  ASSUME ServiceInv, TallyInv, VerdictIsBisimilarity, NEW t \in Tasks, Compared(t)
  PROVE  TallyInv'
<1> DEFINE l == local[t]
           k == local'[t]
           j == asExpected[t]
           success == answer[t]
<1>1. /\ pc[t] = "compare" /\ NextTest(t, success) /\ heap' = heap /\ goal' = goal
      /\ asExpected' = asExpected /\ outcome' = outcome /\ Answered(t)
  BY DEF Compared, Change
<1>2. /\ local \in [Tasks -> Locals] /\ pc \in [Tasks -> Places] /\ l \in Locals
      /\ asExpected \in [Tasks -> Seq(BOOLEAN)] /\ j \in Seq(BOOLEAN)
      /\ Tallied("compare", l, j) /\ Judged("compare", l, j, heap[t], outcome[t], goal[t])
  BY <1>1 DEF ServiceInv, ServiceTypes, TallyInv
<1>3. /\ local' = [local EXCEPT ![t] = Counted(l, success)]
      /\ pc' = [pc EXCEPT ![t] = "resolve"]
  BY <1>1 DEF NextTest, Goto
<1>4. /\ k = Counted(l, success) /\ pc'[t] = "resolve"
      /\ \A u \in Tasks \ {t} : local'[u] = local[u] /\ pc'[u] = pc[u]
  BY <1>2, <1>3
<1>5. /\ l.test \in Nat \ {0} /\ k.test = l.test + 1
      /\ k.reproduced = l.reproduced + (IF success THEN 1 ELSE 0)
      /\ k.failed = l.failed + (IF success THEN 0 ELSE 1)
  <2>1. l \in Locals
    BY <1>2
  <2>2. l.test \in Nat \ {0}
    BY <2>1 DEF Locals
  <2> HIDE DEF l
  <2>3. /\ Counted(l, success).test = l.test + 1
        /\ Counted(l, success).reproduced = l.reproduced + (IF success THEN 1 ELSE 0)
        /\ Counted(l, success).failed = l.failed + (IF success THEN 0 ELSE 1)
    BY <2>1, CountedIs
  <2>4. k = Counted(l, success)
    BY <1>4
  <2>5. QED
    BY <2>2, <2>3, <2>4
<1>6. success <=> Bisimilar(heap[t], goal[t][1], goal[t][2])
  BY <1>1 DEF VerdictIsBisimilarity
<1>7. j[l.test] <=> success
  BY <1>2, <1>6 DEF Judged
<1> HIDE DEF l, k, j, success
<1>8. /\ Len(j) = l.test /\ l.reproduced = Cardinality(Wins(j, l.test - 1))
      /\ l.failed = Cardinality(Losses(j, l.test - 1))
  BY <1>2 DEF Tallied, Comparing
<1>9. /\ Cardinality(Wins(j, l.test)) = l.reproduced + (IF j[l.test] THEN 1 ELSE 0)
      /\ Cardinality(Losses(j, l.test)) = l.failed + (IF j[l.test] THEN 0 ELSE 1)
  BY <1>2, <1>5, <1>8, TallyNext
<1>10. (IF j[l.test] THEN 1 ELSE 0) = (IF success THEN 1 ELSE 0)
       /\ (IF j[l.test] THEN 0 ELSE 1) = (IF success THEN 0 ELSE 1)
  BY <1>7
<1>11. k.test - 1 = l.test
  BY <1>5
<1>12. Tallied("resolve", k, j)
  BY <1>5, <1>8, <1>9, <1>10, <1>11 DEF Tallied, Comparing
<1>13. Judged("resolve", k, j, heap'[t], outcome'[t], goal'[t])
  BY DEF Judged
<1>14. \A u \in Tasks \ {t} : Untouched(u)
  BY <1>1, <1>4 DEF Untouched
<1>15. QED
  BY <1>1, <1>2, <1>4, <1>12, <1>13, <1>14, OneTally DEF j, k

LEMMA TallyStep ==
  ServiceInv /\ TypeInv /\ VerdictIsBisimilarity /\ TallyInv /\ [Next]_vars => TallyInv'
<1>1. ASSUME ServiceInv, TypeInv, VerdictIsBisimilarity, TallyInv, NEW t \in Tasks,
             Receive(t) \/ Execute(t)
      PROVE  TallyInv'
  <2> USE <1>1
  <2>1. CASE \/ Receive(t) \/ ResolveType(t) \/ AddTypes(t) \/ GetMethod(t) \/ AddMethod(t)
             \/ BuildGraph(t) \/ LookupThrows(t) \/ AddTestTypes(t) \/ GetRawHistory(t)
             \/ NothingToAsk(t) \/ StartNewDeserialization(t) \/ Reads(t)
             \/ DisturbedReads(t) \/ DeserializationFails(t)
             \/ ComputeCoverage(t) \/ CoverageThrows(t)
    <3>1. Plain(t)
      BY <2>1, PlainSteps
    <3>2. /\ pc[t] \notin Comparing /\ pc'[t] \notin Comparing
          /\ UNCHANGED <<local, asExpected, heap, outcome, goal>>
      BY <3>1 DEF Plain, comparerVars, testVars
    <3>3. \A u \in Tasks \ {t} : Untouched(u)
      BY <3>1, <3>2 DEF Plain, Untouched, ServiceInv, ServiceTypes
    <3>4. QED
      BY <3>2, <3>3, UncountedKeeps
  <2>2. CASE ResolveFails(t) \/ TestTypesThere(t) \/ Rejected(t)
    <3>1. /\ Judge(t, FALSE) /\ NextTest(t, FALSE) /\ UNCHANGED <<heap, outcome, goal>>
          /\ pc[t] \notin Comparing
      BY <2>2 DEF ResolveFails, TestTypesThere, Rejected, MoreTests, Comparing, comparerVars
    <3>2. QED
      BY <3>1, JudgedAndCounted
  <2>3. CASE ResolveTest(t)
    <3> DEFINE r == Resolve(Test(t))
               e == Test(t).expected
    <3>1. /\ pc[t] = "resolve" /\ pc' = [pc EXCEPT ![t] = "setMain"]
          /\ local' = [local EXCEPT ![t].expected = Denoted(r, e),
                                    ![t].expectedException = ExceptionOf(e, @)]
          /\ heap' = [heap EXCEPT ![t] = r.heap]
          /\ asExpected' = asExpected /\ outcome' = outcome /\ goal' = goal
      BY <2>3 DEF ResolveTest, MoreTests, Goto, Change
    <3> HIDE DEF r, e
    <3>2. /\ pc[t] \notin Comparing /\ pc'[t] \notin Comparing
          /\ local'[t].test = local[t].test /\ local'[t].reproduced = local[t].reproduced
          /\ local'[t].failed = local[t].failed
      BY <3>1 DEF ServiceInv, ServiceTypes, Locals, Comparing
    <3>3. \A u \in Tasks \ {t} : Untouched(u)
      BY <3>1 DEF Untouched, ServiceInv, ServiceTypes
    <3>4. QED
      BY <3>1, <3>2, <3>3, UncountedKeeps
  <2>4. CASE FindTypes(t) \/ SetEntryMain(t) \/ SetCurrentThreadId(t) \/ Invoke(t)
    <3>1. /\ pc[t] \in {"resolve", "setMain", "setThread", "invoke"}
          /\ asExpected' = asExpected
          /\ \E x \in {"addTestTypes", "setThread", "invoke", "run"} : pc' = [pc EXCEPT ![t] = x]
          /\ \/ local' \in {local, [local EXCEPT ![t].entryMainWasSet = TRUE]}
             \/ \E a \in Assemblies(Test(t)) : local' = [local EXCEPT ![t].assembly = a]
          /\ heap' = heap /\ outcome' = outcome /\ goal' = goal
      BY <2>4 DEF FindTypes, MoreTests, SetEntryMain, SetCurrentThreadId, Invoke, Goto,
         comparerVars, testVars
    <3>2. /\ pc[t] \notin Comparing /\ pc'[t] \notin Comparing
          /\ local'[t].test = local[t].test /\ local'[t].reproduced = local[t].reproduced
          /\ local'[t].failed = local[t].failed
      BY <3>1 DEF ServiceInv, ServiceTypes, Locals, Comparing
    <3>3. \A u \in Tasks \ {t} : Untouched(u)
      BY <3>1 DEF Untouched, ServiceInv, ServiceTypes
    <3>4. QED
      BY <3>1, <3>2, <3>3, UncountedKeeps
  <2>5. CASE Throws(t)
    BY <2>5, ThrowsTallies
  <2>6. CASE Returns(t)
    BY <2>6, ReturnsTallies
  <2>7. CASE BeginComparison(t)
    BY <2>7, BeginTallies
  <2>8. CASE CompareResults(t)
    <3>1. UNCHANGED <<pc, local, asExpected, outcome>>
      BY <2>8 DEF CompareResults, testVars
    <3>2. UNCHANGED <<heap, goal>>
      BY <2>8 DEF CompareResults, Compare, EqualAtOnce, DifferentAtOnce, AlreadyCompared,
         Descend, DifferentLength, NextField, AllEqual, SomeDifferent, Reply
    <3>3. QED
      BY <3>1, <3>2 DEF TallyInv
  <2>9. CASE Compared(t)
    BY <2>9, ComparedTallies
  <2>10. CASE Enter(t) \/ Block(t) \/ Leave(t) \/ Unwind(t)
    <3>1. UNCHANGED <<pc, local, asExpected, outcome, heap, goal>>
      BY <2>10, EventSteps DEF Event, comparerVars
    <3>2. QED
      BY <3>1 DEF TallyInv
  <2>11. QED
    BY <2>1, <2>2, <2>3, <2>4, <2>5, <2>6, <2>7, <2>8, <2>9, <2>10 DEF Execute
<1>2. ASSUME TallyInv, UNCHANGED vars
      PROVE  TallyInv'
  <2>1. UNCHANGED <<pc, local, asExpected, outcome, heap, goal>>
    BY <1>2 DEF vars, testVars, comparerVars
  <2>2. QED
    BY <1>2, <2>1 DEF TallyInv
<1>3. QED
  BY <1>1, <1>2 DEF Next, AllServed

(* Where no class overrides Equals, the counts of a request are of the     *)
(* tests that returned what was expected, or threw it, and of the others.  *)
THEOREM ReproducedAsExpectedCorrect == KeysAreIdentities => (Spec => []ReproducedAsExpected)
<1> SUFFICES ASSUME KeysAreIdentities PROVE Spec => []ReproducedAsExpected
  OBVIOUS
<1>1. Init => ServiceInv /\ TallyInv
  BY ServiceInitial, TallyInitial
<1>2. ServiceInv /\ [Next]_vars => ServiceInv'
  BY ServiceStep
<1>3. ServiceInv /\ TypeInv /\ VerdictIsBisimilarity /\ TallyInv /\ [Next]_vars => TallyInv'
  BY TallyStep
<1>4. Spec => []TypeInv
  <2>1. ComparisonInit => TypeInv /\ ShapeInv
    BY DEF ComparisonInit, TypeInv, ShapeInv
  <2>2. TypeInv /\ ShapeInv /\ [ComparisonNext]_comparerVars => TypeInv' /\ ShapeInv'
    BY TypeStep, ShapeStep
  <2>3. QED
    BY <2>1, <2>2, ServiceCompares, PTL DEF ComparisonSpec
<1>5. Spec => []VerdictIsBisimilarity
  BY ServiceVerdictCorrect
<1>6. ServiceInv /\ TallyInv => ReproducedAsExpected
  <2>1. SUFFICES ASSUME ServiceInv, TallyInv, NEW t \in Tasks
                 PROVE  LET over == {i \in DOMAIN asExpected[t] : i < local[t].test}
                            good == {i \in over : asExpected[t][i]}
                        IN /\ local[t].reproduced = Cardinality(good)
                           /\ local[t].failed = Cardinality(over \ good)
    BY DEF ReproducedAsExpected
  <2> DEFINE j == asExpected[t]
             n == local[t].test - 1
             over == {i \in DOMAIN j : i < local[t].test}
             good == {i \in over : j[i]}
  <2>2. j \in Seq(BOOLEAN) /\ local[t].test \in Nat \ {0} /\ Tallied(pc[t], local[t], j)
    BY <2>1 DEF TallyInv, ServiceInv, ServiceTypes, Locals
  <2>3. DOMAIN j = 1 .. Len(j) /\ Len(j) \in Nat /\ n <= Len(j) /\ n \in Nat
    BY <2>2 DEF Tallied
  <2>4. over = 1 .. n
    BY <2>2, <2>3
  <2>5. good = Wins(j, n) /\ over \ good = Losses(j, n)
    BY <2>4 DEF Wins, Losses
  <2>6. QED
    BY <2>2, <2>5 DEF Tallied
<1>7. QED
  BY <1>1, <1>2, <1>3, <1>4, <1>5, <1>6, PTL DEF Spec


-----------------------------------------------------------------------------
(* Where a request looks its method up, tests it, and decodes its history. *)
LookingUp == {"types", "addTypes", "method", "addMethod", "graph"}
Testing   == {"resolve", "addTestTypes"} \cup InHand \cup Comparing
Decoding  == {"start", "methodCount", "methods", "reports"}

(* What the profiler holds, and what the reader has read.                  *)
Held == [threadId : {0}, aborted : {FALSE},
         records : Seq([method : Nat \ {0}, offset : Nat])]
ReadReports == [threadId : Nat, records : Seq(Hits)]
Fresh == [left |-> 0, methods |-> <<>>, reports |-> <<>>]

HistoryTypes ==
  /\ typesCache \subseteq Seq(Characters) /\ methods \subseteq Methods
  /\ mainMethod \in Methods \cup {None} /\ mainFunctionId \in probed \cup {None}
  /\ probed \subseteq compiled /\ compiled \subseteq Methods
  /\ collectedMethods \in Seq(Methods)
  /\ \A m \in probed : \E i \in 1 .. Len(collectedMethods) : collectedMethods[i] = m
  /\ visitedMethods \subseteq 1 .. Len(collectedMethods)
  /\ serializedCoverage \in Seq(Held)
  /\ stack \in [Tasks -> Seq(compiled)] /\ balance \in [Tasks -> Int \cup {None}]
  /\ DOMAIN history = Tasks /\ history = [t \in Tasks |-> history[t]]
  /\ threadIdMapping \subseteq Tasks
  /\ executed \in [Tasks -> SUBSET Nat]
  /\ result \in [Tasks -> Results \cup {None}]
  /\ received \in [Tasks -> Seq(Written)] /\ DOMAIN sent = Tasks
  /\ DOMAIN reading = Tasks
  /\ \A t \in Tasks : reading[t].left \in Nat /\ reading[t].reports \in Seq(ReadReports)
  /\ data \in Seq(Written) /\ dataOffset \in Nat

HitsVisited ==
  \A k \in DOMAIN serializedCoverage : \A i \in DOMAIN serializedCoverage[k].records :
    serializedCoverage[k].records[i].method \in visitedMethods

(* What a thread tracks while n methods are collected.                     *)
Tracking(h, n) ==
  /\ DOMAIN h = {"methods", "records"}
  /\ h.methods \subseteq 1 .. n
  /\ h.records \in Seq([method : Nat \ {0}, offset : Nat])
  /\ \A i \in DOMAIN h.records : h.records[i].method \in h.methods

(* What a request was sent: M the methods, R the reports.                  *)
Told(M, R) ==
  /\ \E N \in Nat : DOMAIN M \in SUBSET (0 .. N - 1)
  /\ M = [id \in DOMAIN M |-> M[id]]
  /\ \A id \in DOMAIN M : M[id] \in MethodInfos
  /\ R \in Seq(SentReports)
  /\ \A k \in DOMAIN R : /\ R[k].aborted => R[k].records = <<>>
                         /\ \A i \in DOMAIN R[k].records : R[k].records[i].method \in DOMAIN M

(* One request, however many others there are.                             *)
Placed(t) ==
  /\ pc[t] \notin {"idle", "types", "done"} => batch[t] # <<>>
  /\ result[t] # None <=> pc[t] = "done"
  /\ DOMAIN instances[t] \subseteq Addresses
  /\ pc[t] \in {"idle"} \cup LookingUp => local[t] = NewLocals
  /\ pc[t] \in {"setThread", "invoke", "run"} \cup Comparing => local[t].entryMainWasSet
  /\ t \in threadIdMapping \/ balance[t] # None =>
       pc[t] \in Testing /\ local[t].entryMainWasSet
  /\ balance[t] = None => history[t] = NoHistory
  /\ Tracking(history[t], Len(collectedMethods))
  /\ pc[t] # "run" => stack[t] = <<>>
  /\ pc[t] = "addTestTypes" => local[t].assembly \in Seq(Characters)
  /\ pc[t] \notin {"methods", "reports", "done"} => reading[t] = Fresh
  /\ pc[t] \in Decoding \/ sent[t] # None => Told(sent[t].methods, sent[t].reports)
  /\ pc[t] = "idle" => executed[t] = {}

HistoryInv == HistoryTypes /\ HitsVisited /\ \A t \in Tasks : Placed(t)

LEMMA NothingTracked ==
  ASSUME NEW n \in Nat
  PROVE  Tracking(NoHistory, n)
<1>1. NoHistory.methods = {} /\ NoHistory.records = <<>> /\ DOMAIN <<>> = {}
  BY DEF NoHistory
<1>2. <<>> \in Seq([method : Nat \ {0}, offset : Nat])
  OBVIOUS
<1>3. DOMAIN NoHistory = {"methods", "records"}
  BY DEF NoHistory
<1>4. QED
  BY <1>1, <1>2, <1>3 DEF Tracking

LEMMA HistoryInitial == Init => HistoryInv
<1>1. SUFFICES ASSUME Init
               PROVE  HistoryInv
  OBVIOUS
<1>2. 1 .. Len(<<>>) = {} /\ DOMAIN <<>> = {} /\ Len(<<>>) = 0
  OBVIOUS
<1>3. HistoryTypes
  <2>1. \A S : <<>> \in Seq(S)
    OBVIOUS
  <2>2. \A t \in Tasks : reading[t].left = 0 /\ reading[t].reports = <<>>
    BY <1>1 DEF Init
  <2>3. /\ data = <<>> /\ dataOffset = 0 /\ collectedMethods = <<>>
        /\ serializedCoverage = <<>> /\ visitedMethods = {}
    BY <1>1 DEF Init
  <2>4. /\ typesCache \subseteq Seq(Characters) /\ methods \subseteq Methods
        /\ mainMethod \in Methods \cup {None} /\ mainFunctionId \in probed \cup {None}
        /\ probed \subseteq compiled /\ compiled \subseteq Methods
        /\ \A m \in probed : \E i \in 1 .. Len(collectedMethods) : collectedMethods[i] = m
        /\ threadIdMapping \subseteq Tasks
    BY <1>1 DEF Init
  <2>5. /\ executed \in [Tasks -> SUBSET Nat] /\ result \in [Tasks -> Results \cup {None}]
        /\ received \in [Tasks -> Seq(Written)] /\ DOMAIN sent = Tasks /\ DOMAIN reading = Tasks
        /\ stack \in [Tasks -> Seq(compiled)] /\ balance \in [Tasks -> Int \cup {None}]
        /\ DOMAIN history = Tasks /\ history = [t \in Tasks |-> history[t]]
    BY <1>1, <2>1 DEF Init
  <2>6. /\ collectedMethods \in Seq(Methods) /\ serializedCoverage \in Seq(Held)
        /\ data \in Seq(Written) /\ dataOffset \in Nat
        /\ visitedMethods \subseteq 1 .. Len(collectedMethods)
    BY <1>2, <2>1, <2>3
  <2>7. \A t \in Tasks : reading[t].left \in Nat /\ reading[t].reports \in Seq(ReadReports)
    <3>1. <<>> \in Seq(ReadReports)
      OBVIOUS
    <3>2. ASSUME NEW t \in Tasks
          PROVE  reading[t].left \in Nat /\ reading[t].reports \in Seq(ReadReports)
      <4>1. reading[t].left = 0 /\ reading[t].reports = <<>>
        BY <2>2
      <4>2. QED
        BY <3>1, <4>1
    <3>3. QED
      BY <3>2
  <2>8. QED
    BY <2>4, <2>5, <2>6, <2>7 DEF HistoryTypes
<1>4. HitsVisited
  BY <1>1, <1>2 DEF Init, HitsVisited
<1>5. ASSUME NEW t \in Tasks
      PROVE  Placed(t)
  <2>1. Tracking(NoHistory, Len(collectedMethods))
    BY <1>1, <1>2, NothingTracked DEF Init
  <2>2. history[t] = NoHistory
    BY <1>1 DEF Init
  <2>3. QED
    BY <1>1, <1>2, <2>1, <2>2
       DEF Init, Placed, LookingUp, Testing, Decoding, InHand, Comparing, Fresh
<1>6. QED
  BY <1>3, <1>4, <1>5 DEF HistoryInv

(* A step leaves the other requests where they are, and what their threads *)
(* track, unless it clears that.                                           *)
Left(u) ==
  /\ pc'[u] = pc[u] /\ local'[u] = local[u] /\ instances'[u] = instances[u]
  /\ result'[u] = result[u] /\ reading'[u] = reading[u] /\ executed'[u] = executed[u]
  /\ stack'[u] = stack[u] /\ sent'[u] = sent[u] /\ received'[u] = received[u]

Kept(u) ==
  \/ balance'[u] = balance[u] /\ history'[u] = history[u]
  \/ balance'[u] = None /\ history'[u] = NoHistory

LEMMA OnePlaced ==
  ASSUME HistoryInv, NEW t \in Tasks, batch' = batch, HistoryTypes', HitsVisited',
         \A u \in Tasks \ {t} : Left(u) /\ Kept(u),
         threadIdMapping' \subseteq threadIdMapping \cup {t},
         Len(collectedMethods) <= Len(collectedMethods'), Placed(t)'
  PROVE  HistoryInv'
<1>1. Len(collectedMethods) \in Nat /\ Len(collectedMethods') \in Nat
  <2>1. collectedMethods \in Seq(Methods) /\ collectedMethods' \in Seq(Methods)
    BY DEF HistoryInv, HistoryTypes
  <2>2. QED
    BY <2>1
<1>2. ASSUME NEW u \in Tasks, u # t
      PROVE  Placed(u)'
  <2>1. Left(u) /\ Kept(u) /\ Placed(u) /\ (u \in threadIdMapping' => u \in threadIdMapping)
    BY <1>2 DEF HistoryInv
  <2>2. Tracking(history'[u], Len(collectedMethods'))
    <3>1. Tracking(history[u], Len(collectedMethods)) /\ Tracking(NoHistory, Len(collectedMethods'))
      BY <1>1, <2>1, NothingTracked DEF Placed
    <3>2. 1 .. Len(collectedMethods) \subseteq 1 .. Len(collectedMethods')
      BY <1>1
    <3>3. QED
      BY <2>1, <3>1, <3>2 DEF Tracking, Kept
  <2>3. /\ balance'[u] = None => history'[u] = NoHistory
        /\ balance'[u] # None => balance[u] # None
    BY <2>1 DEF Kept, Placed
  <2>4. QED
    BY <2>1, <2>2, <2>3 DEF Left, Placed
<1>3. QED
  BY <1>2 DEF HistoryInv

(* Steps that change nothing but the caches and what is a request's own. *)
QuietStep(t) ==
  /\ UNCHANGED <<batch, mainFunctionId, compiled, probed, collectedMethods, visitedMethods,
                 serializedCoverage, balance, history, readerVars, executed, stack>>
  /\ \A u \in Tasks \ {t} : pc'[u] = pc[u] /\ local'[u] = local[u] /\ instances'[u] = instances[u]
  /\ result' = [result EXCEPT ![t] = result'[t]]

LEMMA QuietKeeps ==
  ASSUME ServiceInv, HistoryInv, NEW t \in Tasks, QuietStep(t),
         typesCache' \subseteq Seq(Characters), methods' \subseteq Methods,
         mainMethod' \in Methods \cup {None}, result'[t] \in Results \cup {None},
         threadIdMapping' \subseteq threadIdMapping \cup {t}, Placed(t)'
  PROVE  HistoryInv'
<1>1. \A u \in Tasks \ {t} : Left(u) /\ Kept(u)
  BY DEF QuietStep, Left, Kept, ServiceInv, ServiceTypes, HistoryInv, HistoryTypes, readerVars
<1>2. result' \in [Tasks -> Results \cup {None}]
  BY DEF QuietStep, HistoryInv, HistoryTypes
<1>3. HistoryTypes'
  BY <1>2 DEF QuietStep, HistoryInv, HistoryTypes, readerVars
<1>4. HitsVisited'
  BY DEF QuietStep, HistoryInv, HitsVisited
<1>5. Len(collectedMethods) <= Len(collectedMethods')
  <2>1. collectedMethods \in Seq(Methods) /\ collectedMethods' = collectedMethods
    BY DEF QuietStep, HistoryInv, HistoryTypes
  <2>2. QED
    BY <2>1
<1>6. QED
  BY <1>1, <1>3, <1>4, <1>5, OnePlaced DEF QuietStep

LEMMA BatchMethodIs ==
  ASSUME ServiceInv, NEW t \in Tasks, batch[t] # None, batch[t] # <<>>
  PROVE  BatchMethod(t) \in Methods
<1>1. /\ Len(batch[t]) \in Nat
      /\ \A n \in 1 .. Len(batch[t]) : \E M \in Fitting : batch[t][n] \in TestsOn(M)
  BY TestsAre DEF ServiceInv, ServiceTypes
<1>2. Len(batch[t]) # 0
  <2>1. \E T : batch[t] \in Seq(T)
    BY ServiceAssumption DEF ServiceInv, ServiceTypes
  <2>2. QED
    BY <2>1
<1>3. \E M \in Fitting : batch[t][1] \in TestsOn(M)
  BY <1>1, <1>2
<1>4. QED
  BY <1>3 DEF BatchMethod, TestsOn

LEMMA ErrorIsResult == [kind |-> "error"] \in Results /\ [kind |-> "error"] # None
BY ServiceAssumption DEF Results

(* What the steps of a request update are functions of the requests. *)
LEMMA Domains ==
  ASSUME ServiceInv, HistoryInv
  PROVE  /\ pc \in [Tasks -> Places] /\ local \in [Tasks -> Locals] /\ DOMAIN instances = Tasks
         /\ result \in [Tasks -> Results \cup {None}]
BY DEF ServiceInv, ServiceTypes, HistoryInv, HistoryTypes

(* A request is received, or looks its method up. *)
LEMMA LookupPlaces ==
  ASSUME ServiceInv, HistoryInv, NEW t \in Tasks,
         \/ Receive(t) \/ ResolveType(t) \/ AddTypes(t) \/ GetMethod(t) \/ AddMethod(t)
         \/ BuildGraph(t)
  PROVE  HistoryInv'
<1>1. Placed(t) /\ pc[t] \in Places
  BY DEF HistoryInv, ServiceInv, ServiceTypes
<1>2. /\ UNCHANGED <<comparerVars, batch, testVars, result, profilerVars, readerVars>>
      /\ typesCache' \subseteq Seq(Characters) /\ methods' \subseteq Methods
  <2>1. typesCache \subseteq Seq(Characters) /\ methods \subseteq Methods
    BY DEF HistoryInv, HistoryTypes
  <2>2. CASE AddTypes(t) \/ AddMethod(t)
    <3>1. batch[t] # None /\ batch[t] # <<>>
      BY <1>1, <2>2 DEF AddTypes, AddMethod, Placed, ServiceInv, Served
    <3>2. BatchMethod(t) \in Methods
      BY <3>1, BatchMethodIs
    <3>3. Assembly(BatchMethod(t)) \in Seq(Characters)
      BY <3>2, ServiceAssumption DEF Assembly, MethodInfos
    <3>4. QED
      BY <2>1, <2>2, <3>2, <3>3 DEF AddTypes, AddMethod
  <2>3. CASE ~AddTypes(t) /\ ~AddMethod(t)
    BY <2>1, <2>3 DEF Receive, ResolveType, GetMethod, BuildGraph, sharedVars
  <2>4. QED
    BY <2>2, <2>3
<1>3. /\ \E p \in {"types", "method", "addTypes", "resolve", "addMethod", "graph"} :
           pc' = [pc EXCEPT ![t] = p] /\ (p = "types" <=> pc[t] = "idle")
      /\ pc[t] \in {"idle"} \cup LookingUp
      /\ pc[t] = "types" => batch[t] # <<>>
  BY DEF Receive, ResolveType, AddTypes, GetMethod, AddMethod, BuildGraph, Goto, Tests, LookingUp
<1>4. QuietStep(t)
  BY <1>2, <1>3, Domains DEF QuietStep, testVars, callVars, profilerVars, codeVars, reportVars
<1>5. /\ pc'[t] \in {"types", "method", "addTypes", "resolve", "addMethod", "graph"}
      /\ pc'[t] = "types" <=> pc[t] = "idle"
  BY <1>3, Domains
<1>6. /\ batch' = batch /\ local' = local /\ instances' = instances /\ result' = result
      /\ reading' = reading /\ executed' = executed /\ threadIdMapping' = threadIdMapping
      /\ mainMethod' = mainMethod /\ balance' = balance /\ history' = history
      /\ stack' = stack /\ sent' = sent /\ collectedMethods' = collectedMethods
  BY <1>2 DEF testVars, callVars, profilerVars, codeVars, reportVars, readerVars
<1>7. Placed(t)'
  BY <1>1, <1>3, <1>5, <1>6 DEF Placed, LookingUp, Testing, Decoding, InHand, Comparing
<1>8. mainMethod \in Methods \cup {None} /\ result[t] \in Results \cup {None}
  BY DEF HistoryInv, HistoryTypes
<1>9. QED
  BY <1>2, <1>4, <1>6, <1>7, <1>8, QuietKeeps

(* The types of another assembly are added. *)
LEMMA TypesPlace ==
  ASSUME ServiceInv, HistoryInv, NEW t \in Tasks, AddTestTypes(t)
  PROVE  HistoryInv'
<1>1. Placed(t) /\ local[t] \in Locals
  BY DEF HistoryInv, ServiceInv, ServiceTypes
<1>2. /\ UNCHANGED <<comparerVars, batch, testVars, result, methods, profilerVars, readerVars>>
      /\ typesCache' = typesCache \cup {local[t].assembly}
      /\ pc[t] = "addTestTypes" /\ pc' = [pc EXCEPT ![t] = "resolve"]
  BY DEF AddTestTypes, Goto
<1>3. QuietStep(t) /\ pc'[t] = "resolve"
  BY <1>2, Domains DEF QuietStep, testVars, callVars, profilerVars, codeVars, reportVars
<1>4. /\ batch' = batch /\ local' = local /\ instances' = instances /\ result' = result
      /\ reading' = reading /\ executed' = executed /\ threadIdMapping' = threadIdMapping
      /\ mainMethod' = mainMethod /\ balance' = balance /\ history' = history
      /\ stack' = stack /\ sent' = sent /\ collectedMethods' = collectedMethods
  BY <1>2 DEF testVars, callVars, profilerVars, codeVars, reportVars, readerVars
<1>5. Placed(t)'
  BY <1>1, <1>2, <1>3, <1>4 DEF Placed, LookingUp, Testing, Decoding, InHand, Comparing
<1>6. typesCache' \subseteq Seq(Characters)
  BY <1>1, <1>2 DEF HistoryInv, HistoryTypes, Locals, Placed
<1>7. /\ methods' \subseteq Methods /\ mainMethod' \in Methods \cup {None}
      /\ result'[t] \in Results \cup {None}
  BY <1>2, <1>4 DEF HistoryInv, HistoryTypes
<1>8. QED
  BY <1>3, <1>4, <1>5, <1>6, <1>7, QuietKeeps

(* An exception leaves Execute. *)
LEMMA ThrowPlaces ==
  ASSUME ServiceInv, HistoryInv, NEW t \in Tasks, Throw(t), pc[t] \notin {"idle", "run"},
         pc[t] # "types" => batch[t] # <<>>, t \notin threadIdMapping, balance[t] = None
  PROVE  HistoryInv'
<1>1. Placed(t)
  BY DEF HistoryInv
<1>2. /\ UNCHANGED <<comparerVars, batch, testVars, sharedVars, profilerVars, readerVars>>
      /\ result' = [result EXCEPT ![t] = [kind |-> "error"]]
      /\ pc' = [pc EXCEPT ![t] = "done"]
  BY DEF Throw, Answer, Goto
<1>3. pc'[t] = "done" /\ result'[t] = [kind |-> "error"]
  BY <1>2, Domains
<1>4. QuietStep(t)
  BY <1>2, <1>3, Domains DEF QuietStep, testVars, callVars, profilerVars, codeVars, reportVars
<1>5. /\ local' = local /\ instances' = instances /\ threadIdMapping' = threadIdMapping
      /\ mainMethod' = mainMethod /\ typesCache' = typesCache /\ methods' = methods
      /\ balance' = balance /\ history' = history /\ stack' = stack /\ sent' = sent
      /\ collectedMethods' = collectedMethods
  BY <1>2 DEF testVars, callVars, profilerVars, codeVars, reportVars, sharedVars, readerVars
<1>6. Placed(t)'
  BY <1>1, <1>3, <1>5, ErrorIsResult
     DEF Placed, LookingUp, Testing, Decoding, InHand, Comparing
<1>7. /\ mainMethod \in Methods \cup {None} /\ result'[t] \in Results \cup {None}
      /\ typesCache \subseteq Seq(Characters) /\ methods \subseteq Methods
  BY <1>3, ErrorIsResult DEF HistoryInv, HistoryTypes
<1>8. QED
  BY <1>4, <1>5, <1>6, <1>7, QuietKeeps

LEMMA CountedKeepsMain ==
  ASSUME NEW l \in Locals, NEW success
  PROVE  Counted(l, success).entryMainWasSet = l.entryMainWasSet
BY DEF Counted, Locals

(* A request tests, what goes on in an invocation left aside. *)
TestStep(t) ==
  \/ FindTypes(t) \/ TestTypesThere(t) \/ ResolveFails(t) \/ ResolveTest(t)
  \/ SetEntryMain(t) \/ SetCurrentThreadId(t) \/ Rejected(t) \/ Invoke(t) \/ Throws(t)
  \/ Returns(t) \/ BeginComparison(t) \/ CompareResults(t) \/ Compared(t)

LEMMA TestLocals ==
  ASSUME ServiceInv, NEW t \in Tasks, TestStep(t)
  PROVE  /\ \A u \in Tasks \ {t} : local'[u] = local[u]
         /\ local'[t].entryMainWasSet =
              (IF SetEntryMain(t) THEN TRUE ELSE local[t].entryMainWasSet)
         /\ \/ local'[t].test = local[t].test
            \/ /\ local'[t].test = local[t].test + 1
               /\ \/ TestTypesThere(t) \/ ResolveFails(t)
                  \/ pc[t] \in {"invoke", "run", "compare"}
         /\ FindTypes(t) => local'[t].assembly \in Assemblies(Test(t)) \ typesCache
                            /\ local'[t].assembly \in Seq(Characters)
         /\ local[t] \in Locals
<1>1. local \in [Tasks -> Locals] /\ local[t] \in Locals
  BY DEF ServiceInv, ServiceTypes
<1>2. CASE TestTypesThere(t) \/ ResolveFails(t) \/ Rejected(t) \/ Throws(t) \/ Compared(t)
  <2>1. PICK success : local' = [local EXCEPT ![t] = Counted(local[t], success)]
    BY <1>2 DEF TestTypesThere, ResolveFails, Rejected, Throws, Compared, NextTest
  <2>2. /\ local'[t] = Counted(local[t], success)
        /\ \A u \in Tasks \ {t} : local'[u] = local[u]
    BY <1>1, <2>1
  <2>3. /\ local'[t].entryMainWasSet = local[t].entryMainWasSet
        /\ local'[t].test = local[t].test + 1
    BY <1>1, <2>2, CountedKeepsMain, CountedIs
  <2>4. TestTypesThere(t) \/ ResolveFails(t) \/ pc[t] \in {"invoke", "run", "compare"}
    BY <1>2 DEF Rejected, Throws, Over, Compared
  <2>5. ~SetEntryMain(t) /\ ~FindTypes(t)
    <3>1. pc[t] # "setMain"
      BY <1>2 DEF TestTypesThere, ResolveFails, MoreTests, Rejected, Throws, Over, Compared
    <3>2. /\ TestTypesThere(t) => pc[t] = "addTestTypes"
          /\ ResolveFails(t) => pc'[t] = "resolve"
      <4>1. pc \in [Tasks -> Places]
        BY DEF ServiceInv, ServiceTypes
      <4>2. QED
        BY <4>1 DEF TestTypesThere, ResolveFails, NextTest, Goto
    <3>3. FindTypes(t) => pc[t] = "resolve" /\ pc'[t] = "addTestTypes"
      <4>1. pc \in [Tasks -> Places]
        BY DEF ServiceInv, ServiceTypes
      <4>2. QED
        BY <4>1 DEF FindTypes, MoreTests, Goto
    <3>4. QED
      BY <1>2, <3>1, <3>2, <3>3 DEF SetEntryMain, Rejected, Throws, Over, Compared
  <2>6. QED
    BY <1>1, <2>2, <2>3, <2>4, <2>5
<1>3. CASE FindTypes(t)
  <2>1. /\ MoreTests(t) /\ \E a \in Assemblies(Test(t)) \ typesCache :
                             local' = [local EXCEPT ![t] = [local[t] EXCEPT !.assembly = a]]
    BY <1>1, <1>3 DEF FindTypes
  <2>2. PICK a \in Assemblies(Test(t)) \ typesCache :
          local' = [local EXCEPT ![t] = [local[t] EXCEPT !.assembly = a]]
    BY <2>1
  <2>3. /\ local'[t] = [local[t] EXCEPT !.assembly = a]
        /\ \A u \in Tasks \ {t} : local'[u] = local[u]
    BY <1>1, <2>2
  <2>4. /\ local'[t].entryMainWasSet = local[t].entryMainWasSet
        /\ local'[t].test = local[t].test /\ local'[t].assembly = a
    BY <1>1, <2>3 DEF Locals
  <2>5. a \in Seq(Characters)
    <3>1. /\ pc[t] = "resolve" /\ local[t].test <= Len(batch[t])
          /\ local[t].test \in Nat \ {0}
      BY <1>1, <2>1 DEF MoreTests, Tests, Locals
    <3>2. batch \in Batches /\ batch[t] # None
      BY <3>1 DEF ServiceInv, ServiceTypes, Served
    <3>3. Len(batch[t]) \in Nat
      BY <3>2, TestsAre
    <3>4. local[t].test \in 1 .. Len(batch[t])
      BY <3>1, <3>3
    <3>5. PICK M \in Fitting : Test(t) \in TestsOn(M)
      BY <3>2, <3>4, TestsAre DEF Test
    <3>6. QED
      BY <2>2, <3>5, AssemblyIs
  <2>7. ~SetEntryMain(t)
    BY <1>3 DEF SetEntryMain, FindTypes, MoreTests
  <2>8. QED
    BY <1>1, <2>2, <2>3, <2>4, <2>5, <2>7
<1>4. CASE ResolveTest(t)
  <2>1. PICK v, x : local' = [local EXCEPT ![t] = [local[t] EXCEPT !.expected = v,
                                                                !.expectedException = x]]
    BY <1>1, <1>4 DEF ResolveTest
  <2>2. /\ local'[t] = [local[t] EXCEPT !.expected = v, !.expectedException = x]
        /\ \A u \in Tasks \ {t} : local'[u] = local[u]
    BY <1>1, <2>1
  <2>3. /\ local'[t].entryMainWasSet = local[t].entryMainWasSet
        /\ local'[t].test = local[t].test
    BY <1>1, <2>2 DEF Locals
  <2>4. ~SetEntryMain(t) /\ ~FindTypes(t)
    <3>1. pc \in [Tasks -> Places]
      BY DEF ServiceInv, ServiceTypes
    <3>2. QED
      BY <1>4, <3>1 DEF SetEntryMain, ResolveTest, MoreTests, FindTypes, Goto
  <2>5. QED
    BY <1>1, <2>2, <2>3, <2>4
<1>5. CASE SetEntryMain(t)
  <2>1. local' = [local EXCEPT ![t] = [local[t] EXCEPT !.entryMainWasSet = TRUE]]
    BY <1>1, <1>5 DEF SetEntryMain
  <2>2. /\ local'[t] = [local[t] EXCEPT !.entryMainWasSet = TRUE]
        /\ \A u \in Tasks \ {t} : local'[u] = local[u]
    BY <1>1, <2>1
  <2>3. local'[t].entryMainWasSet = TRUE /\ local'[t].test = local[t].test
    BY <1>1, <2>2 DEF Locals
  <2>4. ~FindTypes(t)
    BY <1>5 DEF SetEntryMain, FindTypes, MoreTests
  <2>5. QED
    BY <1>1, <1>5, <2>2, <2>3, <2>4
<1>6. CASE \/ SetCurrentThreadId(t) \/ Invoke(t) \/ Returns(t) \/ BeginComparison(t)
           \/ CompareResults(t)
  <2>1. local' = local /\ ~SetEntryMain(t) /\ ~FindTypes(t)
    BY <1>6 DEF SetCurrentThreadId, Invoke, Returns, Over, BeginComparison, CompareResults,
       testVars, SetEntryMain, FindTypes, MoreTests
  <2>2. QED
    BY <1>1, <2>1
<1>7. QED
  BY <1>2, <1>3, <1>4, <1>5, <1>6 DEF TestStep

LEMMA TestMoves ==
  ASSUME ServiceInv, NEW t \in Tasks, TestStep(t)
  PROVE  /\ \A u \in Tasks \ {t} : pc'[u] = pc[u]
         /\ \/ /\ pc[t] \in {"resolve", "addTestTypes"}
               /\ pc'[t] \in {"resolve", "setMain"} \/ (FindTypes(t) /\ pc'[t] = "addTestTypes")
            \/ pc[t] = "setMain" /\ pc'[t] = "setThread" /\ SetEntryMain(t)
            \/ pc[t] = "setThread" /\ pc'[t] = "invoke"
            \/ pc[t] = "invoke" /\ pc'[t] = "run"
            \/ pc[t] \in {"invoke", "compare"} /\ pc'[t] = "resolve"
            \/ pc[t] = "run" /\ stack[t] = <<>> /\ pc'[t] \in {"resolve", "begin"}
            \/ pc[t] \in Comparing /\ pc'[t] = "compare"
<1>1. pc \in [Tasks -> Places]
  BY DEF ServiceInv, ServiceTypes
<1>2. CASE CompareResults(t)
  <2>1. pc[t] = "compare" /\ pc' = pc
    BY <1>2 DEF CompareResults
  <2>2. QED
    BY <1>1, <2>1 DEF Comparing
<1>3. CASE FindTypes(t)
  BY <1>1, <1>3 DEF FindTypes, MoreTests, Goto
<1>4. CASE TestTypesThere(t) \/ ResolveFails(t) \/ ResolveTest(t) \/ SetEntryMain(t)
  BY <1>1, <1>4 DEF TestTypesThere, ResolveFails, ResolveTest, SetEntryMain, MoreTests,
     NextTest, Goto
<1>5. CASE \/ SetCurrentThreadId(t) \/ Rejected(t) \/ Invoke(t) \/ Throws(t) \/ Returns(t)
           \/ BeginComparison(t) \/ Compared(t)
  <2>1. \/ pc[t] = "setThread" /\ pc' = [pc EXCEPT ![t] = "invoke"]
        \/ pc[t] = "invoke" /\ pc' = [pc EXCEPT ![t] = "run"]
        \/ pc[t] \in {"invoke", "compare"} /\ pc' = [pc EXCEPT ![t] = "resolve"]
        \/ pc[t] = "run" /\ stack[t] = <<>> /\ \E p \in {"resolve", "begin"} : pc' = [pc EXCEPT ![t] = p]
        \/ pc[t] = "begin" /\ pc' = [pc EXCEPT ![t] = "compare"]
    BY <1>5 DEF SetCurrentThreadId, Rejected, Invoke, Throws, Returns, Over, BeginComparison,
       Compared, NextTest, Goto
  <2>2. QED
    BY <1>1, <2>1 DEF Comparing
<1>6. QED
  BY <1>2, <1>3, <1>4, <1>5 DEF TestStep

LEMMA TestLeaves ==
  ASSUME ServiceInv, HistoryInv, NEW t \in Tasks, TestStep(t)
  PROVE  /\ UNCHANGED <<batch, stack, executed, skewed, result, sharedVars, mainFunctionId,
                        compiled, probed, collectedMethods, visitedMethods,
                        serializedCoverage, balance, history, zeroWasReported, readerVars,
                        overlapped>>
         /\ threadIdMapping' \subseteq threadIdMapping \cup {t}
         /\ t \in threadIdMapping' => t \in threadIdMapping \/ pc[t] = "setThread"
         /\ mainMethod' \in Methods \cup {None}
         /\ DOMAIN instances'[t] \subseteq Addresses
         /\ \A u \in Tasks \ {t} : instances'[u] = instances[u]
<1>1. Placed(t) /\ pc[t] \in Places /\ local[t] \in Locals
  BY DEF HistoryInv, ServiceInv, ServiceTypes
<1>2. mainMethod \in Methods \cup {None} /\ DOMAIN instances[t] \subseteq Addresses
  BY <1>1 DEF HistoryInv, HistoryTypes, Placed
<1>3. CASE ResolveTest(t)
  <2> DEFINE test == batch[t][local[t].test]
             r == Resolve(test)
  <2>1. /\ pc[t] = "resolve" /\ local[t].test <= Len(batch[t]) /\ ~r.failed
        /\ instances' = [instances EXCEPT ![t] = r.instances]
        /\ UNCHANGED <<batch, callVars, result, sharedVars, profilerVars, readerVars, overlapped>>
    BY <1>3 DEF ResolveTest, MoreTests, Tests, Test, Fails
  <2>2. local[t].test \in 1 .. Len(batch[t]) /\ batch \in Batches /\ batch[t] # None
    <3>1. batch \in Batches /\ batch[t] # None /\ local[t].test \in Nat \ {0}
      BY <1>1, <2>1 DEF ServiceInv, ServiceTypes, Served, Locals
    <3>2. Len(batch[t]) \in Nat
      BY <3>1, TestsAre
    <3>3. QED
      BY <2>1, <3>1, <3>2
  <2>3. PICK M \in Fitting : test \in TestsOn(M)
    BY <2>2, TestsAre
  <2> HIDE DEF test
  <2>4. r \in Resolvers(M)
    BY <2>1, <2>3, ResolvedIs DEF Resolver
  <2>5. M \subseteq Addresses
    BY <2>3 DEF Fitting
  <2> HIDE DEF r
  <2>6. DOMAIN r.instances \subseteq Addresses
    BY <2>4, <2>5 DEF Resolvers
  <2>7. instances'[t] = r.instances /\ \A u \in Tasks \ {t} : instances'[u] = instances[u]
    BY <2>1, Domains
  <2>8. QED
    BY <1>2, <2>1, <2>6, <2>7 DEF profilerVars, codeVars, reportVars, callVars
<1>4. CASE SetEntryMain(t)
  <2>1. Test(t).method \in Methods
    <3>1. PICK M \in Fitting : Test(t) \in TestsOn(M)
      BY <1>4 DEF SetEntryMain, ServiceInv, Prepared, InHand, Test
    <3>2. QED
      BY <3>1 DEF TestsOn
  <2>2. QED
    BY <1>2, <1>4, <2>1, Domains DEF SetEntryMain, reportVars, callVars
<1>5. CASE SetCurrentThreadId(t)
  BY <1>2, <1>5, Domains DEF SetCurrentThreadId, codeVars, testVars, callVars
<1>6. CASE ~ResolveTest(t) /\ ~SetEntryMain(t) /\ ~SetCurrentThreadId(t)
  <2>1. UNCHANGED <<batch, stack, executed, skewed, instances, result, sharedVars,
                    profilerVars, readerVars, overlapped>>
    <3>1. CASE FindTypes(t) \/ TestTypesThere(t) \/ ResolveFails(t) \/ Rejected(t)
      BY <3>1 DEF FindTypes, TestTypesThere, ResolveFails, Rejected, callVars
    <3>2. CASE Invoke(t) \/ Throws(t) \/ Returns(t)
      BY <3>2 DEF Invoke, Throws, Returns, callVars
    <3>3. CASE BeginComparison(t) \/ CompareResults(t) \/ Compared(t)
      BY <3>3 DEF BeginComparison, CompareResults, Compared, callVars, testVars
    <3>4. QED
      BY <1>6, <3>1, <3>2, <3>3 DEF TestStep
  <2>2. QED
    BY <1>2, <2>1, Domains DEF profilerVars, codeVars, reportVars
<1>7. QED
  BY <1>3, <1>4, <1>5, <1>6

LEMMA TestPlaces ==
  ASSUME ServiceInv, HistoryInv, NEW t \in Tasks, TestStep(t)
  PROVE  HistoryInv'
<1>1. Placed(t)
  BY DEF HistoryInv
<1>2. QuietStep(t)
  BY TestLeaves, TestMoves, TestLocals, Domains DEF QuietStep
<1>3. /\ batch' = batch /\ result' = result /\ reading' = reading /\ sent' = sent
      /\ executed' = executed /\ stack' = stack /\ balance' = balance /\ history' = history
      /\ collectedMethods' = collectedMethods /\ typesCache' = typesCache /\ methods' = methods
  BY TestLeaves DEF readerVars, sharedVars
<1>4. pc[t] \in Testing /\ pc'[t] \in Testing
  BY TestMoves DEF Testing, InHand, Comparing
<1>5. local'[t].entryMainWasSet = local[t].entryMainWasSet \/ local'[t].entryMainWasSet = TRUE
  BY TestLocals
<1>6. /\ t \in threadIdMapping' => local'[t].entryMainWasSet
      /\ balance'[t] # None => local'[t].entryMainWasSet
  BY <1>1, <1>3, <1>5, TestLeaves DEF Placed
<1>7. pc'[t] \in {"setThread", "invoke", "run"} \cup Comparing => local'[t].entryMainWasSet
  BY <1>1, <1>5, TestMoves, TestLocals DEF Placed, Comparing
<1>8. \A p \in Testing : p \notin {"idle", "types", "done", "methods", "reports"} \cup LookingUp
                                    \cup Decoding
  BY DEF Testing, InHand, Comparing, LookingUp, Decoding
<1>9. /\ pc'[t] # "run" => stack[t] = <<>>
      /\ pc'[t] = "addTestTypes" => local'[t].assembly \in Seq(Characters)
  BY <1>1, TestMoves, TestLocals DEF Placed, Comparing
<1>10. Placed(t)'
  BY <1>1, <1>3, <1>4, <1>6, <1>7, <1>8, <1>9, TestLeaves DEF Placed
<1>11. /\ typesCache' \subseteq Seq(Characters) /\ methods' \subseteq Methods
       /\ result'[t] \in Results \cup {None}
  BY <1>3 DEF HistoryInv, HistoryTypes
<1>12. QED
  BY <1>2, <1>10, <1>11, TestLeaves, QuietKeeps

-----------------------------------------------------------------------------
(* What goes on in an invocation. *)
LEMMA SeqGrows ==
  ASSUME NEW S, NEW T, S \subseteq T
  PROVE  Seq(S) \subseteq Seq(T)
<1>1. ASSUME NEW s \in Seq(S)
      PROVE  s \in Seq(T)
  <2>1. Len(s) \in Nat /\ s \in [1 .. Len(s) -> S]
    OBVIOUS
  <2>2. s \in [1 .. Len(s) -> T]
    BY <2>1
  <2>3. QED
    BY <2>1, <2>2
<1>2. QED
  BY <1>1

LEMMA TrackingGrows ==
  ASSUME NEW h, NEW m \in Nat, NEW n \in Nat, m <= n, Tracking(h, m)
  PROVE  Tracking(h, n)
<1>1. 1 .. m \subseteq 1 .. n
  OBVIOUS
<1>2. QED
  BY <1>1 DEF Tracking

LEMMA CompileIs ==
  ASSUME HistoryInv, NEW m \in Methods, Compile(m)
  PROVE  /\ compiled' = compiled \cup {m} /\ compiled' \subseteq Methods
         /\ probed' \subseteq compiled' /\ probed \subseteq probed'
         /\ probed' = probed \/ (m \notin compiled /\ probed' = probed \cup {m})
         /\ mainFunctionId' \in probed' \cup {None}
         /\ collectedMethods' \in Seq(Methods)
         /\ Len(collectedMethods) \in Nat /\ Len(collectedMethods') \in Nat
         /\ Len(collectedMethods) <= Len(collectedMethods')
         /\ \A i \in 1 .. Len(collectedMethods) : collectedMethods'[i] = collectedMethods[i]
         /\ \A n \in probed' : \E i \in 1 .. Len(collectedMethods') : collectedMethods'[i] = n
<1>1. /\ collectedMethods \in Seq(Methods) /\ probed \subseteq compiled /\ compiled \subseteq Methods
      /\ mainFunctionId \in probed \cup {None}
      /\ \A n \in probed : \E i \in 1 .. Len(collectedMethods) : collectedMethods[i] = n
  BY DEF HistoryInv, HistoryTypes
<1>2. Len(collectedMethods) \in Nat
  BY <1>1
<1>3. CASE m \notin compiled /\ m = mainMethod
  <2>1. /\ compiled' = compiled \cup {m} /\ probed' = probed \cup {m} /\ mainFunctionId' = m
        /\ collectedMethods' = Append(collectedMethods, m)
    BY <1>3 DEF Compile
  <2>2. /\ collectedMethods' \in Seq(Methods)
        /\ Len(collectedMethods') = Len(collectedMethods) + 1
        /\ \A i \in 1 .. Len(collectedMethods) : collectedMethods'[i] = collectedMethods[i]
        /\ collectedMethods'[Len(collectedMethods) + 1] = m
    BY <1>1, <1>2, <2>1
  <2>3. ASSUME NEW n \in probed'
        PROVE  \E i \in 1 .. Len(collectedMethods') : collectedMethods'[i] = n
    <3>1. CASE n \in probed
      <4>1. PICK i \in 1 .. Len(collectedMethods) : collectedMethods[i] = n
        BY <1>1, <3>1
      <4>2. i \in 1 .. Len(collectedMethods') /\ collectedMethods'[i] = n
        BY <1>2, <2>2, <4>1
      <4>3. QED
        BY <4>2
    <3>2. CASE n = m
      <4>1. Len(collectedMethods) + 1 \in 1 .. Len(collectedMethods')
        BY <1>2, <2>2
      <4>2. QED
        BY <2>2, <3>2, <4>1
    <3>3. QED
      BY <2>1, <3>1, <3>2
  <2>4. Len(collectedMethods') \in Nat /\ Len(collectedMethods) <= Len(collectedMethods')
    BY <1>2, <2>2
  <2>5. QED
    BY <1>1, <1>2, <1>3, <2>1, <2>2, <2>3, <2>4
<1>4. CASE ~(m \notin compiled /\ m = mainMethod)
  <2>1. /\ compiled' = compiled \cup {m} /\ probed' = probed /\ mainFunctionId' = mainFunctionId
        /\ collectedMethods' = collectedMethods
    BY <1>4 DEF Compile
  <2>2. QED
    BY <1>1, <1>2, <2>1
<1>5. QED
  BY <1>3, <1>4

LEMMA IdIs ==
  ASSUME NEW S, NEW s \in Seq(S), NEW m, \E i \in 1 .. Len(s) : s[i] = m
  PROVE  /\ IdIn(s, m) \in 1 .. Len(s) /\ s[IdIn(s, m)] = m
         /\ IdIn(s, m) \in Nat \ {0}
<1>1. DOMAIN s = 1 .. Len(s) /\ Len(s) \in Nat
  OBVIOUS
<1>2. IdIn(s, m) \in 1 .. Len(s) /\ s[IdIn(s, m)] = m
  BY <1>1 DEF IdIn
<1>3. QED
  BY <1>1, <1>2

LEMMA EventLeaves ==
  ASSUME NEW t \in Tasks, NEW kind, Event(t, kind)
  PROVE  /\ pc[t] = "run"
         /\ UNCHANGED <<batch, pc, local, instances, result, typesCache, methods, mainMethod,
                        data, dataOffset, received, reading, sent, disturbed, overlapped>>
BY DEF Event, sharedVars, readerVars

(* An event of t changes only what is its own, and what is shared by all.  *)
LEMMA EventPlaces ==
  ASSUME ServiceInv, HistoryInv, NEW t \in Tasks, NEW kind, Event(t, kind),
         HitsVisited',
         mainFunctionId' \in probed' \cup {None},
         probed' \subseteq compiled', compiled' \subseteq Methods, compiled \subseteq compiled',
         collectedMethods' \in Seq(Methods),
         Len(collectedMethods) <= Len(collectedMethods'),
         \A n \in probed' : \E i \in 1 .. Len(collectedMethods') : collectedMethods'[i] = n,
         visitedMethods' \subseteq 1 .. Len(collectedMethods'),
         serializedCoverage' \in Seq(Held),
         stack' = [stack EXCEPT ![t] = stack'[t]], stack'[t] \in Seq(compiled'),
         executed' = [executed EXCEPT ![t] = executed'[t]], executed'[t] \subseteq Nat,
         balance' = [balance EXCEPT ![t] = balance'[t]], balance'[t] \in Int \cup {None},
         history' = [history EXCEPT ![t] = history'[t]],
         Tracking(history'[t], Len(collectedMethods')),
         balance'[t] = None => history'[t] = NoHistory,
         threadIdMapping' \subseteq threadIdMapping
  PROVE  HistoryInv'
<1>1. HistoryTypes /\ Placed(t)
  BY DEF HistoryInv
<1>2. /\ pc[t] = "run"
      /\ UNCHANGED <<batch, pc, local, instances, result, typesCache, methods, mainMethod,
                     data, dataOffset, received, reading, sent, disturbed, overlapped>>
  BY EventLeaves
<1>3. stack' \in [Tasks -> Seq(compiled')]
  <2>1. stack \in [Tasks -> Seq(compiled)]
    BY <1>1 DEF HistoryTypes
  <2>2. stack \in [Tasks -> Seq(compiled')]
    BY <2>1, SeqGrows
  <2>3. QED
    BY <2>2
<1>4. /\ executed' \in [Tasks -> SUBSET Nat] /\ balance' \in [Tasks -> Int \cup {None}]
      /\ DOMAIN history' = Tasks /\ history' = [u \in Tasks |-> history'[u]]
      /\ threadIdMapping' \subseteq Tasks
  BY <1>1 DEF HistoryTypes
<1>5. HistoryTypes'
  BY <1>1, <1>2, <1>3, <1>4 DEF HistoryTypes
<1>6. ASSUME NEW u \in Tasks \ {t}
      PROVE  Left(u) /\ Kept(u)
  <2>1. stack'[u] = stack[u] /\ executed'[u] = executed[u]
    BY <1>1 DEF HistoryTypes
  <2>2. balance'[u] = balance[u] /\ history'[u] = history[u]
    BY <1>1 DEF HistoryTypes
  <2>3. QED
    BY <1>2, <2>1, <2>2 DEF Left, Kept
<1>7. Placed(t)'
  BY <1>1, <1>2 DEF Placed, LookingUp, Testing, InHand, Comparing, Decoding
<1>8. QED
  BY <1>2, <1>5, <1>6, <1>7, OnePlaced

(* A frame that is left, and what it tracked. *)
LEMMA DownIs ==
  ASSUME HistoryInv, NEW t \in Tasks, NEW tracked, Tracking(tracked, Len(collectedMethods)),
         collectedMethods' = collectedMethods, balance[t] \in Int,
         StackBalanceDown(t, tracked)
  PROVE  /\ visitedMethods' \subseteq 1 .. Len(collectedMethods)
         /\ serializedCoverage' \in Seq(Held) /\ HitsVisited'
         /\ balance' = [balance EXCEPT ![t] = balance'[t]]
         /\ history' = [history EXCEPT ![t] = history'[t]]
         /\ Tracking(history'[t], Len(collectedMethods))
         /\ threadIdMapping' \subseteq threadIdMapping
         /\ \/ /\ balance[t] = 1 /\ balance'[t] = None /\ history'[t] = NoHistory
               /\ serializedCoverage' = Append(serializedCoverage,
                    [threadId |-> 0, aborted |-> FALSE, records |-> tracked.records])
            \/ /\ balance[t] # 1 /\ balance'[t] = balance[t] - 1 /\ history'[t] = tracked
               /\ serializedCoverage' = serializedCoverage
<1>1. /\ balance \in [Tasks -> Int \cup {None}] /\ DOMAIN history = Tasks
      /\ serializedCoverage \in Seq(Held) /\ HitsVisited
      /\ visitedMethods \subseteq 1 .. Len(collectedMethods)
      /\ collectedMethods \in Seq(Methods)
  BY DEF HistoryInv, HistoryTypes
<1>2. Len(collectedMethods) \in Nat
  BY <1>1
<1>3. CASE balance[t] = 1
  <2> DEFINE rep == [threadId |-> 0, aborted |-> FALSE, records |-> tracked.records]
  <2>1. /\ visitedMethods' = visitedMethods \cup tracked.methods
        /\ serializedCoverage' = Append(serializedCoverage, rep)
        /\ balance' = [balance EXCEPT ![t] = None]
        /\ history' = [history EXCEPT ![t] = NoHistory]
        /\ threadIdMapping' = threadIdMapping \ {t}
    BY <1>3 DEF StackBalanceDown, InvocationFinished
  <2>2. rep \in Held /\ rep.records = tracked.records
    BY DEF Tracking, Held
  <2> HIDE DEF rep
  <2>3. balance'[t] = None /\ history'[t] = NoHistory
    BY <1>1, <2>1
  <2>4. /\ serializedCoverage' \in Seq(Held)
        /\ Len(serializedCoverage) \in Nat
        /\ DOMAIN serializedCoverage = 1 .. Len(serializedCoverage)
        /\ DOMAIN serializedCoverage' = 1 .. Len(serializedCoverage) + 1
        /\ \A k \in 1 .. Len(serializedCoverage) : serializedCoverage'[k] = serializedCoverage[k]
        /\ serializedCoverage'[Len(serializedCoverage) + 1] = rep
    BY <1>1, <2>1, <2>2
  <2>5. HitsVisited'
    <3>1. ASSUME NEW k \in DOMAIN serializedCoverage',
                 NEW i \in DOMAIN serializedCoverage'[k].records
          PROVE  serializedCoverage'[k].records[i].method \in visitedMethods'
      <4>1. CASE k \in 1 .. Len(serializedCoverage)
        <5>1. serializedCoverage'[k] = serializedCoverage[k]
          BY <2>4, <4>1
        <5>2. serializedCoverage[k].records[i].method \in visitedMethods
          BY <1>1, <2>4, <3>1, <4>1, <5>1 DEF HitsVisited
        <5>3. QED
          BY <2>1, <5>1, <5>2
      <4>2. CASE k = Len(serializedCoverage) + 1
        <5>1. serializedCoverage'[k].records = tracked.records
          BY <2>2, <2>4, <4>2
        <5>2. tracked.records[i].method \in tracked.methods
          BY <3>1, <5>1 DEF Tracking
        <5>3. QED
          BY <2>1, <5>1, <5>2
      <4>3. QED
        BY <2>4, <3>1, <4>1, <4>2
    <3>2. QED
      BY <3>1 DEF HitsVisited
  <2>6. visitedMethods' \subseteq 1 .. Len(collectedMethods)
    BY <1>1, <2>1 DEF Tracking
  <2>7. Tracking(history'[t], Len(collectedMethods))
    BY <1>2, <2>3, NothingTracked
  <2>8. QED
    BY <1>3, <2>1, <2>3, <2>4, <2>5, <2>6, <2>7 DEF rep
<1>4. CASE balance[t] # 1
  <2>1. /\ balance' = [balance EXCEPT ![t] = balance[t] - 1]
        /\ history' = [history EXCEPT ![t] = tracked]
        /\ UNCHANGED <<visitedMethods, serializedCoverage, threadIdMapping>>
    BY <1>4 DEF StackBalanceDown
  <2>2. balance'[t] = balance[t] - 1 /\ history'[t] = tracked
    BY <1>1, <2>1
  <2>3. HitsVisited'
    BY <1>1, <2>1 DEF HitsVisited
  <2>4. QED
    BY <1>1, <1>4, <2>1, <2>2, <2>3
<1>5. QED
  BY <1>3, <1>4

LEMMA EnterPlaces ==
  ASSUME ServiceInv, HistoryInv, NEW t \in Tasks, Enter(t)
  PROVE  HistoryInv'
<1> DEFINE m == Head(todo[t]).method
<1>1. Event(t, "enter") /\ m \in Methods
  <2>1. Event(t, "enter")
    BY DEF Enter
  <2>2. Head(todo[t]) \in Events /\ Head(todo[t]).kind = "enter"
    BY <2>1, EventIs
  <2>3. QED
    BY <2>1, <2>2 DEF Events
<1>2. /\ Compile(m) /\ stack' = [stack EXCEPT ![t] = <<m>> \o stack[t]]
      /\ IF m \in probed' THEN Track_EnterMain(t, m) ELSE UNCHANGED <<balance, history>>
      /\ UNCHANGED <<executed, visitedMethods, serializedCoverage, threadIdMapping>>
  BY DEF Enter
<1> HIDE DEF m
<1>3. HistoryTypes /\ HitsVisited /\ Placed(t)
  BY DEF HistoryInv
<1>4. /\ stack \in [Tasks -> Seq(compiled)] /\ balance \in [Tasks -> Int \cup {None}]
      /\ DOMAIN history = Tasks /\ history = [u \in Tasks |-> history[u]]
      /\ executed \in [Tasks -> SUBSET Nat]
      /\ visitedMethods \subseteq 1 .. Len(collectedMethods) /\ serializedCoverage \in Seq(Held)
  BY <1>3 DEF HistoryTypes
<1>5. /\ stack' = [stack EXCEPT ![t] = stack'[t]] /\ stack'[t] \in Seq(compiled')
  <2>1. stack'[t] = <<m>> \o stack[t]
    BY <1>2, <1>4
  <2>2. stack[t] \in Seq(compiled') /\ m \in compiled'
    BY <1>1, <1>2, <1>4, CompileIs, SeqGrows
  <2>3. <<m>> \o stack[t] \in Seq(compiled')
    BY <2>2
  <2>4. QED
    BY <1>2, <2>1, <2>3
<1>6. /\ HitsVisited' /\ serializedCoverage' \in Seq(Held)
      /\ visitedMethods' \subseteq 1 .. Len(collectedMethods')
      /\ executed' = [executed EXCEPT ![t] = executed'[t]] /\ executed'[t] \subseteq Nat
      /\ threadIdMapping' \subseteq threadIdMapping
  <2>1. 1 .. Len(collectedMethods) \subseteq 1 .. Len(collectedMethods')
    <3>1. /\ Len(collectedMethods) \in Nat /\ Len(collectedMethods') \in Nat
          /\ Len(collectedMethods) <= Len(collectedMethods')
      BY <1>1, <1>2, CompileIs
    <3>2. QED
      BY <3>1
  <2>2. QED
    BY <1>2, <1>3, <1>4, <2>1 DEF HitsVisited
<1>7. Tracking(history[t], Len(collectedMethods'))
  BY <1>1, <1>2, <1>3, CompileIs, TrackingGrows DEF Placed
<1>8. /\ balance' = [balance EXCEPT ![t] = balance'[t]] /\ balance'[t] \in Int \cup {None}
      /\ history' = [history EXCEPT ![t] = history'[t]]
      /\ Tracking(history'[t], Len(collectedMethods'))
      /\ balance'[t] = None => history'[t] = NoHistory
  <2>1. CASE m \notin probed'
    BY <1>2, <1>3, <1>4, <1>7, <2>1 DEF Placed
  <2>2. CASE m \in probed' /\ Tracked(t)
    <3>1. balance' = [balance EXCEPT ![t] = balance[t] + 1] /\ history' = history
      BY <1>2, <2>2 DEF Track_EnterMain
    <3>2. balance[t] \in Int
      BY <1>4, <2>2 DEF Tracked
    <3>3. balance'[t] = balance[t] + 1 /\ balance'[t] \in Int /\ balance'[t] # None
      BY <1>4, <3>1, <3>2, ServiceAssumption
    <3>4. QED
      BY <1>4, <1>7, <3>1, <3>3
  <2>3. CASE m \in probed' /\ ~Tracked(t)
    <3> DEFINE h == [methods |-> {IdIn(collectedMethods', m)}, records |-> <<>>]
    <3>1. /\ balance' = [balance EXCEPT ![t] = 1]
          /\ history' = [history EXCEPT ![t] = h]
      BY <1>2, <2>3 DEF Track_EnterMain
    <3>2. balance'[t] = 1 /\ history'[t] = h /\ 1 # None /\ 1 \in Int
      BY <1>4, <3>1, ServiceAssumption
    <3>3. IdIn(collectedMethods', m) \in 1 .. Len(collectedMethods')
      BY <1>1, <1>2, <2>3, CompileIs, IdIs
    <3>4. Tracking(h, Len(collectedMethods'))
      <4>1. <<>> \in Seq([method : Nat \ {0}, offset : Nat]) /\ DOMAIN <<>> = {}
        OBVIOUS
      <4>2. QED
        BY <3>3, <4>1 DEF Tracking
    <3> HIDE DEF h
    <3>5. QED
      BY <3>1, <3>2, <3>4
  <2>4. QED
    BY <2>1, <2>2, <2>3
<1>9. /\ mainFunctionId' \in probed' \cup {None}
      /\ probed' \subseteq compiled' /\ compiled' \subseteq Methods /\ compiled \subseteq compiled'
      /\ collectedMethods' \in Seq(Methods)
      /\ Len(collectedMethods) <= Len(collectedMethods')
      /\ \A n \in probed' : \E i \in 1 .. Len(collectedMethods') : collectedMethods'[i] = n
  BY <1>1, <1>2, CompileIs
<1>10. QED
  BY <1>1, <1>5, <1>6, <1>8, <1>9, EventPlaces

(* The methods stay as they are: the other events. *)
LEMMA SameMethods ==
  ASSUME HistoryInv, UNCHANGED <<mainFunctionId, compiled, probed, collectedMethods>>
  PROVE  /\ mainFunctionId' \in probed' \cup {None}
         /\ probed' \subseteq compiled' /\ compiled' \subseteq Methods /\ compiled \subseteq compiled'
         /\ collectedMethods' \in Seq(Methods)
         /\ Len(collectedMethods) <= Len(collectedMethods')
         /\ \A n \in probed' : \E i \in 1 .. Len(collectedMethods') : collectedMethods'[i] = n
<1>1. HistoryTypes
  BY DEF HistoryInv
<1>2. collectedMethods \in Seq(Methods)
  BY <1>1 DEF HistoryTypes
<1>3. Len(collectedMethods) \in Nat
  BY <1>2
<1>4. QED
  BY <1>1, <1>3 DEF HistoryTypes

(* A record is added: its id is of the frame's method. *)
LEMMA RecordIs ==
  ASSUME HistoryInv, NEW t \in Tasks, NEW m \in probed, NEW offset \in Nat
  PROVE  LET h == [methods |-> history[t].methods \cup {IdOf(m)},
                   records |-> Append(history[t].records,
                                      [method |-> IdOf(m), offset |-> offset])]
         IN  /\ Tracking(h, Len(collectedMethods))
             /\ IdOf(m) \in 1 .. Len(collectedMethods) /\ collectedMethods[IdOf(m)] = m
<1> DEFINE id == IdOf(m)
           r == [method |-> id, offset |-> offset]
           rs == Append(history[t].records, r)
<1>1. collectedMethods \in Seq(Methods) /\ \E i \in 1 .. Len(collectedMethods) : collectedMethods[i] = m
  BY DEF HistoryInv, HistoryTypes
<1>2. /\ id \in 1 .. Len(collectedMethods) /\ collectedMethods[id] = m /\ id \in Nat \ {0}
  BY <1>1, IdIs DEF IdOf
<1> HIDE DEF id
<1>3. r \in [method : Nat \ {0}, offset : Nat] /\ r.method = id
  BY <1>2
<1> HIDE DEF r
<1>4. Tracking(history[t], Len(collectedMethods))
  BY DEF HistoryInv, Placed
<1>5. /\ history[t].records \in Seq([method : Nat \ {0}, offset : Nat])
      /\ history[t].methods \subseteq 1 .. Len(collectedMethods)
      /\ \A i \in DOMAIN history[t].records : history[t].records[i].method \in history[t].methods
  BY <1>4 DEF Tracking
<1> DEFINE old == history[t].records
<1>6. old \in Seq([method : Nat \ {0}, offset : Nat])
  BY <1>5
<1> HIDE DEF old
<1>7. /\ Append(old, r) \in Seq([method : Nat \ {0}, offset : Nat])
      /\ Len(old) \in Nat /\ DOMAIN old = 1 .. Len(old)
      /\ DOMAIN Append(old, r) = 1 .. Len(old) + 1
      /\ \A i \in 1 .. Len(old) : Append(old, r)[i] = old[i]
      /\ Append(old, r)[Len(old) + 1] = r
  BY <1>3, <1>6
<1>8. ASSUME NEW i \in DOMAIN Append(old, r)
      PROVE  Append(old, r)[i].method \in history[t].methods \cup {id}
  <2>1. CASE i \in 1 .. Len(old)
    BY <1>5, <1>7, <2>1 DEF old
  <2>2. CASE i = Len(old) + 1
    BY <1>3, <1>7, <2>2
  <2>3. QED
    BY <1>7, <1>8, <2>1, <2>2
<1>9. Tracking([methods |-> history[t].methods \cup {id}, records |-> Append(old, r)],
               Len(collectedMethods))
  BY <1>2, <1>5, <1>7, <1>8 DEF Tracking
<1>10. QED
  BY <1>2, <1>9 DEF id, r, old

LEMMA BlockPlaces ==
  ASSUME ServiceInv, HistoryInv, NEW t \in Tasks, Block(t)
  PROVE  HistoryInv'
<1> DEFINE offset == Head(todo[t]).offset
<1>1. Event(t, "block") /\ offset \in Nat
  <2>1. Event(t, "block")
    BY DEF Block
  <2>2. Head(todo[t]) \in Events /\ Head(todo[t]).kind = "block"
    BY <2>1, EventIs
  <2>3. QED
    BY <2>1, <2>2 DEF Events
<1>2. /\ IF Tracked(t) /\ Frame(t) \in probed
         THEN Track_Coverage(t, Frame(t), offset) ELSE UNCHANGED history
      /\ executed' = [executed EXCEPT ![t] =
                        IF Frame(t) = BatchMethod(t) THEN executed[t] \cup {offset} ELSE executed[t]]
      /\ UNCHANGED <<stack, mainFunctionId, compiled, probed, collectedMethods,
                     visitedMethods, serializedCoverage, balance, threadIdMapping>>
  BY DEF Block
<1> HIDE DEF offset
<1>3. HistoryTypes /\ HitsVisited /\ Placed(t)
  BY DEF HistoryInv
<1>4. /\ stack \in [Tasks -> Seq(compiled)] /\ balance \in [Tasks -> Int \cup {None}]
      /\ DOMAIN history = Tasks /\ history = [u \in Tasks |-> history[u]]
      /\ executed \in [Tasks -> SUBSET Nat]
      /\ visitedMethods \subseteq 1 .. Len(collectedMethods) /\ serializedCoverage \in Seq(Held)
  BY <1>3 DEF HistoryTypes
<1>5. /\ stack' = [stack EXCEPT ![t] = stack'[t]] /\ stack'[t] \in Seq(compiled')
      /\ balance' = [balance EXCEPT ![t] = balance'[t]] /\ balance'[t] \in Int \cup {None}
  BY <1>2, <1>4
<1>6. /\ executed' = [executed EXCEPT ![t] = executed'[t]] /\ executed'[t] \subseteq Nat
  BY <1>1, <1>2, <1>4
<1>7. /\ history' = [history EXCEPT ![t] = history'[t]]
      /\ Tracking(history'[t], Len(collectedMethods'))
      /\ balance'[t] = None => history'[t] = NoHistory
  <2>1. CASE Tracked(t) /\ Frame(t) \in probed
    <3> DEFINE h == [methods |-> history[t].methods \cup {IdOf(Frame(t))},
                     records |-> Append(history[t].records,
                                        [method |-> IdOf(Frame(t)), offset |-> offset])]
    <3>1. history' = [history EXCEPT ![t] = h] /\ balance[t] # None
      BY <1>2, <2>1 DEF Track_Coverage, Tracked
    <3>2. Tracking(h, Len(collectedMethods))
      BY <1>1, <2>1, RecordIs
    <3> HIDE DEF h
    <3>3. history'[t] = h
      BY <1>4, <3>1
    <3>4. QED
      BY <1>2, <3>1, <3>2, <3>3
  <2>2. CASE ~(Tracked(t) /\ Frame(t) \in probed)
    BY <1>2, <1>3, <1>4, <2>2 DEF Placed
  <2>3. QED
    BY <2>1, <2>2
<1>8. /\ HitsVisited' /\ serializedCoverage' \in Seq(Held)
      /\ visitedMethods' \subseteq 1 .. Len(collectedMethods')
      /\ threadIdMapping' \subseteq threadIdMapping
  BY <1>2, <1>3, <1>4 DEF HitsVisited
<1>9. QED
  BY <1>1, <1>2, <1>5, <1>6, <1>7, <1>8, SameMethods, EventPlaces

LEMMA PopIs ==
  ASSUME HistoryInv, NEW t \in Tasks, Pop(t)
  PROVE  /\ stack[t] # <<>> /\ stack[t] \in Seq(compiled) /\ Frame(t) \in compiled
         /\ stack' = [stack EXCEPT ![t] = stack'[t]] /\ stack'[t] = Tail(stack[t])
         /\ stack'[t] \in Seq(compiled')
         /\ UNCHANGED <<executed, mainFunctionId, compiled, probed, collectedMethods>>
         /\ executed' = [executed EXCEPT ![t] = executed'[t]] /\ executed'[t] \subseteq Nat
<1>1. stack \in [Tasks -> Seq(compiled)] /\ executed \in [Tasks -> SUBSET Nat]
  BY DEF HistoryInv, HistoryTypes
<1>2. /\ stack[t] # <<>> /\ stack' = [stack EXCEPT ![t] = Tail(stack[t])]
      /\ UNCHANGED <<executed, mainFunctionId, compiled, probed, collectedMethods>>
  BY DEF Pop
<1>3. stack[t] \in Seq(compiled)
  BY <1>1
<1>4. Head(stack[t]) \in compiled /\ Tail(stack[t]) \in Seq(compiled)
  BY <1>2, <1>3
<1>5. QED
  BY <1>1, <1>2, <1>3, <1>4 DEF Frame

(* The method of a frame that is left is marked. *)
LEMMA MarkIs ==
  ASSUME HistoryInv, NEW t \in Tasks, NEW m \in probed
  PROVE  LET h == [history[t] EXCEPT !.methods = @ \cup {IdOf(m)}]
         IN  /\ Tracking(h, Len(collectedMethods))
             /\ h.records = history[t].records
<1>1. IdOf(m) \in 1 .. Len(collectedMethods)
  <2>1. 0 \in Nat
    OBVIOUS
  <2>2. QED
    BY <2>1, RecordIs
<1>2. Tracking(history[t], Len(collectedMethods))
  BY DEF HistoryInv, Placed
<1>3. DOMAIN history[t] = {"methods", "records"}
  BY DEF HistoryInv, Placed, Tracking
<1> DEFINE h == [history[t] EXCEPT !.methods = @ \cup {IdOf(m)}]
<1>4. /\ h.methods = history[t].methods \cup {IdOf(m)} /\ h.records = history[t].records
      /\ DOMAIN h = {"methods", "records"}
  BY <1>3
<1> HIDE DEF h
<1>5. Tracking(h, Len(collectedMethods))
  BY <1>1, <1>2, <1>4 DEF Tracking
<1>6. QED
  BY <1>4, <1>5 DEF h

LEMMA LeavePlaces ==
  ASSUME ServiceInv, HistoryInv, NEW t \in Tasks, Leave(t) \/ Unwind(t)
  PROVE  HistoryInv'
<1>1. HistoryTypes /\ HitsVisited /\ Placed(t) /\ Pop(t) /\ \E kind : Event(t, kind)
  BY DEF HistoryInv, Leave, Unwind
<1>2. PICK kind : Event(t, kind)
  BY <1>1
<1>3. /\ balance \in [Tasks -> Int \cup {None}] /\ DOMAIN history = Tasks
      /\ history = [u \in Tasks |-> history[u]]
      /\ visitedMethods \subseteq 1 .. Len(collectedMethods) /\ serializedCoverage \in Seq(Held)
      /\ mainFunctionId \in probed \cup {None}
  BY <1>1 DEF HistoryTypes
<1>4. /\ visitedMethods' \subseteq 1 .. Len(collectedMethods)
      /\ serializedCoverage' \in Seq(Held) /\ HitsVisited'
      /\ balance' = [balance EXCEPT ![t] = balance'[t]] /\ balance'[t] \in Int \cup {None}
      /\ history' = [history EXCEPT ![t] = history'[t]]
      /\ Tracking(history'[t], Len(collectedMethods))
      /\ balance'[t] = None => history'[t] = NoHistory
      /\ threadIdMapping' \subseteq threadIdMapping
  <2>1. CASE UNCHANGED reportVars
    <3>1. UNCHANGED <<visitedMethods, serializedCoverage, balance, history, threadIdMapping>>
      BY <2>1 DEF reportVars
    <3>2. QED
      BY <1>1, <1>3, <3>1 DEF HitsVisited, Placed
  <2>2. ASSUME NEW tracked, Tracking(tracked, Len(collectedMethods)), Tracked(t),
               StackBalanceDown(t, tracked)
        PROVE  /\ visitedMethods' \subseteq 1 .. Len(collectedMethods)
               /\ serializedCoverage' \in Seq(Held) /\ HitsVisited'
               /\ balance' = [balance EXCEPT ![t] = balance'[t]] /\ balance'[t] \in Int \cup {None}
               /\ history' = [history EXCEPT ![t] = history'[t]]
               /\ Tracking(history'[t], Len(collectedMethods))
               /\ balance'[t] = None => history'[t] = NoHistory
               /\ threadIdMapping' \subseteq threadIdMapping
    <3>1. balance[t] \in Int
      BY <1>3, <2>2 DEF Tracked
    <3>2. balance[t] - 1 \in Int /\ balance[t] - 1 # None
      BY <3>1, ServiceAssumption
    <3>3. collectedMethods' = collectedMethods
      BY <1>1, PopIs
    <3>4. \/ balance'[t] = None /\ history'[t] = NoHistory
          \/ balance'[t] = balance[t] - 1
      BY <2>2, <3>1, <3>3, DownIs
    <3>5. QED
      BY <2>2, <3>1, <3>2, <3>3, <3>4, DownIs
  <2>3. CASE Leave(t) /\ Tracked(t) /\ Frame(t) \in probed
    <3> DEFINE tracked == [history[t] EXCEPT !.methods = @ \cup {IdOf(Frame(t))}]
    <3>1. StackBalanceDown(t, tracked)
      BY <2>3 DEF Leave
    <3>2. Tracking(tracked, Len(collectedMethods))
      BY <1>1, <2>3, MarkIs
    <3> HIDE DEF tracked
    <3>3. QED
      BY <2>2, <2>3, <3>1, <3>2
  <2>4. CASE Unwind(t) /\ Tracked(t) /\ Frame(t) = mainFunctionId
    <3>1. StackBalanceDown(t, history[t]) /\ Tracking(history[t], Len(collectedMethods))
      BY <1>1, <2>4 DEF Unwind, Placed
    <3>2. QED
      BY <2>2, <2>4, <3>1
  <2>5. QED
    BY <2>1, <2>3, <2>4 DEF Leave, Unwind
<1>5. collectedMethods' = collectedMethods
  BY <1>1, PopIs
<1>6. QED
  BY <1>1, <1>2, <1>4, <1>5, PopIs, SameMethods, EventPlaces

-----------------------------------------------------------------------------
(* Reading.  What is read from a history is of its type, wherever in it    *)
(* the reader is.                                                          *)
LEMMA WrittenIs ==
  ASSUME NEW c \in Written
  PROVE  /\ c.kind = "int" => c.value \in Nat
         /\ c.kind = "record" => c.value \in Hits
BY DEF Written

LEMMA ReadIntTypes ==
  ASSUME NEW bytes \in Seq(Written), NEW o \in Nat
  PROVE  LET r == ReadInt(bytes, o)
         IN  r.value \in Nat /\ r.next \in Nat
<1>1. CASE Are("int", bytes, o + 1, o + 1)
  <2>1. o + 1 <= Len(bytes) /\ bytes[o + 1].kind = "int"
    BY <1>1 DEF Are
  <2>2. bytes[o + 1] \in Written
    BY <2>1
  <2>3. bytes[o + 1].value \in Nat
    BY <2>1, <2>2, WrittenIs
  <2>4. ReadInt(bytes, o) = [ok |-> TRUE, value |-> bytes[o + 1].value, next |-> o + 1]
    BY <1>1 DEF ReadInt
  <2>5. QED
    BY <2>1, <2>3, <2>4
<1>2. CASE ~Are("int", bytes, o + 1, o + 1)
  <2>1. ReadInt(bytes, o) = [ok |-> FALSE, value |-> 0, next |-> o]
    BY <1>2 DEF ReadInt
  <2>2. QED
    BY <2>1
<1>3. QED
  BY <1>1, <1>2

LEMMA ReadStringTypes ==
  ASSUME NEW bytes \in Seq(Written), NEW o \in Nat
  PROVE  LET r == ReadString(bytes, o)
         IN  r.next \in Nat
<1> DEFINE size == ReadInt(bytes, o)
           last == size.next + size.value
<1>1. size.value \in Nat /\ size.next \in Nat
  BY ReadIntTypes
<1> DEFINE good == size.ok /\ size.value > 0 /\ Are("char", bytes, size.next + 1, last)
<1>2. ReadString(bytes, o) =
        [ok |-> good, value |-> ValuesAt(bytes, size.next + 1, last - 1), next |-> last]
  BY DEF ReadString
<1> HIDE DEF size
<1>3. last \in Nat
  BY <1>1
<1> HIDE DEF last, good
<1>4. QED
  BY <1>2, <1>3

LEMMA ReadMethodTypes ==
  ASSUME NEW bytes \in Seq(Written), NEW o \in Nat
  PROVE  LET r == ReadMethodEntry(bytes, o)
         IN  r.next \in Nat
<1> DEFINE r1 == ReadInt(bytes, o)
           r2 == ReadInt(bytes, r1.next)
           r3 == ReadString(bytes, r2.next)
           r4 == ReadString(bytes, r3.next)
<1>1. r1.next \in Nat
  BY ReadIntTypes
<1> HIDE DEF r1
<1>2. r2.next \in Nat
  BY <1>1, ReadIntTypes
<1> HIDE DEF r2
<1>3. r3.next \in Nat
  BY <1>2, ReadStringTypes
<1> HIDE DEF r3
<1>4. r4.next \in Nat
  BY <1>3, ReadStringTypes
<1> HIDE DEF r4
<1> DEFINE good == r1.ok /\ r2.ok /\ r3.ok /\ r4.ok
<1>5. ReadMethodEntry(bytes, o) =
        [ok |-> good, id |-> r1.value,
         value |-> [token |-> r2.value, assembly |-> r3.value, module |-> r4.value],
         next |-> r4.next]
  BY DEF ReadMethodEntry, r1, r2, r3, r4
<1> HIDE DEF good
<1>6. QED
  BY <1>4, <1>5

LEMMA ReadReportTypes ==
  ASSUME NEW bytes \in Seq(Written), NEW o \in Nat, ReadReportEntry(bytes, o).ok
  PROVE  LET r == ReadReportEntry(bytes, o)
         IN  r.next \in Nat /\ r.value \in ReadReports
<1> DEFINE r1 == ReadInt(bytes, o)
           r2 == ReadInt(bytes, r1.next)
           r3 == ReadInt(bytes, r2.next)
           last == r3.next + r3.value
           values == ValuesAt(bytes, r3.next + 1, last)
<1>1. r1.next \in Nat /\ r1.value \in Nat
  BY ReadIntTypes
<1> HIDE DEF r1
<1>2. r2.next \in Nat
  BY <1>1, ReadIntTypes
<1> HIDE DEF r2
<1>3. r3.next \in Nat /\ r3.value \in Nat
  BY <1>2, ReadIntTypes
<1> HIDE DEF r3
<1> DEFINE short == r1.ok /\ r2.ok
           good == r1.ok /\ r2.ok /\ r3.ok /\ Are("record", bytes, r3.next + 1, last)
<1>4. ReadReportEntry(bytes, o) =
        IF r2.value = 1
        THEN [ok |-> short, value |-> [threadId |-> r1.value, records |-> <<>>],
              next |-> r2.next]
        ELSE [ok |-> good, value |-> [threadId |-> r1.value, records |-> values], next |-> last]
  BY DEF ReadReportEntry, r1, r2, r3
<1> HIDE DEF short, good
<1>5. CASE r2.value = 1
  <2>1. <<>> \in Seq(Hits)
    OBVIOUS
  <2>2. [threadId |-> r1.value, records |-> <<>>] \in ReadReports
    BY <1>1, <2>1 DEF ReadReports
  <2>3. QED
    BY <1>2, <1>4, <1>5, <2>2
<1>6. CASE r2.value # 1
  <2> DEFINE first == r3.next + 1
  <2>1. Are("record", bytes, first, last)
    <3> HIDE DEF values, last
    <3>1. good
      BY <1>4, <1>6
    <3>2. QED
      BY <3>1 DEF good
  <2>2. last <= Len(bytes) /\ \A i \in first .. last : bytes[i].kind = "record"
    BY <2>1 DEF Are
  <2>3. last \in Nat /\ last - first + 1 = r3.value /\ first \in Nat \ {0}
    BY <1>3
  <2>4. ASSUME NEW i \in 1 .. r3.value
        PROVE  bytes[first + i - 1].value \in Hits
    <3> HIDE DEF first, last
    <3>1. first + i - 1 \in first .. last /\ first + i - 1 \in 1 .. Len(bytes)
      BY <1>3, <2>2, <2>3
    <3>2. bytes[first + i - 1] \in Written /\ bytes[first + i - 1].kind = "record"
      BY <2>2, <3>1
    <3>3. QED
      BY <3>2, WrittenIs
  <2>5. values = [i \in 1 .. r3.value |-> bytes[first + i - 1].value]
    BY <2>2, <2>3 DEF ValuesAt
  <2> HIDE DEF first, last, values
  <2>6. values \in Seq(Hits)
    BY <1>3, <2>4, <2>5
  <2>7. [threadId |-> r1.value, records |-> values] \in ReadReports
    BY <1>1, <2>6 DEF ReadReports
  <2>8. QED
    BY <1>4, <1>6, <2>2, <2>3, <2>7
<1>7. QED
  BY <1>5, <1>6

(* The reader of one request moves on. *)
LEMMA ReaderPlaces ==
  ASSUME ServiceInv, HistoryInv, NEW t \in Tasks,
         UNCHANGED <<batch, testVars, result, sharedVars, profilerVars, data, received, sent>>,
         dataOffset' \in Nat, DOMAIN reading' = Tasks,
         \A u \in Tasks \ {t} : reading'[u] = reading[u] /\ pc'[u] = pc[u],
         reading'[t].left \in Nat, reading'[t].reports \in Seq(ReadReports),
         pc[t] \in Decoding, pc'[t] \in {"methods", "reports"}
  PROVE  HistoryInv'
<1>1. Placed(t) /\ HistoryTypes /\ HitsVisited
  BY DEF HistoryInv
<1>2. /\ UNCHANGED <<batch, local, instances, executed, stack, result, received, sent, data>>
      /\ UNCHANGED <<typesCache, methods, mainMethod, mainFunctionId, compiled, probed,
                     collectedMethods, visitedMethods, serializedCoverage, balance, history,
                     threadIdMapping>>
  BY DEF testVars, callVars, profilerVars, codeVars, reportVars, sharedVars
<1>3. HistoryTypes'
  <2>1. \A u \in Tasks : reading'[u].left \in Nat /\ reading'[u].reports \in Seq(ReadReports)
    BY <1>1 DEF HistoryTypes
  <2>2. QED
    BY <1>1, <1>2, <2>1 DEF HistoryTypes
<1>4. HitsVisited'
  BY <1>1, <1>2 DEF HitsVisited
<1>5. \A u \in Tasks \ {t} : Left(u) /\ Kept(u)
  BY <1>2 DEF Left, Kept
<1>6. Placed(t)'
  BY <1>1, <1>2 DEF Placed, LookingUp, Testing, InHand, Comparing, Decoding
<1>7. Len(collectedMethods) <= Len(collectedMethods')
  <2>1. collectedMethods \in Seq(Methods)
    BY <1>1 DEF HistoryTypes
  <2>2. QED
    BY <1>2, <2>1
<1>8. QED
  BY <1>2, <1>3, <1>4, <1>5, <1>6, <1>7, OnePlaced

LEMMA ReadsPlaces ==
  ASSUME ServiceInv, HistoryInv, NEW t \in Tasks, Reads(t)
  PROVE  HistoryInv'
<1>1. pc \in [Tasks -> Places] /\ HistoryTypes
  BY DEF HistoryInv, ServiceInv, ServiceTypes
<1>2. /\ data \in Seq(Written) /\ dataOffset \in Nat /\ DOMAIN reading = Tasks
      /\ reading[t].left \in Nat /\ reading[t].reports \in Seq(ReadReports)
  BY <1>1 DEF HistoryTypes
<1>3. UNCHANGED <<comparerVars, batch, testVars, result, sharedVars, profilerVars, data,
                  received, sent, overlapped>>
  BY DEF Reads
<1>4. /\ dataOffset' \in Nat
      /\ DOMAIN reading' = Tasks /\ \A u \in Tasks \ {t} : reading'[u] = reading[u]
      /\ reading'[t].left \in Nat /\ reading'[t].reports \in Seq(ReadReports)
  <2>1. CASE ReadCount(t, "methodCount", "methods") \/ ReadCount(t, "methods", "reports")
    <3> DEFINE count == ReadInt(data, dataOffset)
    <3>1. /\ count.ok /\ dataOffset' = count.next
          /\ reading' = [reading EXCEPT ![t].left = count.value]
      BY <2>1 DEF ReadCount
    <3>2. count.value \in Nat /\ count.next \in Nat
      BY <1>2, <3>1, ReadIntTypes
    <3> HIDE DEF count
    <3>3. reading'[t].left = count.value /\ reading'[t].reports = reading[t].reports
      BY <1>2, <3>1
    <3>4. QED
      BY <1>2, <3>1, <3>2, <3>3
  <2>2. CASE ReadMethod(t)
    <3> DEFINE entry == ReadMethodEntry(data, dataOffset)
    <3>1. entry.ok /\ dataOffset' = entry.next /\ reading[t].left > 0
      BY <2>2 DEF ReadMethod, Reader
    <3>2. PICK f : reading' = [reading EXCEPT ![t].left = @ - 1, ![t].methods = f]
      BY <2>2 DEF ReadMethod
    <3>3. entry.next \in Nat
      BY <1>2, <3>1, ReadMethodTypes
    <3> HIDE DEF entry
    <3>4. reading'[t].left = reading[t].left - 1 /\ reading'[t].reports = reading[t].reports
      BY <1>2, <3>2
    <3>5. reading[t].left - 1 \in Nat
      BY <1>2, <3>1
    <3>6. QED
      BY <1>2, <3>1, <3>2, <3>3, <3>4, <3>5
  <2>3. CASE ReadReport(t)
    <3> DEFINE entry == ReadReportEntry(data, dataOffset)
    <3>1. /\ entry.ok /\ dataOffset' = entry.next /\ reading[t].left > 0
          /\ reading' = [reading EXCEPT ![t].left = @ - 1,
                                        ![t].reports = Append(@, entry.value)]
      BY <2>3 DEF ReadReport, Reader
    <3>2. entry.next \in Nat /\ entry.value \in ReadReports
      BY <1>2, <3>1, ReadReportTypes
    <3> HIDE DEF entry
    <3>3. /\ reading'[t].left = reading[t].left - 1
          /\ reading'[t].reports = Append(reading[t].reports, entry.value)
      BY <1>2, <3>1
    <3>4. /\ reading[t].left - 1 \in Nat
          /\ Append(reading[t].reports, entry.value) \in Seq(ReadReports)
      BY <1>2, <3>1, <3>2
    <3>5. QED
      BY <1>2, <3>1, <3>2, <3>3, <3>4
  <2>4. QED
    BY <2>1, <2>2, <2>3 DEF Reads
<1>5. /\ \A u \in Tasks \ {t} : pc'[u] = pc[u]
      /\ pc[t] \in Decoding /\ pc'[t] \in {"methods", "reports"}
  <2>1. CASE ReadCount(t, "methodCount", "methods") \/ ReadCount(t, "methods", "reports")
    BY <1>1, <2>1 DEF ReadCount, Goto, Decoding
  <2>2. CASE ReadMethod(t) \/ ReadReport(t)
    BY <2>2 DEF ReadMethod, ReadReport, Decoding
  <2>3. QED
    BY <2>1, <2>2 DEF Reads
<1>6. QED
  BY <1>3, <1>4, <1>5, ReaderPlaces

(* What is read when others move the offset is a history all the same. *)
LEMMA DecodedIs ==
  ASSUME NEW M, NEW R, Told(M, R), NEW h, h.methods = M, h.reports = R
  PROVE  Decoded(h).reports \in Seq(ReadReports)
<1>1. R \in Seq(SentReports)
  BY DEF Told
<1>2. Len(R) \in Nat /\ DOMAIN R = 1 .. Len(R) /\ \A i \in 1 .. Len(R) : R[i] \in SentReports
  BY <1>1
<1>3. \A i \in 1 .. Len(R) : [threadId |-> R[i].threadId, records |-> R[i].records] \in ReadReports
  BY <1>2 DEF SentReports, ReadReports
<1>4. Decoded(h).reports =
        [i \in 1 .. Len(R) |-> [threadId |-> R[i].threadId, records |-> R[i].records]]
  BY <1>2 DEF Decoded
<1>5. QED
  BY <1>2, <1>3, <1>4

LEMMA DisturbedPlaces ==
  ASSUME ServiceInv, HistoryInv, NEW t \in Tasks, DisturbedReads(t)
  PROVE  HistoryInv'
<1>1. pc \in [Tasks -> Places] /\ DOMAIN reading = Tasks
  BY DEF HistoryInv, HistoryTypes, ServiceInv, ServiceTypes
<1>2. PICK h \in Garbage \cup {Decoded(sent[u]) : u \in {v \in Tasks : sent[v] # None}} :
        reading' = [reading EXCEPT ![t] =
                      [left |-> 0, methods |-> h.methods, reports |-> h.reports]]
  BY DEF DisturbedReads
<1>3. h.reports \in Seq(ReadReports)
  <2>1. CASE h \in Garbage
    BY <2>1, ServiceAssumption DEF ReadReports, Hits
  <2>2. CASE h \notin Garbage
    <3>1. PICK u \in Tasks : sent[u] # None /\ h = Decoded(sent[u])
      BY <1>2, <2>2
    <3>2. Told(sent[u].methods, sent[u].reports)
      BY <3>1 DEF HistoryInv, Placed
    <3>3. QED
      BY <3>1, <3>2, DecodedIs
  <2>3. QED
    BY <2>1, <2>2
<1>4. /\ reading'[t].left = 0 /\ reading'[t].reports = h.reports /\ DOMAIN reading' = Tasks
      /\ \A u \in Tasks \ {t} : reading'[u] = reading[u]
  BY <1>1, <1>2
<1>5. /\ pc[t] \in Decoding /\ pc' = [pc EXCEPT ![t] = "reports"] /\ dataOffset' \in Nat
      /\ UNCHANGED <<batch, testVars, result, sharedVars, profilerVars, data, received, sent>>
  BY ServiceAssumption DEF DisturbedReads, Using, Goto, Decoding
<1>6. QED
  BY <1>1, <1>3, <1>4, <1>5, ReaderPlaces

-----------------------------------------------------------------------------
(* What a request is sent: records with ids from 0, and the methods.       *)
LEMMA ShiftedIs ==
  ASSUME NEW rs \in Seq([method : Nat \ {0}, offset : Nat])
  PROVE  /\ ShiftedRecords(rs) \in Seq(Hits) /\ DOMAIN ShiftedRecords(rs) = DOMAIN rs
         /\ \A j \in DOMAIN rs : /\ ShiftedRecords(rs)[j].method = rs[j].method - 1
                                 /\ ShiftedRecords(rs)[j].offset = rs[j].offset
                                 /\ rs[j].method \in Nat \ {0} /\ rs[j].offset \in Nat
<1>1. /\ DOMAIN rs = 1 .. Len(rs) /\ Len(rs) \in Nat
      /\ \A j \in 1 .. Len(rs) : rs[j] \in [method : Nat \ {0}, offset : Nat]
  <2> DEFINE T == [method : Nat \ {0}, offset : Nat]
  <2>1. rs \in Seq(T)
    OBVIOUS
  <2> HIDE DEF T
  <2>2. DOMAIN rs = 1 .. Len(rs) /\ Len(rs) \in Nat /\ \A j \in 1 .. Len(rs) : rs[j] \in T
    BY <2>1
  <2>3. QED
    BY <2>2 DEF T
<1>2. ASSUME NEW j \in 1 .. Len(rs)
      PROVE  /\ [rs[j] EXCEPT !.method = @ - 1]
                  = [method |-> rs[j].method - 1, offset |-> rs[j].offset]
             /\ rs[j].method - 1 \in Nat /\ rs[j].offset \in Nat /\ rs[j].method \in Nat \ {0}
  BY <1>1
<1>3. ShiftedRecords(rs) =
        [j \in 1 .. Len(rs) |-> [method |-> rs[j].method - 1, offset |-> rs[j].offset]]
  BY <1>1, <1>2 DEF ShiftedRecords
<1>4. \A j \in 1 .. Len(rs) : [method |-> rs[j].method - 1, offset |-> rs[j].offset] \in Hits
  BY <1>2 DEF Hits
<1>5. QED
  BY <1>1, <1>2, <1>3, <1>4

(* The reports a request is sent: those held, then perhaps one without     *)
(* records.                                                                *)
LEMMA ReportsSent ==
  ASSUME HistoryInv, NEW R, R = CellsOf(serializedCoverage \o EmptyReports)
  PROVE  LET n == Len(serializedCoverage)
         IN  /\ R \in Seq(SentReports) /\ DOMAIN R = 1 .. Len(R) /\ n \in Nat /\ n <= Len(R)
             /\ Len(R) \in Nat
             /\ \A k \in 1 .. n : /\ R[k].records = ShiftedRecords(serializedCoverage[k].records)
                                  /\ R[k].aborted = FALSE
             /\ \A k \in 1 .. Len(R) : k > n => R[k].records = <<>>
<1> DEFINE S == serializedCoverage
           n == Len(S)
           H == S \o EmptyReports
           All == [threadId : {0}, aborted : BOOLEAN,
                   records : Seq([method : Nat \ {0}, offset : Nat])]
           e == [threadId |-> 0, aborted |-> TRUE, records |-> <<>>]
<1>1. S \in Seq(Held) /\ n \in Nat /\ S \in Seq(All) /\ \A k \in 1 .. n : S[k] \in Held
  <2>1. S \in Seq(Held)
    BY DEF HistoryInv, HistoryTypes
  <2>2. Held \subseteq All
    BY DEF Held
  <2> HIDE DEF All
  <2>3. QED
    BY <2>1, <2>2
<1>2. EmptyReports \in Seq(All) /\ \A k \in 1 .. Len(EmptyReports) : EmptyReports[k] = e
  <2>1. e \in All
    <3>1. <<>> \in Seq([method : Nat \ {0}, offset : Nat])
      OBVIOUS
    <3>2. QED
      BY <3>1
  <2>2. EmptyReports = <<>> \/ EmptyReports = <<e>>
    BY DEF EmptyReports
  <2> HIDE DEF All, e
  <2>3. CASE EmptyReports = <<>>
    BY <2>3
  <2>4. CASE EmptyReports = <<e>>
    <3>1. <<e>> \in Seq(All) /\ Len(<<e>>) = 1 /\ \A k \in 1 .. 1 : <<e>>[k] = e
      BY <2>1
    <3>2. QED
      BY <2>4, <3>1
  <2>5. QED
    BY <2>2, <2>3, <2>4
<1> HIDE DEF All
<1>3. /\ H \in Seq(All) /\ Len(H) = n + Len(EmptyReports)
      /\ \A i \in 1 .. n : H[i] = S[i]
      /\ \A i \in 1 .. Len(EmptyReports) : H[n + i] = EmptyReports[i]
  BY <1>1, <1>2, Joined
<1>4. Len(EmptyReports) \in Nat
  BY <1>2
<1> DEFINE N == Len(H)
<1>5. N \in Nat /\ n <= N /\ DOMAIN H = 1 .. N /\ \A k \in 1 .. N : H[k] \in All
  BY <1>1, <1>3, <1>4
<1>6. \A k \in 1 .. N : k > n => H[k] = e
  <2>1. ASSUME NEW k \in 1 .. N, k > n
        PROVE  H[k] = e
    <3> DEFINE i == k - n
    <3>1. i \in 1 .. Len(EmptyReports) /\ n + i = k
      BY <1>1, <1>3, <1>4, <2>1
    <3> HIDE DEF i, H
    <3>2. QED
      BY <1>2, <1>3, <3>1
  <2>2. QED
    BY <2>1
<1> HIDE DEF H, S
<1>7. R = [k \in 1 .. N |-> [H[k] EXCEPT !.records = ShiftedRecords(H[k].records)]]
  <2>1. R = [k \in DOMAIN H |-> [H[k] EXCEPT !.records = ShiftedRecords(H[k].records)]]
    BY DEF CellsOf, H, S
  <2>2. QED
    BY <1>5, <2>1
<1>8. ASSUME NEW k \in 1 .. N
      PROVE  /\ R[k].records = ShiftedRecords(H[k].records) /\ R[k].aborted = H[k].aborted
             /\ R[k] \in SentReports
  <2>1. /\ H[k] = [threadId |-> 0, aborted |-> H[k].aborted, records |-> H[k].records]
        /\ H[k].aborted \in BOOLEAN
        /\ H[k].records \in Seq([method : Nat \ {0}, offset : Nat])
    BY <1>5 DEF All
  <2>2. R[k] = [H[k] EXCEPT !.records = ShiftedRecords(H[k].records)]
    BY <1>7
  <2>3. ShiftedRecords(H[k].records) \in Seq(Hits)
    BY <2>1, ShiftedIs
  <2>4. R[k] = [threadId |-> 0, aborted |-> H[k].aborted,
                records |-> ShiftedRecords(H[k].records)]
    BY <2>1, <2>2
  <2>5. QED
    BY <2>1, <2>3, <2>4 DEF SentReports
<1>9. R \in Seq(SentReports) /\ Len(R) = N /\ DOMAIN R = 1 .. N
  <2> HIDE DEF N
  <2>1. R \in [1 .. N -> SentReports]
    BY <1>7, <1>8
  <2>2. QED
    BY <1>5, <2>1
<1>10. ASSUME NEW k \in 1 .. n
       PROVE  /\ R[k].records = ShiftedRecords(serializedCoverage[k].records)
              /\ R[k].aborted = FALSE
  <2>1. k \in 1 .. N
    <3>1. n \in Nat /\ N \in Nat /\ n <= N
      BY <1>1, <1>5
    <3> HIDE DEF n, N
    <3>2. QED
      BY <3>1
  <2>2. H[k] = S[k] /\ S[k] \in Held
    BY <1>1, <1>3
  <2>3. S[k].aborted = FALSE
    BY <2>2 DEF Held
  <2>4. /\ R[k].records = ShiftedRecords(H[k].records)
        /\ R[k].aborted = H[k].aborted
    BY <1>8, <2>1
  <2>5. QED
    BY <2>2, <2>3, <2>4 DEF S
<1>11. ASSUME NEW k \in 1 .. N, k > n
       PROVE  R[k].records = <<>>
  <2>1. H[k].records = <<>>
    BY <1>6, <1>11
  <2>2. ShiftedRecords(<<>>) = <<>>
    BY DEF ShiftedRecords
  <2>3. R[k].records = ShiftedRecords(H[k].records)
    BY <1>8
  <2>4. QED
    BY <2>1, <2>2, <2>3
<1>12. QED
  BY <1>1, <1>5, <1>9, <1>10, <1>11 DEF S

LEMMA HistorySent ==
  ASSUME HistoryInv, NEW M, M = VisitedInfos,
         NEW R, R = CellsOf(serializedCoverage \o EmptyReports)
  PROVE  /\ Told(M, R) /\ Serialize(M, R) \in Seq(Written)
         /\ \E mo, ro : Layout(Serialize(M, R), M, R, mo, ro)
<1> DEFINE N == Len(collectedMethods)
           n == Len(serializedCoverage)
<1>1. /\ collectedMethods \in Seq(Methods) /\ N \in Nat /\ visitedMethods \subseteq 1 .. N
      /\ \A i \in 1 .. N : InfoOf[collectedMethods[i]] \in MethodInfos
  <2>1. collectedMethods \in Seq(Methods) /\ visitedMethods \subseteq 1 .. N
    BY DEF HistoryInv, HistoryTypes
  <2>2. N \in Nat /\ \A i \in 1 .. N : collectedMethods[i] \in Methods
    BY <2>1
  <2>3. QED
    BY <2>1, <2>2, ServiceAssumption
<1>2. /\ DOMAIN M = {i - 1 : i \in visitedMethods} /\ M = [id \in DOMAIN M |-> M[id]]
      /\ \A id \in DOMAIN M : M[id] = InfoOf[collectedMethods[id + 1]]
  BY DEF VisitedInfos
<1>3. DOMAIN M \in SUBSET (0 .. N - 1) /\ \A id \in DOMAIN M : id + 1 \in 1 .. N
  <2>1. ASSUME NEW id \in DOMAIN M
        PROVE  id \in 0 .. N - 1 /\ id + 1 \in 1 .. N
    <3>1. PICK i \in visitedMethods : id = i - 1
      BY <1>2
    <3>2. i \in 1 .. N
      BY <1>1
    <3>3. QED
      BY <1>1, <3>1, <3>2
  <2>2. QED
    BY <2>1
<1>4. \A id \in DOMAIN M : M[id] \in MethodInfos
  BY <1>1, <1>2, <1>3
<1>5. /\ R \in Seq(SentReports) /\ DOMAIN R = 1 .. Len(R) /\ n \in Nat /\ n <= Len(R)
      /\ Len(R) \in Nat
      /\ \A k \in 1 .. n : /\ R[k].records = ShiftedRecords(serializedCoverage[k].records)
                           /\ R[k].aborted = FALSE
      /\ \A k \in 1 .. Len(R) : k > n => R[k].records = <<>>
  BY ReportsSent
<1>6. ASSUME NEW k \in DOMAIN R
      PROVE  /\ R[k].aborted => R[k].records = <<>>
             /\ \A i \in DOMAIN R[k].records : R[k].records[i].method \in DOMAIN M
  <2>1. CASE k \in 1 .. n
    <3> DEFINE rs == serializedCoverage[k].records
    <3>1. R[k].records = ShiftedRecords(rs) /\ R[k].aborted = FALSE
      BY <1>5, <2>1
    <3>2. k \in DOMAIN serializedCoverage /\ rs \in Seq([method : Nat \ {0}, offset : Nat])
      <4>1. serializedCoverage \in Seq(Held)
        BY DEF HistoryInv, HistoryTypes
      <4>2. k \in DOMAIN serializedCoverage /\ serializedCoverage[k] \in Held
        BY <2>1, <4>1
      <4>3. QED
        BY <4>2 DEF Held
    <3>3. \A i \in DOMAIN rs : rs[i].method \in visitedMethods
      BY <3>2 DEF HistoryInv, HitsVisited
    <3> HIDE DEF rs
    <3>4. \A i \in DOMAIN R[k].records :
            i \in DOMAIN rs /\ R[k].records[i].method = rs[i].method - 1
      BY <3>1, <3>2, ShiftedIs
    <3>5. QED
      BY <1>2, <3>1, <3>3, <3>4
  <2>2. CASE k \notin 1 .. n
    <3>1. k \in 1 .. Len(R) /\ k > n
      BY <1>5, <2>2
    <3>2. R[k].records = <<>> /\ DOMAIN <<>> = {}
      BY <1>5, <3>1
    <3>3. QED
      BY <3>2
  <2>3. QED
    BY <2>1, <2>2
<1> HIDE DEF N
<1>7. Told(M, R)
  BY <1>1, <1>2, <1>3, <1>4, <1>5, <1>6 DEF Told
<1>8. /\ Serialize(M, R) \in Seq(Written)
      /\ \E mo, ro : Layout(Serialize(M, R), M, R, mo, ro)
  BY <1>1, <1>3, <1>4, <1>5, SerializeLaid
<1>9. QED
  BY <1>7, <1>8

LEMMA AskPlaces ==
  ASSUME ServiceInv, HistoryInv, NEW t \in Tasks, GetRawHistory(t)
  PROVE  HistoryInv'
<1> DEFINE M == VisitedInfos
           R == CellsOf(serializedCoverage \o EmptyReports)
<1>1. pc \in [Tasks -> Places] /\ Placed(t) /\ HistoryTypes /\ HitsVisited
  BY DEF HistoryInv, ServiceInv, ServiceTypes
<1>2. /\ UNCHANGED <<batch, testVars, result, sharedVars, codeVars, visitedMethods, data,
                     dataOffset, reading>>
      /\ pc[t] = "resolve" /\ pc' = [pc EXCEPT ![t] = "start"]
      /\ received' = [received EXCEPT ![t] = Serialize(M, R)]
      /\ sent' = [sent EXCEPT ![t] = [methods |-> M, reports |-> R]]
      /\ serializedCoverage' = <<>> /\ threadIdMapping' = {}
      /\ balance' = [u \in Tasks |-> None] /\ history' = [u \in Tasks |-> NoHistory]
  BY DEF GetRawHistory, HistoryCleared, ThreadsCleared, Goto
<1>3. Told(M, R) /\ Serialize(M, R) \in Seq(Written)
  BY HistorySent
<1> HIDE DEF M, R
<1>4. /\ UNCHANGED <<batch, local, instances, executed, stack, result, data, dataOffset, reading>>
      /\ UNCHANGED <<typesCache, methods, mainMethod, mainFunctionId, compiled, probed,
                     collectedMethods, visitedMethods>>
  BY <1>2 DEF testVars, callVars, codeVars, sharedVars
<1>5. /\ received \in [Tasks -> Seq(Written)] /\ DOMAIN sent = Tasks
      /\ collectedMethods \in Seq(Methods)
  BY <1>1 DEF HistoryTypes
<1>6. /\ received' \in [Tasks -> Seq(Written)] /\ DOMAIN sent' = Tasks
      /\ sent'[t] = [methods |-> M, reports |-> R]
      /\ \A u \in Tasks \ {t} : received'[u] = received[u] /\ sent'[u] = sent[u]
  BY <1>2, <1>3, <1>5
<1>7. serializedCoverage' \in Seq(Held) /\ HitsVisited'
  <2>1. <<>> \in Seq(Held) /\ DOMAIN <<>> = {}
    OBVIOUS
  <2>2. QED
    BY <1>2, <2>1 DEF HitsVisited
<1>8. HistoryTypes'
  <2>1. /\ balance' \in [Tasks -> Int \cup {None}] /\ DOMAIN history' = Tasks
        /\ history' = [u \in Tasks |-> history'[u]] /\ threadIdMapping' \subseteq Tasks
    BY <1>2
  <2>2. QED
    BY <1>1, <1>4, <1>6, <1>7, <2>1 DEF HistoryTypes
<1>9. pc'[t] = "start" /\ \A u \in Tasks \ {t} : pc'[u] = pc[u]
  BY <1>1, <1>2
<1>10. \A u \in Tasks \ {t} : Left(u) /\ Kept(u)
  BY <1>2, <1>4, <1>6, <1>9 DEF Left, Kept
<1>11. Placed(t)'
  <2>1. Tracking(NoHistory, Len(collectedMethods))
    BY <1>5, NothingTracked
  <2>2. /\ t \notin threadIdMapping' /\ balance'[t] = None /\ history'[t] = NoHistory
    BY <1>2
  <2>3. Told(sent'[t].methods, sent'[t].reports)
    BY <1>3, <1>6
  <2>4. QED
    BY <1>1, <1>2, <1>4, <1>9, <2>1, <2>2, <2>3
       DEF Placed, LookingUp, Testing, InHand, Comparing, Decoding
<1>12. Len(collectedMethods) <= Len(collectedMethods') /\ threadIdMapping' \subseteq threadIdMapping \cup {t}
  BY <1>2, <1>4, <1>5
<1>13. QED
  BY <1>4, <1>7, <1>8, <1>10, <1>11, <1>12, OnePlaced

LEMMA StartPlaces ==
  ASSUME ServiceInv, HistoryInv, NEW t \in Tasks, StartNewDeserialization(t)
  PROVE  HistoryInv'
<1>1. pc \in [Tasks -> Places] /\ Placed(t) /\ HistoryTypes /\ HitsVisited
  BY DEF HistoryInv, ServiceInv, ServiceTypes
<1>2. /\ pc[t] = "start" /\ pc' = [pc EXCEPT ![t] = "methodCount"]
      /\ data' = received[t] /\ dataOffset' = 0
      /\ UNCHANGED <<batch, testVars, result, sharedVars, profilerVars, received, reading, sent>>
  BY DEF StartNewDeserialization, OffsetReset, Goto
<1>3. /\ UNCHANGED <<batch, local, instances, executed, stack, result, received, sent, reading>>
      /\ UNCHANGED <<typesCache, methods, mainMethod, mainFunctionId, compiled, probed,
                     collectedMethods, visitedMethods, serializedCoverage, balance, history,
                     threadIdMapping>>
  BY <1>2 DEF testVars, callVars, profilerVars, codeVars, reportVars, sharedVars
<1>4. data' \in Seq(Written) /\ dataOffset' \in Nat /\ collectedMethods \in Seq(Methods)
  BY <1>1, <1>2 DEF HistoryTypes
<1>5. HistoryTypes' /\ HitsVisited'
  BY <1>1, <1>3, <1>4 DEF HistoryTypes, HitsVisited
<1>6. pc'[t] = "methodCount" /\ \A u \in Tasks \ {t} : pc'[u] = pc[u]
  BY <1>1, <1>2
<1>7. \A u \in Tasks \ {t} : Left(u) /\ Kept(u)
  BY <1>3, <1>6 DEF Left, Kept
<1>8. Placed(t)'
  BY <1>1, <1>2, <1>3, <1>6 DEF Placed, LookingUp, Testing, InHand, Comparing, Decoding
<1>9. Len(collectedMethods) <= Len(collectedMethods')
  BY <1>3, <1>4
<1>10. QED
  BY <1>3, <1>5, <1>7, <1>8, <1>9, OnePlaced

(* The answer is a result. *)
LEMMA VisitedIs ==
  ASSUME HistoryInv, NEW t \in Tasks
  PROVE  Visited(t) \subseteq Nat
<1>1. \A r \in Records(t) : r.offset \in Nat
  <2>1. ASSUME NEW r \in Records(t)
        PROVE  r.offset \in Nat
    <3>1. reading[t].reports \in Seq(ReadReports)
      BY DEF HistoryInv, HistoryTypes
    <3>2. \A j \in DOMAIN reading[t].reports : reading[t].reports[j] \in ReadReports
      BY <3>1
    <3>3. PICK j \in DOMAIN reading[t].reports :
            r \in {reading[t].reports[j].records[i] : i \in DOMAIN reading[t].reports[j].records}
      BY DEF Records, Reader
    <3>4. PICK i \in DOMAIN reading[t].reports[j].records :
            r = reading[t].reports[j].records[i]
      BY <3>3
    <3>5. reading[t].reports[j].records \in Seq(Hits)
      BY <3>2 DEF ReadReports
    <3>6. r \in Hits
      BY <3>4, <3>5
    <3>7. QED
      BY <3>6 DEF Hits
  <2>2. QED
    BY <2>1
<1>2. QED
  BY <1>1 DEF Visited

LEMMA AnswerPlaces ==
  ASSUME ServiceInv, HistoryInv, NEW t \in Tasks, ComputeCoverage(t)
  PROVE  HistoryInv'
<1>1. Placed(t) /\ local[t] \in Locals
  BY DEF HistoryInv, ServiceInv, ServiceTypes
<1>2. /\ UNCHANGED <<comparerVars, batch, testVars, sharedVars, profilerVars, readerVars>>
      /\ pc' = [pc EXCEPT ![t] = "done"] /\ pc[t] = "reports"
      /\ \/ result' = [result EXCEPT ![t] = [kind |-> "success", coverage |-> Visited(t)]]
         \/ result' = [result EXCEPT ![t] = FailResult(t)]
  BY DEF ComputeCoverage, Answer, Goto, Deserialized
<1>3. pc'[t] = "done" /\ result' = [result EXCEPT ![t] = result'[t]]
      /\ result'[t] \in Results /\ result'[t] # None
  <2>1. [kind |-> "success", coverage |-> Visited(t)] \in Results
    BY VisitedIs DEF Results
  <2>2. FailResult(t) \in Results
    BY <1>1, VisitedIs DEF Results, FailResult, Locals
  <2>3. QED
    BY <1>2, <2>1, <2>2, Domains, ServiceAssumption
<1>4. QuietStep(t)
  BY <1>2, <1>3, Domains DEF QuietStep, testVars, callVars, profilerVars, codeVars, reportVars
<1>5. /\ local' = local /\ instances' = instances /\ threadIdMapping' = threadIdMapping
      /\ mainMethod' = mainMethod /\ typesCache' = typesCache /\ methods' = methods
      /\ balance' = balance /\ history' = history /\ stack' = stack /\ sent' = sent
      /\ collectedMethods' = collectedMethods
  BY <1>2 DEF testVars, callVars, profilerVars, codeVars, reportVars, sharedVars, readerVars
<1>6. Placed(t)'
  BY <1>1, <1>2, <1>3, <1>5 DEF Placed, LookingUp, Testing, InHand, Comparing, Decoding
<1>7. /\ mainMethod \in Methods \cup {None} /\ result'[t] \in Results \cup {None}
      /\ typesCache \subseteq Seq(Characters) /\ methods \subseteq Methods
  BY <1>3 DEF HistoryInv, HistoryTypes
<1>8. QED
  BY <1>4, <1>5, <1>6, <1>7, QuietKeeps

(* Where an exception leaves Execute no thread is mapped for its request. *)
LEMMA ErrorsPlace ==
  ASSUME ServiceInv, HistoryInv, NEW t \in Tasks,
         \/ LookupThrows(t) \/ NothingToAsk(t) \/ DeserializationFails(t) \/ CoverageThrows(t)
  PROVE  HistoryInv'
<1>1. Placed(t)
  BY DEF HistoryInv
<1>2. Throw(t)
  BY DEF LookupThrows, NothingToAsk, DeserializationFails, CoverageThrows
<1>3. pc[t] \in {"resolve"} \cup LookingUp \cup Decoding
  BY DEF LookupThrows, NothingToAsk, DeserializationFails, CoverageThrows, Deserialized, Using,
     LookingUp, Decoding
<1>4. pc[t] = "resolve" => ~local[t].entryMainWasSet
  BY DEF LookupThrows, NothingToAsk, DeserializationFails, CoverageThrows, Deserialized, Using
<1>5. t \notin threadIdMapping /\ balance[t] = None
  BY <1>1, <1>3, <1>4 DEF Placed, Testing, InHand, Comparing, LookingUp, Decoding
<1>6. pc[t] \notin {"idle", "run"} /\ (pc[t] # "types" => batch[t] # <<>>)
  BY <1>1, <1>3 DEF Placed, LookingUp, Decoding
<1>7. QED
  BY <1>2, <1>5, <1>6, ThrowPlaces

LEMMA HistoryStep == ServiceInv /\ HistoryInv /\ [Next]_vars => HistoryInv'
<1>1. ASSUME ServiceInv, HistoryInv, NEW t \in Tasks, Receive(t) \/ Execute(t)
      PROVE  HistoryInv'
  <2> USE <1>1
  <2>1. CASE \/ Receive(t) \/ ResolveType(t) \/ AddTypes(t) \/ GetMethod(t) \/ AddMethod(t)
             \/ BuildGraph(t)
    BY <2>1, LookupPlaces
  <2>2. CASE \/ LookupThrows(t) \/ NothingToAsk(t) \/ DeserializationFails(t)
             \/ CoverageThrows(t)
    BY <2>2, ErrorsPlace
  <2>3. CASE TestStep(t)
    BY <2>3, TestPlaces
  <2>4. CASE AddTestTypes(t)
    BY <2>4, TypesPlace
  <2>5. CASE Enter(t)
    BY <2>5, EnterPlaces
  <2>6. CASE Block(t)
    BY <2>6, BlockPlaces
  <2>7. CASE Leave(t) \/ Unwind(t)
    BY <2>7, LeavePlaces
  <2>8. CASE GetRawHistory(t)
    BY <2>8, AskPlaces
  <2>9. CASE StartNewDeserialization(t)
    BY <2>9, StartPlaces
  <2>10. CASE Reads(t)
    BY <2>10, ReadsPlaces
  <2>11. CASE DisturbedReads(t)
    BY <2>11, DisturbedPlaces
  <2>12. CASE ComputeCoverage(t)
    BY <2>12, AnswerPlaces
  <2>13. QED
    BY <2>1, <2>2, <2>3, <2>4, <2>5, <2>6, <2>7, <2>8, <2>9, <2>10, <2>11, <2>12
       DEF Execute, TestStep
<1>2. ASSUME HistoryInv, UNCHANGED vars
      PROVE  HistoryInv'
  <2>1. UNCHANGED <<batch, pc, local, instances, executed, stack, result, sharedVars, codeVars,
                    reportVars, readerVars>>
    BY <1>2 DEF vars, testVars, callVars, profilerVars
  <2>2. QED
    BY <1>2, <2>1 DEF HistoryInv, HistoryTypes, HitsVisited, Placed, sharedVars, codeVars,
       reportVars, readerVars
<1>3. QED
  BY <1>1, <1>2 DEF Next, AllServed

(* The state of the requests, of the caches, of the profiler and of the    *)
(* reader is of its type, however many requests are served at once: only a *)
(* request being served has its thread mapped or tracked, and an answer is *)
(* there exactly when it was given.                                        *)
THEOREM ServiceTypeCorrect == Spec => []TypeOK
<1>1. Init => ServiceInv /\ HistoryInv
  BY ServiceInitial, HistoryInitial
<1>2. ServiceInv /\ [Next]_vars => ServiceInv'
  BY ServiceStep
<1>3. ServiceInv /\ HistoryInv /\ [Next]_vars => HistoryInv'
  BY HistoryStep
<1>4. ServiceInv /\ HistoryInv => TypeOK
  <2>1. SUFFICES ASSUME ServiceInv, HistoryInv
                 PROVE  TypeOK
    OBVIOUS
  <2>2. /\ pc \in [Tasks -> Places] /\ heap \in [Tasks -> Heaps]
        /\ outcome \in [Tasks -> Values] /\ \A t \in Tasks : local[t] \in Locals
    BY <2>1 DEF ServiceInv, ServiceTypes
  <2>3. /\ typesCache \subseteq Seq(Characters) /\ methods \subseteq Methods
        /\ mainMethod \in Methods \cup {None} /\ mainFunctionId \in probed \cup {None}
        /\ probed \subseteq compiled /\ compiled \subseteq Methods /\ dataOffset \in Nat
        /\ balance \in [Tasks -> Int \cup {None}] /\ stack \in [Tasks -> Seq(compiled)]
    BY <2>1 DEF HistoryInv, HistoryTypes
  <2>4. visitedMethods \subseteq DOMAIN collectedMethods
    <3>1. collectedMethods \in Seq(Methods) /\ visitedMethods \subseteq 1 .. Len(collectedMethods)
      BY <2>1 DEF HistoryInv, HistoryTypes
    <3>2. QED
      BY <3>1
  <2>5. /\ \A t \in Tasks : DOMAIN instances[t] \subseteq Addresses
        /\ \A t \in Tasks : result[t] # None <=> pc[t] = "done"
    BY <2>1 DEF HistoryInv, Placed
  <2>6. \A t \in Tasks : Tracked(t) \/ t \in threadIdMapping => t \in Serving
    <3>1. \A t \in Tasks : Tracked(t) \/ t \in threadIdMapping => pc[t] \in Testing
      BY <2>1 DEF HistoryInv, Placed, Tracked
    <3>2. QED
      BY <3>1 DEF Serving, Testing, InHand, Comparing
  <2>7. QED
    BY <2>2, <2>3, <2>4, <2>5, <2>6 DEF TypeOK, Locals
<1>5. QED
  BY <1>1, <1>2, <1>3, <1>4, PTL DEF Spec

-----------------------------------------------------------------------------
(* What a request does to the others: nothing. *)
LEMMA OthersLeft ==
  ASSUME ServiceInv, HistoryInv, NEW t \in Tasks, Receive(t) \/ Execute(t)
  PROVE  /\ batch' = batch /\ \A u \in Tasks \ {t} : Left(u) /\ (u \in skewed' <=> u \in skewed)
         /\ pc'[t] # "idle" /\ (~Receive(t) => overlapped' = overlapped)
<1>1. /\ pc \in [Tasks -> Places] /\ local \in [Tasks -> Locals] /\ DOMAIN instances = Tasks
      /\ result \in [Tasks -> Results \cup {None}] /\ DOMAIN reading = Tasks
      /\ executed \in [Tasks -> SUBSET Nat] /\ stack \in [Tasks -> Seq(compiled)]
      /\ DOMAIN sent = Tasks /\ received \in [Tasks -> Seq(Written)]
  BY Domains DEF HistoryInv, HistoryTypes
<1>2. CASE \/ Receive(t) \/ ResolveType(t) \/ AddTypes(t) \/ GetMethod(t) \/ AddMethod(t)
           \/ BuildGraph(t) \/ AddTestTypes(t)
  <2>1. /\ UNCHANGED <<batch, testVars, result, readerVars>>
        /\ \E p \in Places \ {"idle"} : pc' = [pc EXCEPT ![t] = p]
        /\ ~Receive(t) => overlapped' = overlapped
    BY <1>2 DEF Receive, ResolveType, AddTypes, GetMethod, AddMethod, BuildGraph, AddTestTypes,
       Goto, Places
  <2>2. QED
    BY <1>1, <2>1 DEF Left, testVars, callVars, readerVars
<1>3. CASE \/ LookupThrows(t) \/ NothingToAsk(t) \/ DeserializationFails(t)
           \/ CoverageThrows(t)
  <2>1. Throw(t)
    BY <1>3 DEF LookupThrows, NothingToAsk, DeserializationFails, CoverageThrows
  <2>2. QED
    BY <1>1, <1>3, <2>1 DEF Left, Throw, Answer, Goto, testVars, callVars, readerVars
<1>4. CASE ComputeCoverage(t)
  <2>1. /\ \E v : Answer(t, v)
        /\ UNCHANGED <<batch, testVars, readerVars, overlapped>>
    BY <1>4 DEF ComputeCoverage
  <2>2. QED
    BY <1>1, <1>4, <2>1 DEF Left, Answer, Goto, testVars, callVars, readerVars
<1>5. CASE TestStep(t)
  <2>1. pc'[t] # "idle"
    BY <1>5, TestMoves DEF Comparing
  <2>2. /\ UNCHANGED <<batch, stack, executed, skewed, result, overlapped>>
        /\ UNCHANGED <<reading, sent, received>>
    BY <1>5, TestLeaves DEF readerVars
  <2>3. \A u \in Tasks \ {t} : pc'[u] = pc[u] /\ local'[u] = local[u] /\ instances'[u] = instances[u]
    BY <1>5, TestMoves, TestLocals, TestLeaves
  <2>4. QED
    BY <2>1, <2>2, <2>3 DEF Left
<1>6. CASE Enter(t) \/ Block(t) \/ Leave(t) \/ Unwind(t)
  <2>1. \E kind : Event(t, kind)
    BY <1>6, EventSteps
  <2>2. /\ pc[t] = "run"
        /\ UNCHANGED <<batch, pc, local, instances, result, received, reading, sent, overlapped>>
    BY <2>1, EventLeaves
  <2>3. /\ \E s : stack' = [stack EXCEPT ![t] = s]
        /\ \E e : executed' = [executed EXCEPT ![t] = e]
        /\ skewed' = skewed \/ skewed' = skewed \cup {t}
    <3>1. CASE Enter(t)
      BY <1>1, <3>1 DEF Enter
    <3>2. CASE Block(t)
      BY <1>1, <3>2 DEF Block
    <3>3. CASE Leave(t) \/ Unwind(t)
      BY <1>1, <3>3 DEF Leave, Unwind, Pop
    <3>4. QED
      BY <1>6, <3>1, <3>2, <3>3
  <2>4. QED
    BY <1>1, <2>2, <2>3 DEF Left
<1>7. CASE GetRawHistory(t) \/ StartNewDeserialization(t)
  <2>1. /\ UNCHANGED <<batch, testVars, result, reading, overlapped>>
        /\ \E p \in {"start", "methodCount"} : pc' = [pc EXCEPT ![t] = p]
        /\ sent' = sent \/ \E h : sent' = [sent EXCEPT ![t] = h]
        /\ received' = received \/ \E b : received' = [received EXCEPT ![t] = b]
    BY <1>7 DEF GetRawHistory, StartNewDeserialization, Goto
  <2>2. QED
    BY <1>1, <2>1 DEF Left, testVars, callVars
<1>8. CASE Reads(t) \/ DisturbedReads(t)
  <2>1. UNCHANGED <<batch, testVars, result, received, sent, overlapped>>
    BY <1>8 DEF Reads, DisturbedReads
  <2>2. \A u \in Tasks \ {t} : reading'[u] = reading[u]
    BY <1>1, <1>8 DEF Reads, ReadCount, ReadMethod, ReadReport, DisturbedReads
  <2>3. pc[t] \in Decoding /\ (pc' = pc \/ \E p \in Decoding : pc' = [pc EXCEPT ![t] = p])
    BY <1>8 DEF Reads, ReadCount, ReadMethod, ReadReport, DisturbedReads, Using, Goto, Decoding
  <2>4. pc'[t] # "idle" /\ \A u \in Tasks \ {t} : pc'[u] = pc[u]
    BY <1>1, <2>3 DEF Decoding
  <2>5. QED
    BY <2>1, <2>2, <2>4 DEF Left, testVars, callVars
<1>9. QED
  BY <1>2, <1>3, <1>4, <1>5, <1>6, <1>7, <1>8 DEF Execute, TestStep

-----------------------------------------------------------------------------
(* What is left of M and R, the methods and reports a request was sent,    *)
(* after k of them were read; what a read that succeeds gives.             *)
Taken(M, k) == [id \in {Ascending(DOMAIN M)[i] : i \in 1 .. k} |-> M[id]]
ReportOf(r) == [threadId |-> r.threadId, records |-> r.records]
Stripped(R, k) == [i \in 1 .. k |-> ReportOf(R[i])]
IntRead(n, next) == [ok |-> TRUE, value |-> n, next |-> next]
MethodRead(id, info, next) == [ok |-> TRUE, id |-> id, value |-> info, next |-> next]
ReportRead(r, next) == [ok |-> TRUE, value |-> ReportOf(r), next |-> next]
With(infos, id, info) ==
  [x \in DOMAIN infos \cup {id} |-> IF x = id THEN info ELSE infos[x]]

(* How far a reader is that nobody disturbs.                               *)
ReadSoFar(p, M, R, off, r, mo, ro) ==
  LET n == Len(Ascending(DOMAIN M))
  IN /\ p = "methodCount" => off = 0
     /\ p = "methods" => /\ r.left <= n /\ off = mo[n - r.left]
                         /\ r.methods = Taken(M, n - r.left) /\ r.reports = <<>>
     /\ p = "reports" => /\ r.left <= Len(R) /\ (r.left > 0 => off = ro[Len(R) - r.left])
                         /\ r.methods = M /\ r.reports = Stripped(R, Len(R) - r.left)

Laying(bytes, M, R, p, off, r) ==
  \E mo, ro : Layout(bytes, M, R, mo, ro) /\ ReadSoFar(p, M, R, off, r, mo, ro)

(* Two requests that use the statics of the deserializer are both          *)
(* disturbed; one that is not has its own bytes there.                     *)
Reading(t) ==
  t \notin disturbed =>
    /\ Using(t) => data = received[t]
    /\ pc[t] \in Decoding => Laying(received[t], sent[t].methods, sent[t].reports, pc[t],
                                   dataOffset, reading[t])

ReaderInv ==
  /\ \A t \in Tasks : Reading(t)
  /\ \A t, u \in Tasks : Using(t) /\ Using(u) /\ t # u => t \in disturbed

LEMMA ReaderInitial == Init => ReaderInv
BY DEF Init, ReaderInv, Reading, Using, Decoding

LEMMA OneReader ==
  ASSUME ReaderInv, NEW t \in Tasks, \A u \in Tasks \ {t} : Left(u),
         disturbed \subseteq disturbed',
         \/ data' = data /\ dataOffset' = dataOffset
         \/ \A u \in Tasks \ {t} : Using(u) => u \in disturbed',
         Using(t)' => \A u \in Tasks \ {t} : Using(u) => t \in disturbed' /\ u \in disturbed',
         Reading(t)'
  PROVE  ReaderInv'
<1>1. ASSUME NEW u \in Tasks \ {t}
      PROVE  Using(u)' <=> Using(u)
  BY <1>1 DEF Left, Using
<1>2. ASSUME NEW u \in Tasks \ {t}
      PROVE  Reading(u)'
  <2>1. SUFFICES ASSUME u \notin disturbed'
                 PROVE  /\ Using(u)' => data' = received'[u]
                        /\ pc'[u] \in Decoding =>
                             Laying(received'[u], sent'[u].methods, sent'[u].reports, pc'[u],
                                    dataOffset', reading'[u])
    BY DEF Reading
  <2>2. Left(u) /\ Reading(u) /\ u \notin disturbed
    BY <2>1 DEF ReaderInv
  <2>3. CASE data' = data /\ dataOffset' = dataOffset
    BY <1>1, <2>2, <2>3 DEF Reading, Left
  <2>4. CASE ~Using(u)
    <3>1. pc[u] \in Decoding => Laying(received[u], sent[u].methods, sent[u].reports, pc[u],
                                       dataOffset, reading[u])
      BY <2>2 DEF Reading
    <3>2. pc[u] \notin {"methodCount", "methods"} /\ (pc[u] = "reports" => ~(reading[u].left > 0))
      BY <2>4 DEF Using
    <3>3. pc[u] \in Decoding => Laying(received[u], sent[u].methods, sent[u].reports, pc[u],
                                       dataOffset', reading[u])
      BY <3>1, <3>2 DEF Laying, ReadSoFar
    <3>4. QED
      BY <1>1, <2>2, <2>4, <3>3 DEF Left
  <2>5. QED
    BY <2>1, <2>3, <2>4
<1>3. ASSUME NEW u \in Tasks, NEW v \in Tasks, Using(u)', Using(v)', u # v
      PROVE  u \in disturbed'
  <2>1. CASE u = t
    BY <1>1, <1>3, <2>1
  <2>2. CASE v = t
    BY <1>1, <1>3, <2>2
  <2>3. CASE u # t /\ v # t
    BY <1>1, <1>3, <2>3 DEF ReaderInv
  <2>4. QED
    BY <2>1, <2>2, <2>3
<1>4. QED
  BY <1>2, <1>3 DEF ReaderInv

LEMMA TakenIs ==
  ASSUME NEW M, NEW R, Told(M, R), NEW ids, ids = Ascending(DOMAIN M)
  PROVE  /\ Len(ids) \in Nat /\ Taken(M, 0) = <<>> /\ Taken(M, Len(ids)) = M
         /\ \A k \in 1 .. Len(ids) :
              LET before == Taken(M, k - 1)
              IN  /\ ids[k] \in DOMAIN M /\ ids[k] \notin DOMAIN before
                  /\ ids[k] \in Nat /\ M[ids[k]] \in MethodInfos
                  /\ Taken(M, k) = With(before, ids[k], M[ids[k]])
<1> DEFINE n == Len(ids)
           D == DOMAIN M
           Upto(k) == {ids[i] : i \in 1 .. k}
<1>1. PICK N \in Nat : D \in SUBSET (0 .. N - 1)
  BY DEF Told
<1>2. D \subseteq Nat
  <2>1. 0 .. N - 1 \subseteq Nat
    OBVIOUS
  <2> HIDE DEF D
  <2>2. QED
    BY <1>1, <2>1
<1>3. M = [id \in D |-> M[id]] /\ \A id \in D : M[id] \in MethodInfos
  BY DEF Told
<1>4. /\ n \in Nat /\ ids \in [1 .. n -> D]
      /\ \A x \in D : \E i \in 1 .. n : ids[i] = x
      /\ \A i, j \in 1 .. n : ids[i] = ids[j] => i = j
  <2>1. ids = Ascending(D)
    OBVIOUS
  <2> HIDE DEF D
  <2>2. Cardinality(D) \in Nat /\ Len(ids) = Cardinality(D)
    BY <1>1, <2>1, AscendingIs
  <2>3. ids \in [1 .. Len(ids) -> D]
    BY <1>1, <2>1, AscendingIs
  <2>4. ids \in Surjection(1 .. Len(ids), D) /\ ids \in Injection(1 .. Len(ids), D)
    BY <1>1, <2>1, AscendingIs
  <2>5. QED
    BY <2>2, <2>3, <2>4 DEF Injection, IsInjective, Surjection
<1>5. \A k : Taken(M, k) = [id \in Upto(k) |-> M[id]] /\ DOMAIN Taken(M, k) = Upto(k)
  BY DEF Taken
<1> HIDE DEF D, n
<1>6. Taken(M, 0) = <<>>
  <2>1. 1 .. 0 = {}
    OBVIOUS
  <2>2. Upto(0) = {}
    BY <2>1
  <2> HIDE DEF Upto
  <2>3. QED
    BY <1>5, <2>2
<1>7. Taken(M, n) = M
  <2>1. Upto(n) = D
    BY <1>4
  <2> HIDE DEF Upto
  <2>2. QED
    BY <1>3, <1>5, <2>1
<1>8. ASSUME NEW k \in 1 .. n
      PROVE  LET before == Taken(M, k - 1)
             IN  /\ ids[k] \in D /\ ids[k] \notin DOMAIN before
                 /\ ids[k] \in Nat /\ M[ids[k]] \in MethodInfos
                 /\ Taken(M, k) = With(before, ids[k], M[ids[k]])
  <2>1. ids[k] \in D /\ M[ids[k]] \in MethodInfos
    BY <1>3, <1>4
  <2>2. ids[k] \in Nat
    BY <1>2, <2>1
  <2>3. 1 .. k = (1 .. k - 1) \cup {k} /\ k \notin 1 .. k - 1 /\ 1 .. k - 1 \subseteq 1 .. n
    BY <1>4
  <2>4. Upto(k) = Upto(k - 1) \cup {ids[k]} /\ ids[k] \notin Upto(k - 1)
    BY <1>4, <2>3
  <2> HIDE DEF Upto
  <2>5. /\ Taken(M, k - 1) = [id \in Upto(k - 1) |-> M[id]]
        /\ DOMAIN Taken(M, k - 1) = Upto(k - 1)
        /\ Taken(M, k) = [id \in Upto(k) |-> M[id]]
    BY <1>5
  <2>6. QED
    BY <2>1, <2>2, <2>4, <2>5 DEF With
<1>9. QED
  BY <1>4, <1>6, <1>7, <1>8 DEF n, D


LEMMA StrippedIs ==
  ASSUME NEW R \in Seq(SentReports)
  PROVE  /\ Len(R) \in Nat /\ DOMAIN R = 1 .. Len(R) /\ Stripped(R, 0) = <<>>
         /\ \A k \in 1 .. Len(R) :
              Stripped(R, k) = Append(Stripped(R, k - 1), ReportOf(R[k]))
<1>1. /\ Len(R) \in Nat /\ DOMAIN R = 1 .. Len(R)
      /\ \A k \in 1 .. Len(R) : R[k] \in SentReports
  OBVIOUS
<1> DEFINE e(k) == ReportOf(R[k])
<1>2. \A k \in 1 .. Len(R) : e(k) \in ReadReports
  BY <1>1 DEF SentReports, ReadReports, ReportOf
<1>3. \A k : Stripped(R, k) = [i \in 1 .. k |-> e(i)]
  BY DEF Stripped
<1> HIDE DEF e
<1>4. Stripped(R, 0) = <<>>
  <2>1. 1 .. 0 = {}
    OBVIOUS
  <2>2. QED
    BY <1>3, <2>1
<1>5. ASSUME NEW k \in 1 .. Len(R)
      PROVE  Stripped(R, k) = Append(Stripped(R, k - 1), e(k))
  <2> DEFINE s == Stripped(R, k - 1)
  <2>1. s = [i \in 1 .. k - 1 |-> e(i)] /\ Stripped(R, k) = [i \in 1 .. k |-> e(i)]
    BY <1>3
  <2>2. /\ k \in Nat /\ k - 1 \in Nat /\ 1 .. k - 1 \subseteq 1 .. Len(R)
    BY <1>1
  <2>3. s \in Seq(ReadReports) /\ Len(s) = k - 1
    <3>1. s \in [1 .. k - 1 -> ReadReports]
      BY <1>2, <2>1, <2>2
    <3>2. QED
      BY <2>2, <3>1
  <2> HIDE DEF s
  <2>4. /\ Append(s, e(k)) \in Seq(ReadReports) /\ Len(Append(s, e(k))) = k
        /\ \A i \in 1 .. k - 1 : Append(s, e(k))[i] = s[i]
        /\ Append(s, e(k))[k] = e(k)
    BY <1>2, <2>2, <2>3
  <2>5. Append(s, e(k)) = [i \in 1 .. k |-> Append(s, e(k))[i]]
    <3> DEFINE q == Append(s, e(k))
    <3>1. q \in Seq(ReadReports) /\ Len(q) = k
      BY <2>4
    <3> HIDE DEF q
    <3>2. q \in [1 .. k -> ReadReports]
      BY <3>1
    <3>3. q = [i \in 1 .. k |-> q[i]]
      BY <3>2
    <3>4. QED
      BY <3>3 DEF q
  <2>6. \A i \in 1 .. k : Append(s, e(k))[i] = e(i)
    <3>1. \A i \in 1 .. k : i \in 1 .. k - 1 \/ i = k
      BY <2>2
    <3>2. QED
      BY <2>1, <2>4, <3>1
  <2>7. QED
    BY <2>1, <2>5, <2>6 DEF s
<1>6. QED
  BY <1>1, <1>4, <1>5 DEF e


(* What is read at the offsets of what was laid out. *)
LEMMA LayoutRead ==
  ASSUME NEW bytes \in Seq(Written), NEW M, NEW R, Told(M, R), NEW mo, NEW ro,
         Layout(bytes, M, R, mo, ro)
  PROVE  LET ids == Ascending(DOMAIN M)
             n   == Len(ids)
         IN  /\ ReadInt(bytes, 0) = IntRead(n, mo[0])
             /\ ReadInt(bytes, mo[n]) = IntRead(Len(R), ro[0])
             /\ \A k \in 1 .. n :
                  ReadMethodEntry(bytes, mo[k - 1]) = MethodRead(ids[k], M[ids[k]], mo[k])
             /\ \A k \in 1 .. Len(R) :
                  ReadReportEntry(bytes, ro[k - 1]) = ReportRead(R[k], ro[k])
<1> DEFINE ids == Ascending(DOMAIN M)
           n == Len(ids)
<1>1. /\ 1 <= Len(bytes) /\ bytes[1] = Word(n) /\ mo[0] = 1
      /\ Laid(bytes, MethodCells(M), mo) /\ mo[n] \in Nat
      /\ mo[n] + 1 <= Len(bytes) /\ bytes[mo[n] + 1] = Word(Len(R)) /\ ro[0] = mo[n] + 1
      /\ Laid(bytes, ReportCells(R), ro) /\ ro[Len(R)] \in Nat
  BY DEF Layout
<1>2. /\ n \in Nat /\ \A k \in 1 .. n : ids[k] \in DOMAIN M /\ ids[k] \in Nat
                                        /\ M[ids[k]] \in MethodInfos
  BY TakenIs
<1>3. /\ Len(R) \in Nat /\ R \in Seq(SentReports)
      /\ \A k \in 1 .. Len(R) : R[k] \in SentReports /\ (R[k].aborted => R[k].records = <<>>)
  BY DEF Told
<1>4. MethodCells(M) = [k \in 1 .. n |-> SerializeMethod(ids[k], M[ids[k]])]
      /\ Len(MethodCells(M)) = n
  <2>1. \E N \in Nat : DOMAIN M \in SUBSET (0 .. N - 1)
    BY DEF Told
  <2>2. \A id \in DOMAIN M : M[id] \in MethodInfos
    BY DEF Told
  <2>3. Len(MethodCells(M)) = n
    BY <2>1, <2>2, MethodCellsAre
  <2>4. QED
    BY <2>3 DEF MethodCells
<1>5. ReportCells(R) = [k \in 1 .. Len(R) |-> SerializeReport(R[k])]
      /\ Len(ReportCells(R)) = Len(R)
  BY <1>3, ReportCellsAre DEF ReportCells
<1> HIDE DEF ids, n
<1>6. ReadInt(bytes, 0) = IntRead(n, mo[0])
  <2>1. 0 + 1 <= Len(bytes) /\ bytes[0 + 1] = Word(n) /\ 0 \in Nat
    BY <1>1
  <2>2. ReadInt(bytes, 0) = IntRead(n, 0 + 1)
    BY <1>2, <2>1, ReadIntIs DEF IntRead
  <2>3. QED
    BY <1>1, <2>2
<1>7. ReadInt(bytes, mo[n]) = IntRead(Len(R), ro[0])
  BY <1>1, <1>3, ReadIntIs DEF IntRead
<1>8. ASSUME NEW k \in 1 .. n
      PROVE  ReadMethodEntry(bytes, mo[k - 1]) = MethodRead(ids[k], M[ids[k]], mo[k])
  <2> DEFINE s == SerializeMethod(ids[k], M[ids[k]])
  <2>1. /\ mo[k - 1] \in Nat /\ mo[k] = mo[k - 1] + Len(MethodCells(M)[k])
        /\ Holds(bytes, mo[k - 1], MethodCells(M)[k])
    BY <1>1, <1>4 DEF Laid
  <2>2. MethodCells(M)[k] = s
    BY <1>4
  <2>3. ReadMethodEntry(bytes, mo[k - 1]) = MethodRead(ids[k], M[ids[k]], mo[k - 1] + Len(s))
    BY <1>2, <2>1, <2>2, ReadMethodIs DEF MethodRead
  <2>4. QED
    BY <2>1, <2>2, <2>3
<1>9. ASSUME NEW k \in 1 .. Len(R)
      PROVE  ReadReportEntry(bytes, ro[k - 1]) = ReportRead(R[k], ro[k])
  <2> DEFINE s == SerializeReport(R[k])
  <2>1. /\ ro[k - 1] \in Nat /\ ro[k] = ro[k - 1] + Len(ReportCells(R)[k])
        /\ Holds(bytes, ro[k - 1], ReportCells(R)[k])
    BY <1>1, <1>5 DEF Laid
  <2>2. ReportCells(R)[k] = s
    BY <1>5
  <2>3. R[k] \in SentReports /\ (R[k].aborted => R[k].records = <<>>)
    BY <1>3
  <2>4. ReadReportEntry(bytes, ro[k - 1]) = ReportRead(R[k], ro[k - 1] + Len(s))
    BY <2>1, <2>2, <2>3, ReadReportIs DEF ReportRead, ReportOf
  <2>5. QED
    BY <2>1, <2>2, <2>4
<1>10. QED
  BY <1>6, <1>7, <1>8, <1>9 DEF ids, n


(* What is read where the reader is. *)
LEMMA ReadHere ==
  ASSUME NEW bytes \in Seq(Written), NEW M, NEW R, Told(M, R), NEW mo, NEW ro,
         Layout(bytes, M, R, mo, ro),
         NEW p, NEW off, NEW r, r.left \in Nat, ReadSoFar(p, M, R, off, r, mo, ro)
  PROVE  LET ids == Ascending(DOMAIN M)
             n   == Len(ids)
             k   == n - r.left + 1
             j   == Len(R) - r.left + 1
         IN  /\ p = "methodCount" => ReadInt(bytes, off) = IntRead(n, mo[0])
             /\ p = "methods" /\ r.left = 0 => ReadInt(bytes, off) = IntRead(Len(R), ro[0])
             /\ p = "methods" /\ r.left > 0 =>
                  /\ k \in 1 .. n /\ ids[k] \notin DOMAIN r.methods
                  /\ ReadMethodEntry(bytes, off) = MethodRead(ids[k], M[ids[k]], mo[k])
             /\ p = "reports" /\ r.left > 0 =>
                  /\ j \in 1 .. Len(R)
                  /\ ReadReportEntry(bytes, off) = ReportRead(R[j], ro[j])
<1> DEFINE ids == Ascending(DOMAIN M)
           n == Len(ids)
           k == n - r.left + 1
           j == Len(R) - r.left + 1
<1>1. /\ p = "methodCount" => off = 0
      /\ p = "methods" => r.left <= n /\ off = mo[n - r.left] /\ r.methods = Taken(M, n - r.left)
      /\ p = "reports" /\ r.left > 0 => r.left <= Len(R) /\ off = ro[Len(R) - r.left]
  BY DEF ReadSoFar
<1>2. n \in Nat /\ \A i \in 1 .. n : ids[i] \notin DOMAIN Taken(M, i - 1)
  BY TakenIs
<1>3. Len(R) \in Nat
  BY StrippedIs DEF Told
<1>4. /\ ReadInt(bytes, 0) = IntRead(n, mo[0])
      /\ ReadInt(bytes, mo[n]) = IntRead(Len(R), ro[0])
      /\ \A i \in 1 .. n :
           ReadMethodEntry(bytes, mo[i - 1]) = MethodRead(ids[i], M[ids[i]], mo[i])
      /\ \A i \in 1 .. Len(R) :
           ReadReportEntry(bytes, ro[i - 1]) = ReportRead(R[i], ro[i])
  BY LayoutRead
<1> HIDE DEF ids, n
<1>5. CASE p = "methodCount"
  BY <1>1, <1>4, <1>5 DEF ids, n
<1>6. CASE p = "methods" /\ r.left = 0
  <2>1. n - r.left = n
    BY <1>2, <1>6
  <2>2. QED
    BY <1>1, <1>4, <1>6, <2>1 DEF ids, n
<1>7. CASE p = "methods" /\ r.left > 0
  <2>1. k \in 1 .. n /\ k - 1 = n - r.left
    BY <1>1, <1>2, <1>7
  <2> HIDE DEF k
  <2>2. off = mo[k - 1] /\ r.methods = Taken(M, k - 1)
    BY <1>1, <1>7, <2>1
  <2>3. ids[k] \notin DOMAIN r.methods
    BY <1>2, <2>1, <2>2
  <2>4. ReadMethodEntry(bytes, off) = MethodRead(ids[k], M[ids[k]], mo[k])
    BY <1>4, <2>1, <2>2
  <2>5. QED
    BY <1>7, <2>1, <2>3, <2>4 DEF ids, n, k
<1>8. CASE p = "reports" /\ r.left > 0
  <2>1. j \in 1 .. Len(R) /\ j - 1 = Len(R) - r.left
    BY <1>1, <1>3, <1>8
  <2> HIDE DEF j
  <2>2. off = ro[j - 1]
    BY <1>1, <1>8, <2>1
  <2>3. ReadReportEntry(bytes, off) = ReportRead(R[j], ro[j])
    BY <1>4, <2>1, <2>2
  <2>4. QED
    BY <1>8, <2>1, <2>3 DEF j
<1>9. QED
  BY <1>5, <1>6, <1>7, <1>8 DEF ids, n


(* A reader that nobody disturbs reads what its request was sent. *)
LEMMA ReaderIs ==
  ASSUME HistoryInv, ReaderInv, NEW t \in Tasks, t \notin disturbed, Using(t)
  PROVE  LET M == sent[t].methods
             R == sent[t].reports
         IN  /\ Told(M, R) /\ R \in Seq(SentReports) /\ data \in Seq(Written)
             /\ reading[t].left \in Nat /\ data = received[t]
             /\ \E mo, ro : /\ Layout(data, M, R, mo, ro)
                            /\ ReadSoFar(pc[t], M, R, dataOffset, reading[t], mo, ro)
<1>1. Reading(t) /\ data \in Seq(Written) /\ reading[t].left \in Nat /\ Placed(t)
  BY DEF ReaderInv, HistoryInv, HistoryTypes
<1>2. pc[t] \in Decoding
  BY DEF Using, Decoding
<1>3. Told(sent[t].methods, sent[t].reports)
  BY <1>1, <1>2 DEF Placed
<1>4. /\ data = received[t]
      /\ \E mo, ro : /\ Layout(received[t], sent[t].methods, sent[t].reports, mo, ro)
                     /\ ReadSoFar(pc[t], sent[t].methods, sent[t].reports, dataOffset,
                                  reading[t], mo, ro)
  BY <1>1, <1>2 DEF Reading, Laying
<1>5. QED
  BY <1>1, <1>3, <1>4 DEF Told

LEMMA ReadsReader ==
  ASSUME ServiceInv, HistoryInv, ReaderInv, NEW t \in Tasks, Reads(t)
  PROVE  ReaderInv'
<1> DEFINE M == sent[t].methods
           R == sent[t].reports
           ids == Ascending(DOMAIN M)
           n == Len(ids)
           r == reading[t]
           q == reading'[t]
           k == n - r.left + 1
           j == Len(R) - r.left + 1
<1>1. Using(t) /\ t \notin disturbed
  BY DEF Reads, ReadCount, ReadMethod, ReadReport, Using, Reader
<1>2. UNCHANGED <<data, received, sent, disturbed>>
  BY DEF Reads
<1>3. Placed(t) /\ pc \in [Tasks -> Places] /\ DOMAIN reading = Tasks
  BY Domains DEF HistoryInv, HistoryTypes
<1>4. /\ Told(M, R) /\ R \in Seq(SentReports) /\ data \in Seq(Written) /\ r.left \in Nat
      /\ \E mo, ro : /\ Layout(data, M, R, mo, ro)
                     /\ ReadSoFar(pc[t], M, R, dataOffset, r, mo, ro)
  BY <1>1, ReaderIs
<1>5. PICK mo, ro : /\ Layout(data, M, R, mo, ro)
                    /\ ReadSoFar(pc[t], M, R, dataOffset, r, mo, ro)
  BY <1>4
<1>6. data = received[t]
  BY <1>1, ReaderIs
<1>7. /\ n \in Nat /\ Taken(M, 0) = <<>> /\ Taken(M, n) = M
      /\ \A i \in 1 .. n :
           Taken(M, i) = With(Taken(M, i - 1), ids[i], M[ids[i]])
  BY <1>4, TakenIs
<1>8. /\ Len(R) \in Nat /\ Stripped(R, 0) = <<>>
      /\ \A i \in 1 .. Len(R) :
           Stripped(R, i) = Append(Stripped(R, i - 1), ReportOf(R[i]))
  BY <1>4, StrippedIs
<1> HIDE DEF M, R, r
<1>9. /\ pc[t] = "methodCount" => ReadInt(data, dataOffset) = IntRead(n, mo[0])
      /\ pc[t] = "methods" /\ r.left = 0 => ReadInt(data, dataOffset) = IntRead(Len(R), ro[0])
      /\ pc[t] = "methods" /\ r.left > 0 =>
           /\ k \in 1 .. n
           /\ ReadMethodEntry(data, dataOffset) = MethodRead(ids[k], M[ids[k]], mo[k])
      /\ pc[t] = "reports" /\ r.left > 0 =>
           /\ j \in 1 .. Len(R)
           /\ ReadReportEntry(data, dataOffset) = ReportRead(R[j], ro[j])
  BY <1>4, <1>5, ReadHere
<1>10. /\ pc[t] = "methods" => /\ r.left <= n /\ r.methods = Taken(M, n - r.left)
                               /\ r.reports = <<>>
       /\ pc[t] = "reports" => /\ r.left <= Len(R) /\ r.methods = M
                               /\ r.reports = Stripped(R, Len(R) - r.left)
       /\ pc[t] = "methodCount" => r = [left |-> 0, methods |-> <<>>, reports |-> <<>>]
  BY <1>3, <1>5 DEF ReadSoFar, Placed, Fresh, M, R, r
<1> HIDE DEF ids, n
<1>11. /\ pc'[t] \in {"methods", "reports"}
       /\ ReadSoFar(pc'[t], M, R, dataOffset', q, mo, ro)
  <2>1. CASE ReadCount(t, "methodCount", "methods")
    <3> DEFINE count == ReadInt(data, dataOffset)
    <3>1. /\ pc[t] = "methodCount" /\ pc' = [pc EXCEPT ![t] = "methods"]
          /\ reading' = [reading EXCEPT ![t].left = count.value] /\ dataOffset' = count.next
      BY <2>1 DEF ReadCount, Goto
    <3>2. count = IntRead(n, mo[0])
      BY <1>9, <3>1
    <3> HIDE DEF count
    <3>3. /\ pc[t] = "methodCount" /\ pc' = [pc EXCEPT ![t] = "methods"]
          /\ reading' = [reading EXCEPT ![t].left = n] /\ dataOffset' = mo[0]
      BY <3>1, <3>2 DEF IntRead
    <3>4. q.left = n /\ q.methods = <<>> /\ q.reports = <<>> /\ pc'[t] = "methods"
      BY <1>3, <1>10, <3>3 DEF r
    <3>5. n - n = 0 /\ n <= n
      BY <1>7
    <3> HIDE DEF q
    <3>6. ReadSoFar("methods", M, R, dataOffset', q, mo, ro)
      BY <1>7, <3>3, <3>4, <3>5 DEF ReadSoFar, n, ids
    <3>7. QED
      BY <3>4, <3>6
  <2>2. CASE ReadMethod(t)
    <3> DEFINE entry == ReadMethodEntry(data, dataOffset)
    <3>1. /\ pc[t] = "methods" /\ pc' = pc /\ r.left > 0
          /\ reading' = [reading EXCEPT ![t].left = r.left - 1,
                                        ![t].methods = With(r.methods, entry.id, entry.value)]
          /\ dataOffset' = entry.next
      BY <1>3, <2>2 DEF ReadMethod, Reader, With, r
    <3>2. entry = MethodRead(ids[k], M[ids[k]], mo[k]) /\ k \in 1 .. n
      BY <1>9, <3>1
    <3> HIDE DEF entry
    <3>3. /\ pc[t] = "methods" /\ pc' = pc /\ r.left > 0
          /\ reading' = [reading EXCEPT
                           ![t].left = r.left - 1,
                           ![t].methods = With(r.methods, ids[k], M[ids[k]])]
          /\ dataOffset' = mo[k] /\ k \in 1 .. n
      BY <3>1, <3>2 DEF MethodRead
    <3>4. /\ k \in 1 .. n /\ k - 1 = n - r.left /\ k = n - (r.left - 1) /\ r.left - 1 <= n
      BY <1>4, <1>7, <3>3
    <3> HIDE DEF k
    <3>5. r.methods = Taken(M, k - 1) /\ r.reports = <<>>
      BY <1>10, <3>3, <3>4
    <3>6. Taken(M, k) = With(r.methods, ids[k], M[ids[k]])
      BY <1>7, <3>4, <3>5
    <3>7. reading' = [reading EXCEPT ![t].left = r.left - 1, ![t].methods = Taken(M, k)]
      BY <3>3, <3>6
    <3>8. q.left = r.left - 1 /\ q.methods = Taken(M, k) /\ q.reports = r.reports
      BY <1>3, <3>7 DEF r
    <3> HIDE DEF q
    <3>9. ReadSoFar("methods", M, R, dataOffset', q, mo, ro)
      BY <3>3, <3>4, <3>5, <3>8 DEF ReadSoFar, n, ids
    <3>10. QED
      BY <3>3, <3>9
  <2>3. CASE ReadCount(t, "methods", "reports")
    <3> DEFINE count == ReadInt(data, dataOffset)
    <3>1. /\ pc[t] = "methods" /\ pc' = [pc EXCEPT ![t] = "reports"] /\ r.left = 0
          /\ reading' = [reading EXCEPT ![t].left = count.value] /\ dataOffset' = count.next
      BY <2>3 DEF ReadCount, Goto, Reader, r
    <3>2. count = IntRead(Len(R), ro[0])
      BY <1>9, <3>1
    <3> HIDE DEF count
    <3>3. /\ pc[t] = "methods" /\ pc' = [pc EXCEPT ![t] = "reports"] /\ r.left = 0
          /\ reading' = [reading EXCEPT ![t].left = Len(R)] /\ dataOffset' = ro[0]
      BY <3>1, <3>2 DEF IntRead
    <3>4. n - r.left = n
      BY <1>7, <3>3
    <3>5. r.methods = M /\ r.reports = <<>>
      BY <1>7, <1>10, <3>3, <3>4
    <3>6. q.left = Len(R) /\ q.methods = r.methods /\ q.reports = r.reports /\ pc'[t] = "reports"
      BY <1>3, <3>3 DEF r
    <3>7. Len(R) - Len(R) = 0 /\ Len(R) <= Len(R)
      BY <1>8
    <3> HIDE DEF q
    <3>8. ReadSoFar("reports", M, R, dataOffset', q, mo, ro)
      BY <1>8, <3>3, <3>5, <3>6, <3>7 DEF ReadSoFar
    <3>9. QED
      BY <3>6, <3>8
  <2>4. CASE ReadReport(t)
    <3> DEFINE e == ReportOf(R[j])
    <3> DEFINE entry == ReadReportEntry(data, dataOffset)
    <3>1. /\ pc[t] = "reports" /\ pc' = pc /\ r.left > 0
          /\ reading' = [reading EXCEPT ![t].left = r.left - 1,
                                        ![t].reports = Append(r.reports, entry.value)]
          /\ dataOffset' = entry.next
      BY <1>3, <2>4 DEF ReadReport, Reader, r
    <3>2. entry = ReportRead(R[j], ro[j]) /\ j \in 1 .. Len(R)
      BY <1>9, <3>1
    <3> HIDE DEF entry
    <3>3. /\ pc[t] = "reports" /\ pc' = pc /\ r.left > 0
          /\ reading' = [reading EXCEPT ![t].left = r.left - 1,
                                        ![t].reports = Append(r.reports, e)]
          /\ dataOffset' = ro[j] /\ j \in 1 .. Len(R)
      BY <3>1, <3>2 DEF ReportRead
    <3>4. j \in 1 .. Len(R) /\ j - 1 = Len(R) - r.left /\ j = Len(R) - (r.left - 1)
          /\ r.left - 1 <= Len(R)
      BY <1>4, <1>8, <3>3
    <3> HIDE DEF j
    <3>5. r.reports = Stripped(R, j - 1) /\ r.methods = M
      BY <1>10, <3>3, <3>4
    <3>6. Stripped(R, j) = Append(r.reports, e)
      BY <1>8, <3>4, <3>5
    <3> HIDE DEF e
    <3>7. q.left = r.left - 1 /\ q.reports = Append(r.reports, e) /\ q.methods = r.methods
      BY <1>3, <3>3 DEF r
    <3> HIDE DEF q
    <3>8. ReadSoFar("reports", M, R, dataOffset', q, mo, ro)
      BY <3>3, <3>4, <3>5, <3>6, <3>7 DEF ReadSoFar
    <3>9. QED
      BY <3>3, <3>8
  <2>5. QED
    BY <2>1, <2>2, <2>3, <2>4 DEF Reads
<1> HIDE DEF q
<1>12. Reading(t)'
  <2>1. Laying(received'[t], sent'[t].methods, sent'[t].reports, pc'[t], dataOffset',
               reading'[t])
    BY <1>2, <1>5, <1>6, <1>11 DEF M, R, q, Laying
  <2>2. QED
    BY <1>2, <1>6, <2>1 DEF Reading
<1>13. \A u \in Tasks \ {t} : Left(u)
  BY OthersLeft DEF Execute
<1>14. \A u \in Tasks \ {t} : ~Using(u)
  BY <1>1 DEF ReaderInv
<1>15. QED
  BY <1>2, <1>12, <1>13, <1>14, OneReader

LEMMA StartReader ==
  ASSUME ServiceInv, HistoryInv, ReaderInv, NEW t \in Tasks, StartNewDeserialization(t)
  PROVE  ReaderInv'
<1> DEFINE others == {u \in Tasks : Using(u)}
<1>1. /\ pc[t] = "start" /\ data' = received[t] /\ dataOffset' = 0
      /\ pc' = [pc EXCEPT ![t] = "methodCount"] /\ UNCHANGED <<received, reading, sent>>
      /\ disturbed' = disturbed \cup (IF others = {} THEN {} ELSE others \cup {t})
  BY DEF StartNewDeserialization, OffsetReset, Goto
<1>2. Reading(t) /\ pc \in [Tasks -> Places] /\ pc'[t] = "methodCount"
  BY <1>1, Domains DEF ReaderInv
<1>3. Reading(t)'
  <2>1. t \notin disturbed => \E mo, ro : Layout(received[t], sent[t].methods, sent[t].reports, mo, ro)
    BY <1>1, <1>2 DEF Reading, Laying, Decoding
  <2>2. t \notin disturbed => Laying(received'[t], sent'[t].methods, sent'[t].reports, pc'[t], dataOffset', reading'[t])
    BY <1>1, <1>2, <2>1 DEF Laying, ReadSoFar
  <2>3. QED
    BY <1>1, <2>2 DEF Reading
<1>4. \A u \in Tasks \ {t} : Using(u) => u \in disturbed' /\ t \in disturbed'
  BY <1>1
<1>5. \A u \in Tasks \ {t} : Left(u)
  BY OthersLeft DEF Execute
<1>6. disturbed \subseteq disturbed'
  BY <1>1
<1>7. QED
  BY <1>3, <1>4, <1>5, <1>6, OneReader

LEMMA DisturbedReader ==
  ASSUME ServiceInv, HistoryInv, ReaderInv, NEW t \in Tasks, DisturbedReads(t)
  PROVE  ReaderInv'
<1>1. /\ Using(t) /\ t \in disturbed /\ disturbed' = disturbed
      /\ pc' = [pc EXCEPT ![t] = "reports"] /\ data' = data /\ DOMAIN reading = Tasks
      /\ \E m, r : reading' = [reading EXCEPT ![t] = [left |-> 0, methods |-> m, reports |-> r]]
  BY DEF DisturbedReads, Goto, HistoryInv, HistoryTypes
<1>2. reading'[t].left = 0 /\ pc'[t] = "reports"
  BY <1>1, Domains
<1>3. ~Using(t)' /\ Reading(t)'
  BY <1>1, <1>2 DEF Using, Reading
<1>4. \A u \in Tasks \ {t} : Using(u) => u \in disturbed'
  BY <1>1 DEF ReaderInv
<1>5. \A u \in Tasks \ {t} : Left(u)
  BY OthersLeft DEF Execute
<1>6. QED
  BY <1>1, <1>3, <1>4, <1>5, OneReader

LEMMA AskReader ==
  ASSUME ServiceInv, HistoryInv, ReaderInv, NEW t \in Tasks, GetRawHistory(t)
  PROVE  ReaderInv'
<1> DEFINE M == VisitedInfos
           R == CellsOf(serializedCoverage \o EmptyReports)
<1>1. /\ pc' = [pc EXCEPT ![t] = "start"] /\ UNCHANGED <<data, dataOffset, disturbed>>
      /\ received' = [received EXCEPT ![t] = Serialize(M, R)]
      /\ sent' = [sent EXCEPT ![t] = [methods |-> M, reports |-> R]]
  BY DEF GetRawHistory, Goto
<1>2. \E mo, ro : Layout(Serialize(M, R), M, R, mo, ro)
  BY HistorySent
<1>3. DOMAIN received = Tasks /\ DOMAIN sent = Tasks
  BY DEF HistoryInv, HistoryTypes
<1> HIDE DEF M, R
<1>4. /\ pc'[t] = "start" /\ received'[t] = Serialize(M, R)
      /\ sent'[t].methods = M /\ sent'[t].reports = R
  BY <1>1, <1>3, Domains
<1>5. Laying(received'[t], sent'[t].methods, sent'[t].reports, pc'[t], dataOffset', reading'[t])
  BY <1>2, <1>4 DEF Laying, ReadSoFar
<1>6. ~Using(t)' /\ Reading(t)'
  BY <1>4, <1>5 DEF Using, Reading
<1>7. \A u \in Tasks \ {t} : Left(u)
  BY OthersLeft DEF Execute
<1>8. QED
  BY <1>1, <1>6, <1>7, OneReader

(* A step that is none of the deserializer's. *)
LEMMA ElseReader ==
  ASSUME ServiceInv, HistoryInv, ReaderInv, NEW t \in Tasks, Receive(t) \/ Execute(t),
         UNCHANGED readerVars, pc'[t] \notin Decoding
  PROVE  ReaderInv'
<1>1. ~Using(t)' /\ Reading(t)'
  BY DEF Using, Reading, Decoding
<1>2. \A u \in Tasks \ {t} : Left(u)
  BY OthersLeft
<1>3. QED
  BY <1>1, <1>2, OneReader DEF readerVars

LEMMA ReaderStep == ServiceInv /\ HistoryInv /\ ReaderInv /\ [Next]_vars => ReaderInv'
<1>1. ASSUME ServiceInv, HistoryInv, ReaderInv, NEW t \in Tasks, Receive(t) \/ Execute(t)
      PROVE  ReaderInv'
  <2> USE <1>1
  <2>1. CASE GetRawHistory(t)
    BY <2>1, AskReader
  <2>2. CASE StartNewDeserialization(t)
    BY <2>2, StartReader
  <2>3. CASE Reads(t)
    BY <2>3, ReadsReader
  <2>4. CASE DisturbedReads(t)
    BY <2>4, DisturbedReader
  <2>5. CASE \/ Receive(t) \/ ResolveType(t) \/ AddTypes(t) \/ GetMethod(t) \/ AddMethod(t)
             \/ BuildGraph(t) \/ AddTestTypes(t)
    <3>1. /\ UNCHANGED readerVars
          /\ \E p \in {"resolve"} \cup LookingUp : pc' = [pc EXCEPT ![t] = p]
      BY <2>5 DEF Receive, ResolveType, AddTypes, GetMethod, AddMethod, BuildGraph,
         AddTestTypes, Goto, LookingUp
    <3>2. pc'[t] \notin Decoding
      BY <3>1, Domains DEF LookingUp, Decoding
    <3>3. QED
      BY <3>1, <3>2, ElseReader
  <2>6. CASE \/ LookupThrows(t) \/ NothingToAsk(t) \/ DeserializationFails(t)
             \/ CoverageThrows(t) \/ ComputeCoverage(t)
    <3>1. UNCHANGED readerVars /\ pc' = [pc EXCEPT ![t] = "done"]
      BY <2>6 DEF LookupThrows, NothingToAsk, DeserializationFails, CoverageThrows,
         ComputeCoverage, Throw, Answer, Goto
    <3>2. pc'[t] \notin Decoding
      BY <3>1, Domains DEF Decoding
    <3>3. QED
      BY <3>1, <3>2, ElseReader
  <2>7. CASE TestStep(t)
    <3>1. UNCHANGED readerVars /\ pc'[t] \notin Decoding
      BY <2>7, TestLeaves, TestMoves DEF Decoding, Comparing
    <3>2. QED
      BY <3>1, ElseReader
  <2>8. CASE Enter(t) \/ Block(t) \/ Leave(t) \/ Unwind(t)
    <3>1. UNCHANGED readerVars /\ pc'[t] \notin Decoding
      BY <2>8, EventSteps, EventLeaves DEF Decoding, readerVars
    <3>2. QED
      BY <3>1, ElseReader
  <2>9. QED
    BY <2>1, <2>2, <2>3, <2>4, <2>5, <2>6, <2>7, <2>8 DEF Execute, TestStep
<1>2. ASSUME ReaderInv, UNCHANGED vars
      PROVE  ReaderInv'
  <2>1. UNCHANGED <<pc, data, dataOffset, received, reading, sent, disturbed>>
    BY <1>2 DEF vars, readerVars
  <2>2. QED
    BY <1>2, <2>1 DEF ReaderInv, Reading, Using
<1>3. QED
  BY <1>1, <1>2 DEF Next, AllServed

(* What a request that nobody disturbed has read when nothing is left. *)
LEMMA ReadAll ==
  ASSUME HistoryInv, ReaderInv, NEW t \in Tasks, Deserialized(t), t \notin disturbed
  PROVE  LET M == sent[t].methods
             R == sent[t].reports
         IN  /\ Told(M, R) /\ reading[t].methods = M
             /\ reading[t].reports = Stripped(R, Len(R))
             /\ DOMAIN R = 1 .. Len(R) /\ Len(R) \in Nat
<1> DEFINE M == sent[t].methods
           R == sent[t].reports
<1>1. pc[t] = "reports" /\ reading[t].left = 0
  BY DEF Deserialized, Reader
<1>2. /\ Told(M, R) /\ R \in Seq(SentReports)
      /\ \E mo, ro : ReadSoFar(pc[t], M, R, dataOffset, reading[t], mo, ro)
  BY <1>1 DEF ReaderInv, Reading, Laying, HistoryInv, Placed, Decoding, Told
<1>3. Len(R) \in Nat /\ DOMAIN R = 1 .. Len(R)
  BY <1>2
<1> HIDE DEF M, R
<1>4. reading[t].methods = M /\ reading[t].reports = Stripped(R, Len(R) - reading[t].left)
  BY <1>1, <1>2 DEF ReadSoFar
<1>5. Len(R) - reading[t].left = Len(R)
  BY <1>1, <1>3
<1>6. QED
  BY <1>2, <1>3, <1>4, <1>5 DEF M, R

LEMMA ReaderInvariant == Spec => [](ServiceInv /\ HistoryInv /\ ReaderInv)
<1>1. Init => ServiceInv /\ HistoryInv /\ ReaderInv
  BY ServiceInitial, HistoryInitial, ReaderInitial
<1>2. ServiceInv /\ HistoryInv /\ ReaderInv /\ [Next]_vars =>
        ServiceInv' /\ HistoryInv' /\ ReaderInv'
  BY ServiceStep, HistoryStep, ReaderStep
<1>3. QED
  BY <1>1, <1>2, PTL DEF Spec

(* However many requests are served at once, one that nobody disturbs from *)
(* its first to its last access to the statics of the deserializer reads   *)
(* the history it was sent, methods and reports, whatever their number.    *)
THEOREM HistoryDecodedCorrect == Spec => []HistoryDecoded
<1>1. HistoryInv /\ ReaderInv => HistoryDecoded
  <2>1. SUFFICES ASSUME HistoryInv, ReaderInv, NEW t \in Tasks, Deserialized(t),
                        t \notin disturbed
                 PROVE  [methods |-> Reader(t).methods, reports |-> Reader(t).reports]
                          = Decoded(sent[t])
    BY DEF HistoryDecoded
  <2> DEFINE R == sent[t].reports
  <2>2. /\ reading[t].methods = sent[t].methods /\ reading[t].reports = Stripped(R, Len(R))
        /\ DOMAIN R = 1 .. Len(R)
    BY <2>1, ReadAll
  <2>3. Stripped(R, Len(R)) =
          [i \in DOMAIN R |-> [threadId |-> R[i].threadId, records |-> R[i].records]]
    BY <2>2 DEF Stripped, ReportOf
  <2>4. QED
    BY <2>2, <2>3 DEF Decoded, Reader
<1>2. QED
  BY <1>1, ReaderInvariant, PTL

-----------------------------------------------------------------------------
(* Requests that are served one after the other.  Of the blocks of method  *)
(* m: the ones in reports, and the ones in records, where ids are m's.     *)
Covering(reports, ids) ==
  {o \in Nat : \E k \in DOMAIN reports : \E i \in DOMAIN reports[k].records :
     reports[k].records[i].method \in ids /\ reports[k].records[i].offset = o}
Seen(records, ids) ==
  {o \in Nat : \E i \in DOMAIN records : records[i].method \in ids /\ records[i].offset = o}

IdsOf(m) == {i \in DOMAIN collectedMethods : collectedMethods[i] = m}
SameInfo(M, m) ==
  {id \in DOMAIN M : M[id].token = InfoOf[m].token /\ M[id].module = InfoOf[m].module}

(* n of the frames s are of methods in P, counted from the outermost.      *)
Counts(s, P, n) ==
  \E f \in [0 .. Len(s) -> Nat] :
    /\ f[0] = 0 /\ f[Len(s)] = n
    /\ \A i \in 1 .. Len(s) : f[i] = f[i - 1] + (IF s[Len(s) - i + 1] \in P THEN 1 ELSE 0)

(* C is of blocks the request executed, and of all that the probes see.    *)
Owned(t, C) ==
  /\ C \subseteq executed[t]
  /\ BatchMethod(t) \notin compiled => executed[t] = {}
  /\ BatchMethod(t) \in probed /\ t \notin skewed => executed[t] \subseteq C

Collected(t) ==
  Covering(serializedCoverage, IdsOf(BatchMethod(t)))
    \cup Seen(history[t].records, IdsOf(BatchMethod(t)))

(* The balance is the number of frames with probes.                        *)
Balanced(t) ==
  t \notin skewed =>
    \E n \in Nat : /\ Counts(stack[t], probed, n)
                   /\ balance[t] = IF n = 0 THEN None ELSE n

Reason(t) ==
  \/ Tests(t) = <<>> \/ BatchMethod(t) \in Missing \cup NoGraph
  \/ \A i \in DOMAIN Tests(t) : Fails(Tests(t)[i])
  \/ local[t].failed = 0 /\ ExpectedCoverage[BatchMethod(t)] = None

(* A request while it looks its method up and tests it.                    *)
Unasked(t) ==
  /\ Owned(t, Collected(t)) /\ Balanced(t)
  /\ ~local[t].entryMainWasSet => serializedCoverage = <<>>
       /\ \A i \in 1 .. local[t].test - 1 : Fails(Tests(t)[i])

Alone(t) ==
  /\ pc[t] = "addTypes" => Assembly(BatchMethod(t)) \notin typesCache
  /\ pc[t] = "addMethod" => BatchMethod(t) \notin methods
  /\ pc[t] = "addTestTypes" => local[t].assembly \notin typesCache
  /\ pc[t] \in LookingUp \cup Testing => Unasked(t)
  /\ pc[t] \in Decoding =>
       /\ serializedCoverage = <<>>
       /\ Owned(t, Covering(sent[t].reports, SameInfo(sent[t].methods, BatchMethod(t))))
  /\ pc[t] = "done" =>
       \/ result[t].kind # "error" /\ Owned(t, result[t].coverage)
       \/ result[t].kind = "error" /\ Reason(t)

AloneInv ==
  ~overlapped =>
    /\ \A t, u \in Serving : t = u
    /\ disturbed = {}
    /\ Serving = {} => serializedCoverage = <<>>
    /\ \A t \in Tasks : Alone(t)

(* Counting frames. *)
LEMMA CountsNone ==
  ASSUME NEW P
  PROVE  Counts(<<>>, P, 0) /\ \A n : Counts(<<>>, P, n) => n = 0
<1>1. Len(<<>>) = 0 /\ 1 .. Len(<<>>) = {}
  OBVIOUS
<1>2. Counts(<<>>, P, 0)
  <2> DEFINE f == [i \in 0 .. Len(<<>>) |-> 0]
  <2>1. f \in [0 .. Len(<<>>) -> Nat] /\ f[0] = 0 /\ f[Len(<<>>)] = 0
    BY <1>1
  <2>2. QED
    BY <1>1, <2>1 DEF Counts
<1>3. QED
  BY <1>1, <1>2 DEF Counts

LEMMA CountsPush ==
  ASSUME NEW S, NEW s \in Seq(S), NEW m \in S, NEW P, NEW n \in Nat, Counts(s, P, n)
  PROVE  Counts(<<m>> \o s, P, n + (IF m \in P THEN 1 ELSE 0))
<1> DEFINE r == <<m>> \o s
           k == Len(s)
           more == n + (IF m \in P THEN 1 ELSE 0)
<1>1. /\ k \in Nat /\ Len(r) = k + 1 /\ r[1] = m
      /\ \A i \in 1 .. k : r[i + 1] = s[i]
  OBVIOUS
<1>2. PICK f \in [0 .. k -> Nat] :
        /\ f[0] = 0 /\ f[k] = n
        /\ \A i \in 1 .. k : f[i] = f[i - 1] + (IF s[k - i + 1] \in P THEN 1 ELSE 0)
  BY DEF Counts
<1> DEFINE g == [i \in 0 .. k + 1 |-> IF i = k + 1 THEN more ELSE f[i]]
<1> HIDE DEF r, k
<1>3. more \in Nat
  OBVIOUS
<1> HIDE DEF more
<1>4. \A i \in 0 .. k + 1 : g[i] \in Nat
  BY <1>1, <1>2, <1>3
<1>5. g \in [0 .. k + 1 -> Nat] /\ g[0] = 0 /\ g[k + 1] = more
  BY <1>1, <1>2, <1>4
<1>6. ASSUME NEW i \in 1 .. k + 1
      PROVE  g[i] = g[i - 1] + (IF r[(k + 1) - i + 1] \in P THEN 1 ELSE 0)
  <2>1. CASE i = k + 1
    <3>1. (k + 1) - i + 1 = 1 /\ i - 1 = k /\ k \in 0 .. k + 1 /\ k # k + 1
      BY <1>1, <2>1
    <3>2. g[i] = more /\ g[i - 1] = n
      BY <1>2, <1>5, <2>1, <3>1
    <3>3. QED
      BY <1>1, <3>1, <3>2 DEF more
  <2>2. CASE i \in 1 .. k
    <3>1. /\ (k + 1) - i + 1 = (k - i + 1) + 1 /\ k - i + 1 \in 1 .. k
          /\ i \in 0 .. k + 1 /\ i - 1 \in 0 .. k + 1 /\ i # k + 1 /\ i - 1 # k + 1
      BY <1>1, <2>2
    <3>2. g[i] = f[i] /\ g[i - 1] = f[i - 1] /\ r[(k + 1) - i + 1] = s[k - i + 1]
      BY <1>1, <3>1
    <3>3. QED
      BY <1>2, <2>2, <3>2
  <2>3. QED
    BY <1>1, <1>6, <2>1, <2>2
<1> HIDE DEF g
<1>7. Counts(r, P, more)
  BY <1>1, <1>5, <1>6 DEF Counts
<1>8. QED
  BY <1>7 DEF r, more

LEMMA CountsPop ==
  ASSUME NEW S, NEW s \in Seq(S), s # <<>>, NEW P, NEW n \in Nat, Counts(s, P, n)
  PROVE  \E k \in Nat : Counts(Tail(s), P, k) /\ n = k + (IF Head(s) \in P THEN 1 ELSE 0)
<1> DEFINE r == Tail(s)
           l == Len(r)
<1>1. /\ l \in Nat /\ Len(s) = l + 1 /\ Head(s) = s[1]
      /\ \A i \in 1 .. l : r[i] = s[i + 1]
  OBVIOUS
<1>2. PICK f \in [0 .. l + 1 -> Nat] :
        /\ f[0] = 0 /\ f[l + 1] = n
        /\ \A i \in 1 .. l + 1 : f[i] = f[i - 1] + (IF s[(l + 1) - i + 1] \in P THEN 1 ELSE 0)
  BY <1>1 DEF Counts
<1> DEFINE g == [i \in 0 .. l |-> f[i]]
<1> HIDE DEF r, l
<1>3. l \in 0 .. l /\ l + 1 \in 1 .. l + 1 /\ (l + 1) - (l + 1) + 1 = 1 /\ (l + 1) - 1 = l
  BY <1>1
<1>4. n = f[l] + (IF Head(s) \in P THEN 1 ELSE 0)
  BY <1>1, <1>2, <1>3
<1>5. g \in [0 .. l -> Nat] /\ g[0] = 0 /\ g[l] = f[l] /\ f[l] \in Nat
  BY <1>1, <1>2, <1>3
<1>6. ASSUME NEW i \in 1 .. l
      PROVE  g[i] = g[i - 1] + (IF r[l - i + 1] \in P THEN 1 ELSE 0)
  <2>1. /\ i \in 0 .. l /\ i - 1 \in 0 .. l /\ i \in 1 .. l + 1
        /\ (l + 1) - i + 1 = (l - i + 1) + 1 /\ l - i + 1 \in 1 .. l
    BY <1>1
  <2>2. g[i] = f[i] /\ g[i - 1] = f[i - 1] /\ r[l - i + 1] = s[(l + 1) - i + 1]
    BY <1>1, <2>1
  <2>3. QED
    BY <1>2, <2>1, <2>2
<1> HIDE DEF g
<1>7. Counts(r, P, f[l])
  BY <1>5, <1>6 DEF Counts, l
<1>8. QED
  BY <1>4, <1>5, <1>7 DEF r

LEMMA CountsSame ==
  ASSUME NEW S, NEW s \in Seq(S), NEW P, NEW Q, \A m \in S : m \in P <=> m \in Q,
         NEW n, Counts(s, P, n)
  PROVE  Counts(s, Q, n)
<1> DEFINE k == Len(s)
<1>1. k \in Nat /\ \A i \in 1 .. k : s[i] \in S
  OBVIOUS
<1>2. PICK f \in [0 .. k -> Nat] :
        /\ f[0] = 0 /\ f[k] = n
        /\ \A i \in 1 .. k : f[i] = f[i - 1] + (IF s[k - i + 1] \in P THEN 1 ELSE 0)
  BY DEF Counts
<1> HIDE DEF k
<1>3. ASSUME NEW i \in 1 .. k
      PROVE  s[k - i + 1] \in P <=> s[k - i + 1] \in Q
  <2>1. k - i + 1 \in 1 .. k
    BY <1>1
  <2>2. QED
    BY <1>1, <2>1
<1>4. \A i \in 1 .. k : f[i] = f[i - 1] + (IF s[k - i + 1] \in Q THEN 1 ELSE 0)
  BY <1>2, <1>3
<1>5. QED
  BY <1>2, <1>4 DEF Counts, k

(* What reports and records cover. *)
LEMMA NothingCovered == \A ids : Covering(<<>>, ids) = {} /\ Seen(<<>>, ids) = {}
<1>1. DOMAIN <<>> = {}
  OBVIOUS
<1>2. QED
  BY <1>1 DEF Covering, Seen

LEMMA CoveringAppend ==
  ASSUME NEW T, NEW S \in Seq(T), NEW rep \in T, NEW ids
  PROVE  Covering(Append(S, rep), ids) = Covering(S, ids) \cup Seen(rep.records, ids)
<1> DEFINE A == Append(S, rep)
<1>1. /\ Len(S) \in Nat /\ DOMAIN S = 1 .. Len(S) /\ DOMAIN A = 1 .. Len(S) + 1
      /\ \A k \in 1 .. Len(S) : A[k] = S[k]
      /\ A[Len(S) + 1] = rep
  OBVIOUS
<1> HIDE DEF A
<1>2. ASSUME NEW o \in Covering(A, ids)
      PROVE  o \in Covering(S, ids) \cup Seen(rep.records, ids)
  <2>1. PICK k \in DOMAIN A : \E i \in DOMAIN A[k].records :
               A[k].records[i].method \in ids /\ A[k].records[i].offset = o
    BY <1>2 DEF Covering
  <2>2. o \in Nat /\ (k \in 1 .. Len(S) \/ k = Len(S) + 1)
    BY <1>1, <1>2 DEF Covering
  <2>3. QED
    BY <1>1, <2>1, <2>2 DEF Covering, Seen
<1>3. ASSUME NEW o \in Covering(S, ids)
      PROVE  o \in Covering(A, ids)
  <2>1. PICK k \in DOMAIN S : \E i \in DOMAIN S[k].records :
               S[k].records[i].method \in ids /\ S[k].records[i].offset = o
    BY <1>3 DEF Covering
  <2>2. k \in DOMAIN A /\ A[k] = S[k] /\ o \in Nat
    BY <1>1, <1>3 DEF Covering
  <2>3. QED
    BY <2>1, <2>2 DEF Covering
<1>4. ASSUME NEW o \in Seen(rep.records, ids)
      PROVE  o \in Covering(A, ids)
  <2>1. Len(S) + 1 \in DOMAIN A /\ o \in Nat
    BY <1>1, <1>4 DEF Seen
  <2>2. QED
    BY <1>1, <1>4, <2>1 DEF Covering, Seen
<1>5. QED
  BY <1>2, <1>3, <1>4 DEF A

LEMMA SeenAppend ==
  ASSUME NEW T, NEW S \in Seq(T), NEW r \in T, r.offset \in Nat, NEW ids
  PROVE  Seen(Append(S, r), ids) =
           Seen(S, ids) \cup (IF r.method \in ids THEN {r.offset} ELSE {})
<1> DEFINE A == Append(S, r)
<1>1. /\ Len(S) \in Nat /\ DOMAIN S = 1 .. Len(S) /\ DOMAIN A = 1 .. Len(S) + 1
      /\ \A k \in 1 .. Len(S) : A[k] = S[k]
      /\ A[Len(S) + 1] = r
  OBVIOUS
<1> HIDE DEF A
<1>2. ASSUME NEW o \in Seen(A, ids)
      PROVE  o \in Seen(S, ids) \cup (IF r.method \in ids THEN {r.offset} ELSE {})
  <2>1. PICK k \in DOMAIN A : A[k].method \in ids /\ A[k].offset = o
    BY <1>2 DEF Seen
  <2>2. o \in Nat /\ (k \in 1 .. Len(S) \/ k = Len(S) + 1)
    BY <1>1, <1>2 DEF Seen
  <2>3. QED
    BY <1>1, <2>1, <2>2 DEF Seen
<1>3. ASSUME NEW o \in Seen(S, ids)
      PROVE  o \in Seen(A, ids)
  <2>1. PICK k \in DOMAIN S : S[k].method \in ids /\ S[k].offset = o
    BY <1>3 DEF Seen
  <2>2. k \in DOMAIN A /\ A[k] = S[k] /\ o \in Nat
    BY <1>1, <1>3 DEF Seen
  <2>3. QED
    BY <2>1, <2>2 DEF Seen
<1>4. r.method \in ids => r.offset \in Seen(A, ids)
  <2>1. Len(S) + 1 \in DOMAIN A
    BY <1>1
  <2>2. QED
    BY <1>1, <2>1 DEF Seen
<1>5. QED
  BY <1>2, <1>3, <1>4 DEF A

(* Ids that are given out later are in no report and in no record yet. *)
LEMMA CollectedGrows ==
  ASSUME HistoryInv, NEW t \in Tasks, NEW ids, NEW more,
         \A i \in 1 .. Len(collectedMethods) : i \in ids <=> i \in more
  PROVE  /\ Covering(serializedCoverage, ids) = Covering(serializedCoverage, more)
         /\ Seen(history[t].records, ids) = Seen(history[t].records, more)
<1>1. /\ HitsVisited /\ visitedMethods \subseteq 1 .. Len(collectedMethods)
      /\ Tracking(history[t], Len(collectedMethods))
  BY DEF HistoryInv, HistoryTypes, Placed
<1>2. \A k \in DOMAIN serializedCoverage : \A i \in DOMAIN serializedCoverage[k].records :
        serializedCoverage[k].records[i].method \in ids
          <=> serializedCoverage[k].records[i].method \in more
  BY <1>1 DEF HitsVisited
<1>3. \A i \in DOMAIN history[t].records :
        history[t].records[i].method \in ids <=> history[t].records[i].method \in more
  BY <1>1 DEF Tracking
<1>4. Covering(serializedCoverage, ids) = Covering(serializedCoverage, more)
  BY <1>2 DEF Covering
<1>5. Seen(history[t].records, ids) = Seen(history[t].records, more)
  BY <1>3 DEF Seen
<1>6. QED
  BY <1>4, <1>5

-----------------------------------------------------------------------------
LEMMA AloneInitial == Init => AloneInv
<1>1. SUFFICES ASSUME Init
               PROVE  AloneInv
  OBVIOUS
<1>2. Serving = {} /\ disturbed = {} /\ serializedCoverage = <<>>
  BY <1>1 DEF Init, Serving
<1>3. ASSUME NEW t \in Tasks
      PROVE  Alone(t)
  <2>1. pc[t] = "idle"
    BY <1>1 DEF Init
  <2>2. QED
    BY <2>1 DEF Alone, LookingUp, Testing, InHand, Comparing, Decoding
<1>4. QED
  BY <1>2, <1>3 DEF AloneInv

(* A method that gets probes now was not compiled before. *)
NewProbes == compiled \subseteq compiled' /\ \A m \in probed' : m \in probed \/ m \notin compiled

(* While one request is served the others are idle or done. *)
LEMMA OneAlone ==
  ASSUME AloneInv, ~overlapped, NEW t \in Tasks, pc[t] \notin {"idle", "done"},
         batch' = batch, \A u \in Tasks \ {t} : Left(u) /\ (u \in skewed' <=> u \in skewed),
         pc'[t] # "idle", NewProbes, disturbed' = {},
         Alone(t)', pc'[t] = "done" => serializedCoverage' = <<>>
  PROVE  AloneInv'
<1>1. ASSUME NEW u \in Tasks \ {t}
      PROVE  pc[u] \in {"idle", "done"} /\ Alone(u)'
  <2>1. pc[u] \in {"idle", "done"} /\ Alone(u) /\ Left(u)
    BY <1>1 DEF AloneInv, Serving
  <2>2. CASE pc[u] = "idle"
    BY <2>1, <2>2 DEF Left, Alone, LookingUp, Testing, InHand, Comparing, Decoding
  <2>3. CASE pc[u] = "done"
    <3>1. /\ pc'[u] = "done" /\ result'[u] = result[u] /\ local'[u] = local[u]
          /\ executed'[u] = executed[u] /\ (u \in skewed' <=> u \in skewed)
          /\ BatchMethod(u)' = BatchMethod(u) /\ Tests(u)' = Tests(u)
      BY <1>1, <2>1, <2>3 DEF Left, BatchMethod, Tests
    <3>2. \/ result[u].kind # "error" /\ Owned(u, result[u].coverage)
          \/ result[u].kind = "error" /\ Reason(u)
      BY <2>1, <2>3 DEF Alone
    <3>3. Owned(u, result[u].coverage) => Owned(u, result[u].coverage)'
      BY <3>1 DEF Owned, NewProbes
    <3>4. Reason(u) => Reason(u)'
      BY <3>1 DEF Reason
    <3>5. QED
      BY <2>1, <3>1, <3>2, <3>3, <3>4
         DEF Alone, LookingUp, Testing, InHand, Comparing, Decoding
  <2>4. QED
    BY <2>1, <2>2, <2>3
<1>2. Serving' \subseteq {t} /\ (Serving' = {} => pc'[t] = "done")
  BY <1>1 DEF Serving, Left
<1>3. QED
  BY <1>1, <1>2 DEF AloneInv

(* No frame, no block and no report: what a request begins with. *)
LEMMA UnaskedFirst ==
  ASSUME NEW t \in Tasks, executed[t] = {}, serializedCoverage = <<>>,
         history[t] = NoHistory, balance[t] = None, stack[t] = <<>>, local[t] = NewLocals
  PROVE  Unasked(t)
<1>1. Collected(t) = {}
  BY NothingCovered DEF Collected, NoHistory
<1>2. Owned(t, Collected(t))
  BY <1>1 DEF Owned
<1>3. Balanced(t)
  BY CountsNone DEF Balanced
<1>4. 1 .. local[t].test - 1 = {}
  BY DEF NewLocals
<1>5. QED
  BY <1>2, <1>3, <1>4 DEF Unasked

(* The first request after others, or the first of all. *)
LEMMA ReceiveAlone ==
  ASSUME ServiceInv, HistoryInv, AloneInv, NEW t \in Tasks, Receive(t)
  PROVE  AloneInv'
<1>1. /\ pc[t] = "idle" /\ pc' = [pc EXCEPT ![t] = "types"]
      /\ overlapped' = (overlapped \/ Serving # {})
      /\ UNCHANGED <<batch, testVars, result, sharedVars, profilerVars, readerVars>>
  BY DEF Receive, Goto
<1>2. SUFFICES ASSUME ~overlapped, Serving = {}
               PROVE  AloneInv'
  BY <1>1 DEF AloneInv
<1>3. serializedCoverage = <<>> /\ disturbed = {} /\ \A u \in Tasks : Alone(u)
  BY <1>2 DEF AloneInv
<1>4. pc \in [Tasks -> Places] /\ Placed(t)
  BY Domains DEF HistoryInv
<1>5. pc'[t] = "types" /\ \A u \in Tasks \ {t} : pc'[u] = pc[u] /\ pc[u] \in {"idle", "done"}
  BY <1>1, <1>2, <1>4 DEF Serving
<1>6. Serving' = {t}
  BY <1>4, <1>5 DEF Serving
<1>7. /\ executed' = executed /\ local' = local /\ serializedCoverage' = serializedCoverage
      /\ collectedMethods' = collectedMethods /\ result' = result /\ batch' = batch
      /\ compiled' = compiled /\ probed' = probed /\ skewed' = skewed /\ stack' = stack
      /\ history' = history /\ balance' = balance /\ disturbed' = disturbed
  BY <1>1 DEF testVars, callVars, profilerVars, codeVars, reportVars, readerVars
<1>8. Alone(t)'
  <2>1. /\ executed[t] = {} /\ balance[t] = None /\ history[t] = NoHistory
        /\ stack[t] = <<>> /\ local[t] = NewLocals
    BY <1>1, <1>4 DEF Placed, Testing, InHand, Comparing
  <2>2. Unasked(t)
    BY <1>3, <2>1, UnaskedFirst
  <2>3. Unasked(t)'
    BY <1>7, <2>2 DEF Unasked, Owned, Balanced, Collected, IdsOf, BatchMethod, Tests
  <2>4. QED
    BY <1>5, <2>3 DEF Alone, LookingUp, Testing, InHand, Comparing, Decoding
<1>9. ASSUME NEW u \in Tasks \ {t}
      PROVE  Alone(u)'
  <2>1. CASE pc[u] = "idle"
    BY <1>5, <2>1 DEF Alone, LookingUp, Testing, InHand, Comparing, Decoding
  <2>2. CASE pc[u] = "done"
    <3>1. \/ result[u].kind # "error" /\ Owned(u, result[u].coverage)
          \/ result[u].kind = "error" /\ Reason(u)
      BY <1>3, <2>2 DEF Alone
    <3>2. \/ result'[u].kind # "error" /\ Owned(u, result[u].coverage)'
          \/ result'[u].kind = "error" /\ Reason(u)'
      BY <1>7, <3>1 DEF Owned, Reason, BatchMethod, Tests
    <3>3. QED
      BY <1>5, <2>2, <3>2 DEF Alone, LookingUp, Testing, InHand, Comparing, Decoding
  <2>3. QED
    BY <1>5, <2>1, <2>2
<1>10. QED
  BY <1>3, <1>6, <1>7, <1>8, <1>9 DEF AloneInv

(* A step of the only request that no probe takes part in. *)
LEMMA QuietAlone ==
  ASSUME ServiceInv, HistoryInv, AloneInv, ~overlapped, NEW t \in Tasks, Execute(t),
         UNCHANGED <<executed, skewed, stack, compiled, probed, collectedMethods,
                     serializedCoverage, balance, history, disturbed>>,
         pc[t] \in LookingUp \cup Testing, pc'[t] \in LookingUp \cup Testing,
         pc'[t] = "addTypes" => Assembly(BatchMethod(t)) \notin typesCache',
         pc'[t] = "addMethod" => BatchMethod(t) \notin methods',
         pc'[t] = "addTestTypes" => local'[t].assembly \notin typesCache',
         ~local'[t].entryMainWasSet =>
           /\ ~local[t].entryMainWasSet
           /\ (\A i \in 1 .. local[t].test - 1 : Fails(Tests(t)[i])) =>
                \A i \in 1 .. local'[t].test - 1 : Fails(Tests(t)[i])
  PROVE  AloneInv'
<1>1. Alone(t) /\ Unasked(t) /\ disturbed = {}
  BY DEF AloneInv, Alone
<1>2. /\ batch' = batch /\ pc'[t] # "idle"
      /\ \A u \in Tasks \ {t} : Left(u) /\ (u \in skewed' <=> u \in skewed)
  BY OthersLeft
<1>3. BatchMethod(t)' = BatchMethod(t) /\ Tests(t)' = Tests(t)
  BY <1>2 DEF BatchMethod, Tests
<1>4. Unasked(t)'
  BY <1>1, <1>3 DEF Unasked, Owned, Balanced, Collected, IdsOf
<1>5. \A p \in LookingUp \cup Testing : p \notin Decoding \cup {"idle", "done"}
  BY DEF LookingUp, Testing, InHand, Comparing, Decoding
<1>6. Alone(t)'
  BY <1>3, <1>4, <1>5 DEF Alone
<1>7. NewProbes /\ disturbed' = {}
  BY <1>1 DEF NewProbes
<1>8. QED
  BY <1>2, <1>5, <1>6, <1>7, OneAlone

(* The only request looks its method up, or adds types. *)
LEMMA LookupAlone ==
  ASSUME ServiceInv, HistoryInv, AloneInv, ~overlapped, NEW t \in Tasks,
         \/ ResolveType(t) \/ AddTypes(t) \/ GetMethod(t) \/ AddMethod(t) \/ BuildGraph(t)
         \/ AddTestTypes(t)
  PROVE  AloneInv'
<1>1. /\ Execute(t) /\ pc[t] \in LookingUp \cup Testing
      /\ UNCHANGED <<batch, testVars, result, profilerVars, readerVars>>
  BY DEF Execute, ResolveType, AddTypes, GetMethod, AddMethod, BuildGraph, AddTestTypes,
     LookingUp, Testing
<1>2. pc'[t] \in {"addTypes", "method", "addMethod", "graph", "resolve"}
  BY Domains DEF ResolveType, AddTypes, GetMethod, AddMethod, BuildGraph, AddTestTypes, Goto
<1>3. /\ pc'[t] = "addTypes" => Assembly(BatchMethod(t)) \notin typesCache'
      /\ pc'[t] = "addMethod" => BatchMethod(t) \notin methods'
  <2>1. CASE ResolveType(t) \/ GetMethod(t)
    BY <1>1, <2>1, Domains DEF ResolveType, GetMethod, Goto, sharedVars
  <2>2. CASE AddTypes(t) \/ AddMethod(t) \/ BuildGraph(t) \/ AddTestTypes(t)
    BY <2>2, Domains DEF AddTypes, AddMethod, BuildGraph, AddTestTypes, Goto
  <2>3. QED
    BY <2>1, <2>2
<1>4. /\ local' = local
      /\ UNCHANGED <<executed, skewed, stack, compiled, probed, collectedMethods,
                     serializedCoverage, balance, history, disturbed>>
  BY <1>1 DEF testVars, callVars, profilerVars, codeVars, reportVars, readerVars
<1>5. pc'[t] \in LookingUp \cup Testing /\ pc'[t] # "addTestTypes"
  BY <1>2 DEF LookingUp, Testing
<1>6. QED
  BY <1>1, <1>3, <1>4, <1>5, QuietAlone

(* The only request tests, what goes on in an invocation left aside. *)
LEMMA TestAlone ==
  ASSUME ServiceInv, HistoryInv, AloneInv, ~overlapped, NEW t \in Tasks, TestStep(t)
  PROVE  AloneInv'
<1>1. Alone(t) /\ Placed(t) /\ Execute(t) /\ local[t] \in Locals /\ local[t].test \in Nat \ {0}
  BY Domains DEF AloneInv, HistoryInv, TestStep, Execute, Locals
<1>2. pc[t] \in Testing /\ pc'[t] \in Testing
  BY TestMoves DEF Testing, InHand, Comparing
<1>3. UNCHANGED <<executed, skewed, stack, compiled, probed, collectedMethods,
                  serializedCoverage, balance, history, disturbed, typesCache>>
  BY TestLeaves DEF readerVars, sharedVars
<1>4. /\ pc'[t] = "addTestTypes" => local'[t].assembly \notin typesCache'
      /\ pc'[t] \notin {"addTypes", "addMethod"}
  BY <1>3, TestMoves, TestLocals DEF Comparing
<1>5. ASSUME ~local'[t].entryMainWasSet
      PROVE  /\ ~local[t].entryMainWasSet
             /\ (\A i \in 1 .. local[t].test - 1 : Fails(Tests(t)[i])) =>
                  \A i \in 1 .. local'[t].test - 1 : Fails(Tests(t)[i])
  <2>1. ~local[t].entryMainWasSet
    BY <1>5, TestLocals
  <2>2. pc[t] \notin {"invoke", "run", "compare"}
    BY <1>1, <2>1 DEF Placed, Comparing
  <2>3. ~TestTypesThere(t)
    BY <1>1 DEF Alone, TestTypesThere
  <2>4. CASE local'[t].test = local[t].test
    BY <2>1, <2>4
  <2>5. CASE local'[t].test = local[t].test + 1 /\ ResolveFails(t)
    <3>1. Fails(Tests(t)[local[t].test])
      BY <2>5 DEF ResolveFails, Test, Tests
    <3>2. \A i \in 1 .. local'[t].test - 1 : i \in 1 .. local[t].test - 1 \/ i = local[t].test
      BY <1>1, <2>5
    <3>3. QED
      BY <2>1, <3>1, <3>2
  <2>6. QED
    BY <2>2, <2>3, <2>4, <2>5, TestLocals
<1>6. QED
  BY <1>1, <1>2, <1>3, <1>4, <1>5, QuietAlone

(* An event in the invocation of the only request. *)
LEMMA EventAlone ==
  ASSUME ServiceInv, HistoryInv, AloneInv, ~overlapped, NEW t \in Tasks,
         Enter(t) \/ Block(t) \/ Leave(t) \/ Unwind(t),
         NewProbes, Owned(t, Collected(t))', Balanced(t)'
  PROVE  AloneInv'
<1>1. /\ pc[t] = "run"
      /\ UNCHANGED <<pc, local, disturbed>>
  BY EventSteps, EventLeaves
<1>2. Placed(t) /\ disturbed = {}
  BY DEF HistoryInv, AloneInv
<1>3. local'[t].entryMainWasSet
  BY <1>1, <1>2 DEF Placed
<1>4. Unasked(t)'
  BY <1>3 DEF Unasked
<1>5. Alone(t)'
  BY <1>1, <1>4 DEF Alone, LookingUp, Testing, InHand, Comparing, Decoding
<1>6. /\ batch' = batch
      /\ \A u \in Tasks \ {t} : Left(u) /\ (u \in skewed' <=> u \in skewed)
  BY OthersLeft DEF Execute
<1>7. pc'[t] = "run" /\ pc'[t] # "idle" /\ pc'[t] # "done" /\ disturbed' = {}
  BY <1>1, <1>2
<1>8. QED
  BY <1>1, <1>5, <1>6, <1>7, OneAlone

LEMMA RunningAlone ==
  ASSUME HistoryInv, AloneInv, ~overlapped, NEW t \in Tasks, pc[t] = "run"
  PROVE  Owned(t, Collected(t)) /\ Balanced(t)
BY DEF AloneInv, Alone, Unasked, Testing, InHand

LEMMA EnterAlone ==
  ASSUME ServiceInv, HistoryInv, AloneInv, ~overlapped, NEW t \in Tasks, Enter(t)
  PROVE  AloneInv'
<1> DEFINE m == Head(todo[t]).method
           b == BatchMethod(t)
<1>1. Event(t, "enter") /\ m \in Methods
  <2>1. Event(t, "enter")
    BY DEF Enter
  <2>2. Head(todo[t]) \in Events /\ Head(todo[t]).kind = "enter"
    BY <2>1, EventIs
  <2>3. QED
    BY <2>1, <2>2 DEF Events
<1>2. /\ Compile(m) /\ stack' = [stack EXCEPT ![t] = <<m>> \o stack[t]]
      /\ IF m \in probed' THEN Track_EnterMain(t, m) ELSE UNCHANGED <<balance, history>>
      /\ UNCHANGED <<executed, skewed, serializedCoverage>>
  BY DEF Enter
<1> HIDE DEF m
<1>3. /\ stack \in [Tasks -> Seq(compiled)] /\ balance \in [Tasks -> Int \cup {None}]
      /\ DOMAIN history = Tasks /\ Placed(t) /\ probed \subseteq compiled
      /\ collectedMethods \in Seq(Methods)
  BY DEF HistoryInv, HistoryTypes
<1>4. Owned(t, Collected(t)) /\ Balanced(t)
  BY <1>1, EventLeaves, RunningAlone
<1>5. /\ compiled' = compiled \cup {m} /\ probed \subseteq probed'
      /\ probed' = probed \/ (m \notin compiled /\ probed' = probed \cup {m})
      /\ collectedMethods' \in Seq(Methods)
      /\ Len(collectedMethods) \in Nat /\ Len(collectedMethods') \in Nat
      /\ Len(collectedMethods) <= Len(collectedMethods')
      /\ \A i \in 1 .. Len(collectedMethods) : collectedMethods'[i] = collectedMethods[i]
  BY <1>1, <1>2, CompileIs
<1>6. NewProbes
  BY <1>5 DEF NewProbes
<1>7. b' = b
  BY <1>1, EventLeaves DEF BatchMethod
<1>8. history'[t].records = history[t].records
  <2>1. CASE m \in probed' /\ ~Tracked(t)
    <3>1. history[t] = NoHistory
      BY <1>3, <2>1 DEF Placed, Tracked
    <3>2. history'[t] = [methods |-> {IdIn(collectedMethods', m)}, records |-> <<>>]
      BY <1>2, <1>3, <2>1 DEF Track_EnterMain
    <3>3. QED
      BY <3>1, <3>2 DEF NoHistory
  <2>2. CASE ~(m \in probed' /\ ~Tracked(t))
    BY <1>2, <2>2 DEF Track_EnterMain
  <2>3. QED
    BY <2>1, <2>2
<1>9. Collected(t)' = Collected(t)
  <2> DEFINE old == IdsOf(b)
             new == {i \in DOMAIN collectedMethods' : collectedMethods'[i] = b}
  <2>1. \A i \in 1 .. Len(collectedMethods) : i \in old <=> i \in new
    <3>1. /\ DOMAIN collectedMethods = 1 .. Len(collectedMethods)
          /\ DOMAIN collectedMethods' = 1 .. Len(collectedMethods')
      BY <1>3, <1>5
    <3>2. 1 .. Len(collectedMethods) \subseteq 1 .. Len(collectedMethods')
      BY <1>5
    <3>3. QED
      BY <1>5, <3>1, <3>2 DEF IdsOf
  <2>2. new = IdsOf(b)'
    BY <1>7 DEF IdsOf
  <2> HIDE DEF old, new
  <2>3. /\ Covering(serializedCoverage, old) = Covering(serializedCoverage, new)
        /\ Seen(history[t].records, old) = Seen(history[t].records, new)
    BY <2>1, CollectedGrows
  <2>4. Collected(t) = Covering(serializedCoverage, old) \cup Seen(history[t].records, old)
    BY DEF Collected, old
  <2>5. Collected(t)' = Covering(serializedCoverage', new) \cup Seen(history'[t].records, new)
    BY <2>2 DEF Collected
  <2>6. QED
    BY <1>2, <1>8, <2>3, <2>4, <2>5
<1>10. Owned(t, Collected(t))'
  BY <1>2, <1>4, <1>5, <1>7, <1>9 DEF Owned
<1>11. Balanced(t)'
  <2>1. SUFFICES ASSUME t \notin skewed
                 PROVE  \E n \in Nat : /\ Counts(stack'[t], probed', n)
                                       /\ balance'[t] = IF n = 0 THEN None ELSE n
    BY <1>2 DEF Balanced
  <2>2. PICK n \in Nat : /\ Counts(stack[t], probed, n)
                         /\ balance[t] = IF n = 0 THEN None ELSE n
    BY <1>4, <2>1 DEF Balanced
  <2>3. stack[t] \in Seq(compiled) /\ stack[t] \in Seq(compiled') /\ m \in compiled'
    BY <1>3, <1>5, SeqGrows
  <2>4. \A x \in compiled : x \in probed <=> x \in probed'
    BY <1>5
  <2>5. Counts(stack[t], probed', n)
    BY <2>2, <2>3, <2>4, CountsSame
  <2>6. Counts(<<m>> \o stack[t], probed', n + (IF m \in probed' THEN 1 ELSE 0))
    BY <2>2, <2>3, <2>5, CountsPush
  <2>7. stack'[t] = <<m>> \o stack[t]
    BY <1>2, <1>3
  <2>8. CASE m \notin probed'
    <3>1. n + (IF m \in probed' THEN 1 ELSE 0) = n /\ balance'[t] = balance[t]
      BY <1>2, <2>2, <2>8
    <3>2. QED
      BY <2>2, <2>6, <2>7, <3>1
  <2>9. CASE m \in probed'
    <3>1. n + (IF m \in probed' THEN 1 ELSE 0) = n + 1 /\ n + 1 \in Nat /\ n + 1 # 0
      BY <2>2, <2>9
    <3>2. balance'[t] = n + 1
      <4>1. CASE n = 0
        <5>1. ~Tracked(t)
          BY <2>2, <4>1 DEF Tracked
        <5>2. QED
          BY <1>2, <1>3, <2>9, <4>1, <5>1 DEF Track_EnterMain
      <4>2. CASE n # 0
        <5>1. balance[t] = n /\ n # None
          BY <2>2, <4>2, ServiceAssumption
        <5>2. Tracked(t)
          BY <5>1 DEF Tracked
        <5>3. QED
          BY <1>2, <1>3, <2>9, <5>1, <5>2 DEF Track_EnterMain
      <4>3. QED
        BY <4>1, <4>2
    <3>3. QED
      BY <2>6, <2>7, <3>1, <3>2
  <2>10. QED
    BY <2>8, <2>9
<1>12. QED
  BY <1>6, <1>10, <1>11, EventAlone

(* The frame of a method with probes is tracked. *)
LEMMA FrameTracked ==
  ASSUME HistoryInv, NEW t \in Tasks, Balanced(t), t \notin skewed, stack[t] # <<>>
  PROVE  \E n \in Nat : /\ Counts(Tail(stack[t]), probed, n)
                        /\ Frame(t) \in probed => Tracked(t) /\ balance[t] = n + 1
                        /\ Frame(t) \notin probed =>
                             balance[t] = IF n = 0 THEN None ELSE n
<1>1. PICK k \in Nat : /\ Counts(stack[t], probed, k)
                       /\ balance[t] = IF k = 0 THEN None ELSE k
  BY DEF Balanced
<1>2. stack[t] \in Seq(compiled)
  BY DEF HistoryInv, HistoryTypes
<1>3. PICK n \in Nat : /\ Counts(Tail(stack[t]), probed, n)
                       /\ k = n + (IF Head(stack[t]) \in probed THEN 1 ELSE 0)
  BY <1>1, <1>2, CountsPop
<1>4. ASSUME Frame(t) \in probed
      PROVE  Tracked(t) /\ balance[t] = n + 1
  <2>1. k = n + 1 /\ k # 0
    BY <1>3, <1>4 DEF Frame
  <2>2. balance[t] = n + 1 /\ n + 1 \in Int
    BY <1>1, <1>3, <2>1
  <2>3. QED
    BY <2>2, ServiceAssumption DEF Tracked
<1>5. ASSUME Frame(t) \notin probed
      PROVE  balance[t] = IF n = 0 THEN None ELSE n
  <2>1. k = n
    BY <1>3, <1>5 DEF Frame
  <2>2. QED
    BY <1>1, <2>1
<1>6. QED
  BY <1>3, <1>4, <1>5

LEMMA BlockAlone ==
  ASSUME ServiceInv, HistoryInv, AloneInv, ~overlapped, NEW t \in Tasks, Block(t)
  PROVE  AloneInv'
<1> DEFINE offset == Head(todo[t]).offset
           b == BatchMethod(t)
           ids == IdsOf(b)
<1>1. Event(t, "block") /\ offset \in Nat
  <2>1. Event(t, "block")
    BY DEF Block
  <2>2. Head(todo[t]) \in Events /\ Head(todo[t]).kind = "block"
    BY <2>1, EventIs
  <2>3. QED
    BY <2>1, <2>2 DEF Events
<1>2. /\ IF Tracked(t) /\ Frame(t) \in probed
         THEN Track_Coverage(t, Frame(t), offset) ELSE UNCHANGED history
      /\ executed' = [executed EXCEPT ![t] =
                        IF Frame(t) = BatchMethod(t) THEN executed[t] \cup {offset} ELSE executed[t]]
      /\ UNCHANGED <<stack, skewed, compiled, probed, collectedMethods, serializedCoverage,
                     balance>>
      /\ stack[t] # <<>>
  BY DEF Block
<1> HIDE DEF offset
<1>3. /\ DOMAIN history = Tasks /\ executed \in [Tasks -> SUBSET Nat]
      /\ stack \in [Tasks -> Seq(compiled)] /\ Tracking(history[t], Len(collectedMethods))
  BY DEF HistoryInv, HistoryTypes, Placed
<1>4. Owned(t, Collected(t)) /\ Balanced(t)
  BY <1>1, EventLeaves, RunningAlone
<1>5. NewProbes /\ Balanced(t)'
  BY <1>2, <1>4 DEF NewProbes, Balanced
<1>6. BatchMethod(t)' = b
  BY <1>1, EventLeaves DEF BatchMethod
<1>7. executed'[t] = IF Frame(t) = b THEN executed[t] \cup {offset} ELSE executed[t]
  BY <1>2, <1>3
<1>8. Frame(t) \in compiled
  <2>1. stack[t] \in Seq(compiled)
    BY <1>3
  <2>2. QED
    BY <1>2, <2>1 DEF Frame
<1>9. Collected(t)' = Covering(serializedCoverage, ids) \cup Seen(history'[t].records, ids)
  BY <1>2, <1>6 DEF Collected, IdsOf
<1>10. Collected(t) = Covering(serializedCoverage, ids) \cup Seen(history[t].records, ids)
  BY DEF Collected
<1>11. CASE Tracked(t) /\ Frame(t) \in probed
  <2> DEFINE id == IdOf(Frame(t))
             r == [method |-> id, offset |-> offset]
  <2>1. /\ id \in 1 .. Len(collectedMethods) /\ collectedMethods[id] = Frame(t)
        /\ id \in Nat \ {0} /\ DOMAIN collectedMethods = 1 .. Len(collectedMethods)
    <3>1. id \in 1 .. Len(collectedMethods) /\ collectedMethods[id] = Frame(t)
      BY <1>1, <1>11, RecordIs
    <3>2. collectedMethods \in Seq(Methods)
      BY DEF HistoryInv, HistoryTypes
    <3>3. QED
      BY <3>1, <3>2
  <2>2. history'[t].records = Append(history[t].records, r)
    BY <1>2, <1>3, <1>11 DEF Track_Coverage
  <2>3. id \in ids <=> Frame(t) = b
    BY <2>1 DEF IdsOf
  <2> HIDE DEF id
  <2>4. /\ r \in [method : Nat \ {0}, offset : Nat] /\ r.offset = offset /\ r.method = id
        /\ history[t].records \in Seq([method : Nat \ {0}, offset : Nat])
    BY <1>1, <1>3, <2>1 DEF Tracking
  <2> HIDE DEF r, ids
  <2>5. Seen(Append(history[t].records, r), ids) =
          Seen(history[t].records, ids) \cup (IF r.method \in ids THEN {r.offset} ELSE {})
    BY <1>1, <2>4, SeenAppend
  <2>6. Collected(t)' = Collected(t) \cup (IF Frame(t) = b THEN {offset} ELSE {})
    BY <1>9, <1>10, <2>2, <2>3, <2>4, <2>5
  <2>7. Owned(t, Collected(t))'
    BY <1>2, <1>4, <1>6, <1>7, <1>8, <2>6 DEF Owned
  <2>8. QED
    BY <1>5, <2>7, EventAlone
<1>12. CASE ~(Tracked(t) /\ Frame(t) \in probed)
  <2>1. Collected(t)' = Collected(t)
    BY <1>2, <1>9, <1>10, <1>12
  <2>2. t \notin skewed => Frame(t) \notin probed
    BY <1>2, <1>4, <1>12, FrameTracked
  <2>3. Owned(t, Collected(t))'
    BY <1>2, <1>4, <1>6, <1>7, <1>8, <2>1, <2>2 DEF Owned
  <2>4. QED
    BY <1>5, <2>3, EventAlone
<1>13. QED
  BY <1>11, <1>12

LEMMA LeaveAlone ==
  ASSUME ServiceInv, HistoryInv, AloneInv, ~overlapped, NEW t \in Tasks,
         Leave(t) \/ Unwind(t)
  PROVE  AloneInv'
<1> DEFINE b == BatchMethod(t)
           ids == IdsOf(b)
           down == \E tracked : /\ Tracking(tracked, Len(collectedMethods))
                                /\ tracked.records = history[t].records
                                /\ StackBalanceDown(t, tracked)
<1>1. Pop(t) /\ \E kind : Event(t, kind)
  BY DEF Leave, Unwind
<1>2. /\ stack[t] # <<>> /\ Frame(t) \in compiled /\ stack'[t] = Tail(stack[t])
      /\ UNCHANGED <<executed, mainFunctionId, compiled, probed, collectedMethods>>
  BY <1>1, PopIs
<1>3. /\ balance \in [Tasks -> Int \cup {None}] /\ DOMAIN history = Tasks
      /\ serializedCoverage \in Seq(Held) /\ Tracking(history[t], Len(collectedMethods))
      /\ mainFunctionId \in probed \cup {None} /\ compiled \subseteq Methods
  BY DEF HistoryInv, HistoryTypes, Placed
<1>4. Owned(t, Collected(t)) /\ Balanced(t)
  BY <1>1, EventLeaves, RunningAlone
<1>5. NewProbes /\ b' = b
  BY <1>1, <1>2, EventLeaves DEF NewProbes, BatchMethod
<1>6. /\ \/ Tracked(t) /\ down
         \/ UNCHANGED <<serializedCoverage, balance, history>>
      /\ t \in skewed => t \in skewed'
      /\ t \notin skewed' =>
           /\ Frame(t) \in probed /\ Tracked(t) => down
           /\ Frame(t) \notin probed => UNCHANGED <<serializedCoverage, balance, history>>
  <2>1. CASE Leave(t) /\ Tracked(t) /\ Frame(t) \in probed
    <3>1. /\ StackBalanceDown(t, [history[t] EXCEPT !.methods = @ \cup {IdOf(Frame(t))}])
          /\ skewed' = skewed
      BY <2>1 DEF Leave
    <3>2. /\ Tracking([history[t] EXCEPT !.methods = @ \cup {IdOf(Frame(t))}], Len(collectedMethods))
          /\ [history[t] EXCEPT !.methods = @ \cup {IdOf(Frame(t))}].records = history[t].records
      BY <2>1, MarkIs
    <3>3. down
      BY <3>1, <3>2
    <3> HIDE DEF down
    <3>4. QED
      BY <2>1, <3>1, <3>3
  <2>2. CASE Unwind(t) /\ Tracked(t) /\ Frame(t) = mainFunctionId
    <3>1. StackBalanceDown(t, history[t]) /\ Frame(t) \in probed /\ skewed' = skewed
      BY <1>2, <1>3, <2>2, ServiceAssumption DEF Unwind
    <3>2. down
      BY <1>3, <3>1
    <3> HIDE DEF down
    <3>3. QED
      BY <2>2, <3>1, <3>2
  <2>3. CASE Leave(t) /\ ~(Tracked(t) /\ Frame(t) \in probed)
    <3>1. UNCHANGED reportVars /\ skewed' = skewed
      BY <2>3 DEF Leave
    <3> HIDE DEF down
    <3>2. QED
      BY <2>3, <3>1 DEF reportVars
  <2>4. CASE Unwind(t) /\ ~(Tracked(t) /\ Frame(t) = mainFunctionId)
    <3>1. /\ UNCHANGED reportVars
          /\ skewed' = IF Frame(t) \in probed \ {mainFunctionId} THEN skewed \cup {t} ELSE skewed
      BY <2>4 DEF Unwind
    <3> HIDE DEF down
    <3>2. t \notin skewed' => Frame(t) \notin probed \/ ~Tracked(t)
      BY <2>4, <3>1
    <3>3. QED
      BY <3>1, <3>2 DEF reportVars
  <2>5. QED
    BY <2>1, <2>2, <2>3, <2>4
<1>7. ASSUME Tracked(t), down
      PROVE  /\ Collected(t)' = Collected(t)
             /\ \/ balance[t] = 1 /\ balance'[t] = None
                \/ balance[t] # 1 /\ balance'[t] = balance[t] - 1
  <2>1. PICK tracked : /\ Tracking(tracked, Len(collectedMethods))
                       /\ tracked.records = history[t].records
                       /\ StackBalanceDown(t, tracked)
    BY <1>7
  <2> HIDE DEF down
  <2>2. balance[t] \in Int
    BY <1>3, <1>7 DEF Tracked
  <2> DEFINE rep == [threadId |-> 0, aborted |-> FALSE, records |-> tracked.records]
  <2>3. \/ /\ balance[t] = 1 /\ balance'[t] = None /\ history'[t] = NoHistory
           /\ serializedCoverage' = Append(serializedCoverage, rep)
        \/ /\ balance[t] # 1 /\ balance'[t] = balance[t] - 1 /\ history'[t] = tracked
           /\ serializedCoverage' = serializedCoverage
    BY <1>2, <2>1, <2>2, DownIs
  <2>4. rep \in Held /\ rep.records = history[t].records
    BY <2>1 DEF Tracking, Held
  <2>5. Collected(t)' = Covering(serializedCoverage', ids) \cup Seen(history'[t].records, ids)
    BY <1>2, <1>5 DEF Collected, IdsOf
  <2>6. Collected(t) = Covering(serializedCoverage, ids) \cup Seen(history[t].records, ids)
    BY DEF Collected
  <2> HIDE DEF rep, ids
  <2>7. Covering(Append(serializedCoverage, rep), ids) =
          Covering(serializedCoverage, ids) \cup Seen(history[t].records, ids)
    BY <1>3, <2>4, CoveringAppend
  <2>8. Seen(NoHistory.records, ids) = {}
    BY NothingCovered DEF NoHistory
  <2>9. QED
    BY <2>1, <2>3, <2>5, <2>6, <2>7, <2>8
<1>8. ASSUME UNCHANGED <<serializedCoverage, balance, history>>
      PROVE  Collected(t)' = Collected(t)
  BY <1>2, <1>5, <1>8 DEF Collected, IdsOf
<1> HIDE DEF down
<1>9. Collected(t)' = Collected(t)
  BY <1>6, <1>7, <1>8
<1>10. Owned(t, Collected(t))'
  BY <1>2, <1>4, <1>5, <1>6, <1>9 DEF Owned
<1>11. Balanced(t)'
  <2>1. SUFFICES ASSUME t \notin skewed'
                 PROVE  \E n \in Nat : /\ Counts(stack'[t], probed', n)
                                       /\ balance'[t] = IF n = 0 THEN None ELSE n
    BY DEF Balanced
  <2>2. t \notin skewed
    BY <1>6, <2>1
  <2>3. PICK n \in Nat : /\ Counts(Tail(stack[t]), probed, n)
                         /\ Frame(t) \in probed => Tracked(t) /\ balance[t] = n + 1
                         /\ Frame(t) \notin probed => balance[t] = IF n = 0 THEN None ELSE n
    BY <1>2, <1>4, <2>2, FrameTracked
  <2>4. Counts(stack'[t], probed', n)
    BY <1>2, <2>3
  <2>5. CASE Frame(t) \in probed
    <3>1. balance[t] = n + 1 /\ Tracked(t) /\ down
      BY <1>6, <2>1, <2>3, <2>5
    <3>2. balance'[t] = IF n = 0 THEN None ELSE n
      BY <1>7, <2>3, <3>1
    <3>3. QED
      BY <2>4, <3>2
  <2>6. CASE Frame(t) \notin probed
    BY <1>6, <2>1, <2>3, <2>4, <2>6
  <2>7. QED
    BY <2>5, <2>6
<1>12. QED
  BY <1>5, <1>10, <1>11, EventAlone

-----------------------------------------------------------------------------
(* What is sent covers the blocks the reports did. *)
LEMMA SentCovers ==
  ASSUME HistoryInv, NEW m \in Methods, NEW M, M = VisitedInfos,
         NEW R, R = CellsOf(serializedCoverage \o EmptyReports)
  PROVE  Covering(R, SameInfo(M, m)) = Covering(serializedCoverage, IdsOf(m))
<1> DEFINE S == serializedCoverage
           n == Len(S)
<1>1. /\ S \in Seq(Held) /\ collectedMethods \in Seq(Methods)
      /\ visitedMethods \subseteq 1 .. Len(collectedMethods)
      /\ \A k \in DOMAIN S : \A i \in DOMAIN S[k].records :
           S[k].records[i].method \in visitedMethods
  BY DEF HistoryInv, HistoryTypes, HitsVisited
<1>2. /\ n \in Nat /\ n <= Len(R) /\ DOMAIN R = 1 .. Len(R) /\ Len(R) \in Nat
      /\ \A k \in 1 .. n : R[k].records = ShiftedRecords(S[k].records)
      /\ \A k \in 1 .. Len(R) : k > n => R[k].records = <<>>
  BY ReportsSent
<1>3. DOMAIN S = 1 .. n /\ \A k \in 1 .. n : S[k] \in Held
  BY <1>1
<1>4. Len(collectedMethods) \in Nat /\ DOMAIN collectedMethods = 1 .. Len(collectedMethods)
  BY <1>1
<1>5. ASSUME NEW i \in visitedMethods
      PROVE  i - 1 \in SameInfo(M, m) <=> i \in IdsOf(m)
  <2>1. i \in 1 .. Len(collectedMethods) /\ i \in Int /\ collectedMethods[i] \in Methods
    BY <1>1, <1>4
  <2>2. i - 1 \in DOMAIN M /\ (i - 1) + 1 = i
    BY <2>1 DEF VisitedInfos
  <2>3. M[i - 1] = InfoOf[collectedMethods[i]]
    BY <2>2 DEF VisitedInfos
  <2>4. i - 1 \in SameInfo(M, m) <=> /\ InfoOf[collectedMethods[i]].token = InfoOf[m].token
                                    /\ InfoOf[collectedMethods[i]].module = InfoOf[m].module
    BY <2>2, <2>3 DEF SameInfo
  <2>5. i \in IdsOf(m) <=> collectedMethods[i] = m
    BY <1>4, <2>1 DEF IdsOf
  <2>6. QED
    BY <2>1, <2>4, <2>5, ServiceAssumption
<1>6. ASSUME NEW k \in 1 .. n
      PROVE  /\ DOMAIN R[k].records = DOMAIN S[k].records
             /\ \A i \in DOMAIN S[k].records :
                  /\ R[k].records[i].method \in SameInfo(M, m)
                       <=> S[k].records[i].method \in IdsOf(m)
                  /\ R[k].records[i].offset = S[k].records[i].offset
  <2> DEFINE rs == S[k].records
  <2>1. R[k].records = ShiftedRecords(rs) /\ \A i \in DOMAIN rs : rs[i].method \in visitedMethods
    BY <1>1, <1>2, <1>3
  <2>2. rs \in Seq([method : Nat \ {0}, offset : Nat])
    BY <1>3 DEF Held
  <2> HIDE DEF rs
  <2>3. /\ DOMAIN ShiftedRecords(rs) = DOMAIN rs
        /\ \A i \in DOMAIN rs : /\ ShiftedRecords(rs)[i].method = rs[i].method - 1
                                /\ ShiftedRecords(rs)[i].offset = rs[i].offset
    BY <2>2, ShiftedIs
  <2>4. \A i \in DOMAIN rs : /\ R[k].records[i].method \in SameInfo(M, m)
                                  <=> rs[i].method \in IdsOf(m)
                             /\ R[k].records[i].offset = rs[i].offset
    BY <1>5, <2>1, <2>3
  <2>5. QED
    BY <2>1, <2>3, <2>4 DEF rs
<1> HIDE DEF S, n
<1>7. ASSUME NEW o \in Covering(R, SameInfo(M, m))
      PROVE  o \in Covering(S, IdsOf(m))
  <2>1. PICK k \in DOMAIN R : \E i \in DOMAIN R[k].records :
               R[k].records[i].method \in SameInfo(M, m) /\ R[k].records[i].offset = o
    BY <1>7 DEF Covering
  <2>2. DOMAIN <<>> = {}
    OBVIOUS
  <2>3. k \in 1 .. n
    BY <1>2, <2>1, <2>2
  <2>4. /\ o \in Nat /\ k \in DOMAIN S
        /\ \E i \in DOMAIN S[k].records :
             S[k].records[i].method \in IdsOf(m) /\ S[k].records[i].offset = o
    BY <1>3, <1>6, <1>7, <2>1, <2>3 DEF Covering
  <2>5. QED
    BY <2>4 DEF Covering
<1>8. ASSUME NEW o \in Covering(S, IdsOf(m))
      PROVE  o \in Covering(R, SameInfo(M, m))
  <2>1. PICK k \in DOMAIN S : \E i \in DOMAIN S[k].records :
               S[k].records[i].method \in IdsOf(m) /\ S[k].records[i].offset = o
    BY <1>8 DEF Covering
  <2>2. k \in 1 .. n /\ k \in DOMAIN R /\ o \in Nat
    BY <1>2, <1>3, <1>8 DEF Covering
  <2>3. \E i \in DOMAIN R[k].records :
          R[k].records[i].method \in SameInfo(M, m) /\ R[k].records[i].offset = o
    BY <1>6, <2>1, <2>2
  <2>4. QED
    BY <2>2, <2>3 DEF Covering
<1>9. QED
  BY <1>7, <1>8 DEF S


(* The only request asks for its history. *)
LEMMA AskAlone ==
  ASSUME ServiceInv, HistoryInv, AloneInv, ~overlapped, NEW t \in Tasks, GetRawHistory(t)
  PROVE  AloneInv'
<1> DEFINE M == VisitedInfos
           R == CellsOf(serializedCoverage \o EmptyReports)
           b == BatchMethod(t)
           C == Covering(serializedCoverage, IdsOf(b))
<1>1. /\ pc[t] = "resolve" /\ pc' = [pc EXCEPT ![t] = "start"]
      /\ sent' = [sent EXCEPT ![t] = [methods |-> M, reports |-> R]]
      /\ serializedCoverage' = <<>>
      /\ UNCHANGED <<batch, testVars, compiled, probed, disturbed>>
  BY DEF GetRawHistory, HistoryCleared, Goto, codeVars
<1>2. Alone(t) /\ Placed(t) /\ disturbed = {} /\ pc \in [Tasks -> Places] /\ DOMAIN sent = Tasks
  BY Domains DEF AloneInv, HistoryInv, HistoryTypes
<1>3. b \in Methods
  BY <1>1, <1>2, BatchMethodIs DEF Placed, ServiceInv, Served
<1>4. Covering(R, SameInfo(M, b)) = C
  BY <1>3, SentCovers
<1>5. Owned(t, Collected(t)) /\ Balanced(t)
  BY <1>1, <1>2 DEF Alone, Unasked, Testing
<1>6. C \subseteq Collected(t) /\ (t \notin skewed => Collected(t) \subseteq C)
  <2>1. ASSUME t \notin skewed
        PROVE  Collected(t) = C
    <3>1. stack[t] = <<>>
      BY <1>1, <1>2 DEF Placed
    <3>2. balance[t] = None
      BY <1>5, <2>1, <3>1, CountsNone DEF Balanced
    <3>3. history[t].records = <<>>
      BY <1>2, <3>2 DEF Placed, NoHistory
    <3>4. QED
      BY <3>3, NothingCovered DEF Collected
  <2>2. C \subseteq Collected(t)
    BY DEF Collected
  <2>3. QED
    BY <2>1, <2>2
<1> HIDE DEF M, R, C
<1>7. Owned(t, C)
  BY <1>5, <1>6 DEF Owned
<1>8. /\ pc'[t] = "start" /\ sent'[t].methods = M /\ sent'[t].reports = R
      /\ executed' = executed /\ skewed' = skewed /\ BatchMethod(t)' = b
  BY <1>1, <1>2 DEF testVars, callVars, BatchMethod
<1>9. Owned(t, Covering(sent[t].reports, SameInfo(sent[t].methods, BatchMethod(t))))'
  <2>1. Covering(sent'[t].reports, SameInfo(sent'[t].methods, BatchMethod(t)')) = C
    BY <1>4, <1>8
  <2>2. QED
    BY <1>1, <1>7, <1>8, <2>1 DEF Owned
<1>10. Alone(t)'
  BY <1>1, <1>8, <1>9 DEF Alone, LookingUp, Testing, InHand, Comparing, Decoding
<1>11. /\ batch' = batch
       /\ \A u \in Tasks \ {t} : Left(u) /\ (u \in skewed' <=> u \in skewed)
  BY OthersLeft DEF Execute
<1>12. NewProbes /\ disturbed' = {}
  BY <1>1, <1>2 DEF NewProbes
<1>13. QED
  BY <1>1, <1>8, <1>10, <1>11, <1>12, OneAlone

(* The only request reads what it was sent: nobody disturbs it. *)
LEMMA ReadsAlone ==
  ASSUME ServiceInv, HistoryInv, AloneInv, ~overlapped, NEW t \in Tasks,
         StartNewDeserialization(t) \/ Reads(t) \/ DisturbedReads(t)
  PROVE  AloneInv'
<1>1. Alone(t) /\ disturbed = {} /\ pc \in [Tasks -> Places]
  BY Domains DEF AloneInv
<1>2. /\ pc[t] \in Decoding /\ pc'[t] \in Decoding
      /\ UNCHANGED <<batch, testVars, profilerVars, sent>>
  BY <1>1 DEF StartNewDeserialization, Reads, ReadCount, ReadMethod, ReadReport,
     DisturbedReads, Using, Goto, Decoding
<1>3. disturbed' = {}
  <2>1. CASE StartNewDeserialization(t)
    <3>1. ASSUME NEW u \in Tasks, Using(u)
          PROVE  FALSE
      <4>1. t \in Serving /\ u \in Serving
        BY <1>2, <3>1 DEF Using, Serving, Decoding
      <4>2. u = t
        BY <4>1 DEF AloneInv
      <4>3. QED
        BY <2>1, <3>1, <4>2 DEF Using, StartNewDeserialization
    <3>2. {u \in Tasks : Using(u)} = {}
      BY <3>1
    <3>3. QED
      BY <1>1, <2>1, <3>2 DEF StartNewDeserialization
  <2>2. CASE Reads(t) \/ DisturbedReads(t)
    BY <1>1, <2>2 DEF Reads, DisturbedReads
  <2>3. QED
    BY <2>1, <2>2
<1>4. /\ sent' = sent /\ executed' = executed /\ skewed' = skewed
      /\ serializedCoverage' = serializedCoverage
      /\ compiled' = compiled /\ probed' = probed /\ batch' = batch
  BY <1>2 DEF testVars, callVars, profilerVars, codeVars, reportVars
<1>5. Owned(t, Covering(sent[t].reports, SameInfo(sent[t].methods, BatchMethod(t))))'
  BY <1>1, <1>2, <1>4 DEF Alone, Owned, BatchMethod
<1>6. Alone(t)'
  BY <1>1, <1>2, <1>4, <1>5 DEF Alone, LookingUp, Testing, InHand, Comparing, Decoding
<1>7. /\ pc'[t] # "idle"
      /\ \A u \in Tasks \ {t} : Left(u) /\ (u \in skewed' <=> u \in skewed)
  BY OthersLeft DEF Execute
<1>8. NewProbes
  BY <1>4 DEF NewProbes
<1>9. QED
  BY <1>2, <1>3, <1>4, <1>6, <1>7, <1>8, OneAlone DEF Decoding

(* What the only request has read is what it was sent. *)
LEMMA RecordsAre ==
  ASSUME HistoryInv, ReaderInv, AloneInv, ~overlapped, NEW t \in Tasks, Deserialized(t)
  PROVE  /\ Resolvable(t)
         /\ Visited(t) = Covering(sent[t].reports, SameInfo(sent[t].methods, BatchMethod(t)))
<1> DEFINE M == sent[t].methods
           R == sent[t].reports
           Q == reading[t].reports
           m == BatchMethod(t)
<1>1. /\ Told(M, R) /\ reading[t].methods = M /\ Q = Stripped(R, Len(R))
      /\ DOMAIN R = 1 .. Len(R)
  BY ReadAll DEF AloneInv
<1>2. /\ \A k \in DOMAIN R : R[k] \in SentReports
      /\ \A k \in DOMAIN R : \A i \in DOMAIN R[k].records : R[k].records[i].method \in DOMAIN M
  <2>1. R \in Seq(SentReports)
    BY <1>1 DEF Told
  <2>2. QED
    BY <1>1, <2>1 DEF Told
<1> HIDE DEF M, R, m
<1>3. DOMAIN Q = DOMAIN R /\ \A k \in DOMAIN R : Q[k].records = R[k].records
  <2>1. Q = [k \in DOMAIN R |-> ReportOf(R[k])]
    BY <1>1 DEF Stripped
  <2> HIDE DEF Q
  <2>2. QED
    BY <2>1 DEF ReportOf
<1>4. \A k \in DOMAIN R : \A i \in DOMAIN R[k].records : R[k].records[i].offset \in Nat
  <2>1. ASSUME NEW k \in DOMAIN R, NEW i \in DOMAIN R[k].records
        PROVE  R[k].records[i].offset \in Nat
    <3>1. R[k].records \in Seq(Hits)
      BY <1>2 DEF SentReports
    <3>2. R[k].records[i] \in Hits
      BY <2>1, <3>1
    <3>3. QED
      BY <3>2 DEF Hits
  <2>2. QED
    BY <2>1
<1> HIDE DEF Q
<1>5. ASSUME NEW x \in Records(t)
      PROVE  \E k \in DOMAIN R : \E i \in DOMAIN R[k].records : x = R[k].records[i]
  <2>1. PICK k \in DOMAIN Q : x \in {Q[k].records[i] : i \in DOMAIN Q[k].records}
    BY <1>5 DEF Records, Reader, Q
  <2>2. PICK i \in DOMAIN Q[k].records : x = Q[k].records[i]
    BY <2>1
  <2>3. k \in DOMAIN R /\ Q[k].records = R[k].records
    BY <1>3
  <2>4. QED
    BY <2>2, <2>3
<1>6. ASSUME NEW k \in DOMAIN R, NEW i \in DOMAIN R[k].records
      PROVE  R[k].records[i] \in Records(t)
  <2>1. k \in DOMAIN Q /\ i \in DOMAIN Q[k].records /\ Q[k].records[i] = R[k].records[i]
    BY <1>3
  <2>2. QED
    BY <2>1 DEF Records, Reader, Q
<1>7. Resolvable(t)
  <2>1. \A x \in Records(t) : x.method \in DOMAIN M
    BY <1>2, <1>5
  <2>2. QED
    BY <1>1, <2>1 DEF Resolvable, Reader
<1>8. \A x : x \in Visited(t) <=>
               \E r \in Records(t) : /\ r.offset = x
                                     /\ M[r.method].token = InfoOf[m].token
                                     /\ M[r.method].module = InfoOf[m].module
  BY <1>1 DEF Visited, Reader, m
<1>9. ASSUME NEW x \in Visited(t)
      PROVE  x \in Covering(R, SameInfo(M, m))
  <2>1. PICK r \in Records(t) : /\ r.offset = x
                                /\ M[r.method].token = InfoOf[m].token
                                /\ M[r.method].module = InfoOf[m].module
    BY <1>8
  <2>2. PICK k \in DOMAIN R : \E i \in DOMAIN R[k].records : r = R[k].records[i]
    BY <1>5
  <2>3. PICK i \in DOMAIN R[k].records : r = R[k].records[i]
    BY <2>2
  <2>4. r.method \in DOMAIN M /\ r.offset \in Nat
    BY <1>2, <1>4, <2>3
  <2>5. r.method \in SameInfo(M, m)
    BY <2>1, <2>4 DEF SameInfo
  <2>6. QED
    BY <2>1, <2>3, <2>4, <2>5 DEF Covering
<1>10. ASSUME NEW x \in Covering(R, SameInfo(M, m))
       PROVE  x \in Visited(t)
  <2>1. PICK k \in DOMAIN R : \E i \in DOMAIN R[k].records :
               R[k].records[i].method \in SameInfo(M, m) /\ R[k].records[i].offset = x
    BY <1>10 DEF Covering
  <2>2. PICK i \in DOMAIN R[k].records :
               R[k].records[i].method \in SameInfo(M, m) /\ R[k].records[i].offset = x
    BY <2>1
  <2>3. R[k].records[i] \in Records(t)
    BY <1>6
  <2>4. /\ M[R[k].records[i].method].token = InfoOf[m].token
        /\ M[R[k].records[i].method].module = InfoOf[m].module
    BY <2>2 DEF SameInfo
  <2>5. QED
    BY <1>8, <2>2, <2>3, <2>4
<1>11. Visited(t) = Covering(R, SameInfo(M, m))
  BY <1>9, <1>10
<1>12. QED
  BY <1>7, <1>11 DEF M, R, m

LEMMA AnswerAlone ==
  ASSUME ServiceInv, HistoryInv, ReaderInv, AloneInv, ~overlapped, NEW t \in Tasks,
         ComputeCoverage(t)
  PROVE  AloneInv'
<1>1. Deserialized(t) /\ \E v : /\ Answer(t, v) /\ v.kind # "error" /\ v.coverage = Visited(t)
  <2>1. /\ Deserialized(t)
        /\ \/ Answer(t, [kind |-> "success", coverage |-> Visited(t)])
           \/ Answer(t, FailResult(t))
    BY DEF ComputeCoverage
  <2>2. /\ FailResult(t).kind # "error" /\ FailResult(t).coverage = Visited(t)
        /\ [kind |-> "success", coverage |-> Visited(t)].kind # "error"
        /\ [kind |-> "success", coverage |-> Visited(t)].coverage = Visited(t)
    BY DEF FailResult
  <2>3. QED
    BY <2>1, <2>2
<1>2. UNCHANGED <<batch, testVars, profilerVars, readerVars>> /\ pc[t] = "reports"
  BY DEF ComputeCoverage, Deserialized
<1>3. Alone(t) /\ disturbed = {}
  BY DEF AloneInv
<1>4. serializedCoverage = <<>> /\ Owned(t, Visited(t))
  BY <1>1, <1>2, <1>3, RecordsAre DEF Alone, Decoding
<1>5. /\ pc'[t] = "done" /\ result'[t].kind # "error" /\ result'[t].coverage = Visited(t)
  BY <1>1, Domains DEF Answer, Goto
<1>6. /\ executed' = executed /\ skewed' = skewed /\ serializedCoverage' = serializedCoverage
      /\ compiled' = compiled /\ probed' = probed /\ batch' = batch /\ disturbed' = disturbed
  BY <1>2 DEF testVars, callVars, profilerVars, codeVars, reportVars, readerVars
<1>7. Owned(t, result[t].coverage)'
  BY <1>4, <1>5, <1>6 DEF Owned, BatchMethod
<1>8. Alone(t)'
  BY <1>5, <1>7 DEF Alone, LookingUp, Testing, InHand, Comparing, Decoding
<1>9. \A u \in Tasks \ {t} : Left(u) /\ (u \in skewed' <=> u \in skewed)
  BY OthersLeft DEF Execute
<1>10. NewProbes
  BY <1>6 DEF NewProbes
<1>11. QED
  BY <1>2, <1>3, <1>4, <1>5, <1>6, <1>8, <1>9, <1>10, OneAlone

(* Nothing is amiss in what a request reads that nobody disturbs. *)
LEMMA NothingFails ==
  ASSUME HistoryInv, ReaderInv, NEW t \in Tasks, t \notin disturbed
  PROVE  ~DeserializationFails(t)
<1>1. SUFFICES ASSUME DeserializationFails(t)
               PROVE  FALSE
  OBVIOUS
<1> DEFINE M == sent[t].methods
           R == sent[t].reports
           r == reading[t]
           ids == Ascending(DOMAIN M)
           n == Len(ids)
           k == n - r.left + 1
           j == Len(R) - r.left + 1
<1>2. /\ pc[t] \in {"methodCount", "methods", "reports"}
      /\ \/ /\ pc[t] \in {"methodCount", "methods"} /\ r.left = 0
            /\ ~ReadInt(data, dataOffset).ok
         \/ /\ pc[t] = "methods" /\ r.left > 0
            /\ ReadMethodEntry(data, dataOffset).ok =>
                 ReadMethodEntry(data, dataOffset).id \in DOMAIN r.methods
         \/ /\ pc[t] = "reports" /\ r.left > 0
            /\ ~ReadReportEntry(data, dataOffset).ok
  BY <1>1 DEF DeserializationFails, Reader
<1>3. /\ Told(M, R) /\ data \in Seq(Written) /\ r.left \in Nat
      /\ \E mo, ro : /\ Layout(data, M, R, mo, ro)
                     /\ ReadSoFar(pc[t], M, R, dataOffset, r, mo, ro)
  BY <1>2, ReaderIs DEF Using, Reader
<1>4. PICK mo, ro : /\ Layout(data, M, R, mo, ro)
                    /\ ReadSoFar(pc[t], M, R, dataOffset, r, mo, ro)
  BY <1>3
<1> HIDE DEF M, R, r
<1>5. /\ pc[t] = "methodCount" => ReadInt(data, dataOffset) = IntRead(n, mo[0])
      /\ pc[t] = "methods" /\ r.left = 0 => ReadInt(data, dataOffset) = IntRead(Len(R), ro[0])
      /\ pc[t] = "methods" /\ r.left > 0 =>
           /\ ids[k] \notin DOMAIN r.methods
           /\ ReadMethodEntry(data, dataOffset) = MethodRead(ids[k], M[ids[k]], mo[k])
      /\ pc[t] = "reports" /\ r.left > 0 =>
           ReadReportEntry(data, dataOffset) = ReportRead(R[j], ro[j])
  BY <1>3, <1>4, ReadHere
<1> HIDE DEF ids, n, k, j
<1>6. CASE pc[t] = "methodCount"
  BY <1>2, <1>5, <1>6 DEF IntRead
<1>7. CASE pc[t] = "methods" /\ r.left = 0
  BY <1>2, <1>5, <1>7 DEF IntRead
<1>8. CASE pc[t] = "methods" /\ r.left > 0
  BY <1>2, <1>5, <1>8 DEF MethodRead
<1>9. CASE pc[t] = "reports" /\ r.left > 0
  BY <1>2, <1>5, <1>9 DEF ReportRead
<1>10. QED
  BY <1>2, <1>6, <1>7, <1>8, <1>9

(* Every error of the only request has a reason of its own. *)
LEMMA ErrorsAlone ==
  ASSUME ServiceInv, HistoryInv, ReaderInv, AloneInv, ~overlapped, NEW t \in Tasks,
         \/ LookupThrows(t) \/ NothingToAsk(t) \/ DeserializationFails(t) \/ CoverageThrows(t)
  PROVE  AloneInv'
<1>1. Alone(t) /\ Placed(t) /\ disturbed = {} /\ local[t] \in Locals
  BY Domains DEF AloneInv, HistoryInv
<1>2. /\ Answer(t, [kind |-> "error"])
      /\ UNCHANGED <<batch, testVars, profilerVars, readerVars>>
  BY DEF LookupThrows, NothingToAsk, DeserializationFails, CoverageThrows, Throw
<1>3. /\ pc'[t] = "done" /\ result'[t] = [kind |-> "error"] /\ local' = local /\ batch' = batch
      /\ serializedCoverage' = serializedCoverage /\ compiled' = compiled /\ probed' = probed
      /\ disturbed' = disturbed
  BY <1>2, Domains DEF Answer, Goto, testVars, callVars, profilerVars, codeVars, reportVars,
     readerVars
<1>4. pc[t] \notin {"idle", "done"} /\ serializedCoverage = <<>> /\ Reason(t)
  <2>1. CASE LookupThrows(t)
    <3>1. pc[t] \in LookingUp /\ Reason(t)
      BY <1>1, <2>1 DEF LookupThrows, LookingUp, Alone, Reason
    <3>2. ~local[t].entryMainWasSet
      BY <1>1, <3>1 DEF Placed, NewLocals
    <3>3. QED
      BY <1>1, <3>1, <3>2 DEF Alone, Unasked, LookingUp
  <2>2. CASE NothingToAsk(t)
    <3>1. pc[t] = "resolve" /\ local[t].test > Len(batch[t]) /\ ~local[t].entryMainWasSet
      BY <2>2 DEF NothingToAsk, Tests
    <3>2. /\ serializedCoverage = <<>>
          /\ \A i \in 1 .. local[t].test - 1 : Fails(Tests(t)[i])
      BY <1>1, <3>1 DEF Alone, Unasked, Testing
    <3>3. /\ Len(batch[t]) \in Nat /\ DOMAIN batch[t] = 1 .. Len(batch[t])
          /\ local[t].test \in Nat
      <4>1. batch \in Batches /\ batch[t] # None /\ local[t].test \in Nat
        BY <1>1, <3>1 DEF ServiceInv, ServiceTypes, Served, Locals
      <4>2. \E T : batch[t] \in Seq(T)
        BY <4>1, ServiceAssumption
      <4>3. QED
        BY <4>1, <4>2
    <3>4. \A i \in DOMAIN Tests(t) : Fails(Tests(t)[i])
      BY <3>1, <3>2, <3>3 DEF Tests
    <3>5. QED
      BY <3>1, <3>2, <3>4 DEF Reason
  <2>3. CASE DeserializationFails(t)
    BY <1>1, <2>3, NothingFails
  <2>4. CASE CoverageThrows(t)
    <3>1. /\ Deserialized(t)
          /\ ~Resolvable(t) \/ (local[t].failed = 0 /\ ExpectedCoverage[BatchMethod(t)] = None)
      BY <2>4 DEF CoverageThrows
    <3>2. Resolvable(t)
      BY <3>1, RecordsAre
    <3>3. QED
      BY <1>1, <3>1, <3>2 DEF Deserialized, Alone, Decoding, Reason
  <2>5. QED
    BY <2>1, <2>2, <2>3, <2>4
<1>5. Reason(t)'
  BY <1>3, <1>4 DEF Reason, Tests, BatchMethod
<1>6. Alone(t)'
  BY <1>3, <1>5 DEF Alone, LookingUp, Testing, InHand, Comparing, Decoding
<1>7. \A u \in Tasks \ {t} : Left(u) /\ (u \in skewed' <=> u \in skewed)
  BY OthersLeft DEF Execute
<1>8. NewProbes
  BY <1>3 DEF NewProbes
<1>9. QED
  BY <1>1, <1>3, <1>4, <1>6, <1>7, <1>8, OneAlone

LEMMA AloneStep == ServiceInv /\ HistoryInv /\ ReaderInv /\ AloneInv /\ [Next]_vars => AloneInv'
<1>1. ASSUME ServiceInv, HistoryInv, ReaderInv, AloneInv, NEW t \in Tasks,
             Receive(t) \/ Execute(t)
      PROVE  AloneInv'
  <2> USE <1>1
  <2>1. CASE Receive(t)
    BY <2>1, ReceiveAlone
  <2>2. CASE ~Receive(t) /\ overlapped
    <3>1. overlapped'
      BY <2>2, OthersLeft
    <3>2. QED
      BY <3>1 DEF AloneInv
  <2>3. CASE Execute(t) /\ ~overlapped
    <3> USE <2>3
    <3>1. CASE \/ ResolveType(t) \/ AddTypes(t) \/ GetMethod(t) \/ AddMethod(t)
               \/ BuildGraph(t) \/ AddTestTypes(t)
      BY <3>1, LookupAlone
    <3>2. CASE \/ LookupThrows(t) \/ NothingToAsk(t) \/ DeserializationFails(t)
               \/ CoverageThrows(t)
      BY <3>2, ErrorsAlone
    <3>3. CASE TestStep(t)
      BY <3>3, TestAlone
    <3>4. CASE Enter(t)
      BY <3>4, EnterAlone
    <3>5. CASE Block(t)
      BY <3>5, BlockAlone
    <3>6. CASE Leave(t) \/ Unwind(t)
      BY <3>6, LeaveAlone
    <3>7. CASE GetRawHistory(t)
      BY <3>7, AskAlone
    <3>8. CASE StartNewDeserialization(t) \/ Reads(t) \/ DisturbedReads(t)
      BY <3>8, ReadsAlone
    <3>9. CASE ComputeCoverage(t)
      BY <3>9, AnswerAlone
    <3>10. QED
      BY <3>1, <3>2, <3>3, <3>4, <3>5, <3>6, <3>7, <3>8, <3>9 DEF Execute, TestStep
  <2>4. QED
    BY <2>1, <2>2, <2>3
<1>2. ASSUME AloneInv, UNCHANGED vars
      PROVE  AloneInv'
  <2>1. /\ UNCHANGED <<batch, pc, local, executed, stack, skewed, result, typesCache, methods>>
        /\ UNCHANGED <<compiled, probed, collectedMethods, serializedCoverage, balance, history>>
        /\ UNCHANGED <<sent, disturbed, overlapped>>
    BY <1>2 DEF vars, testVars, callVars, sharedVars, profilerVars, codeVars, reportVars,
       readerVars
  <2>2. ASSUME NEW t \in Tasks, Alone(t)
        PROVE  Alone(t)'
    <3>1. /\ BatchMethod(t)' = BatchMethod(t) /\ Tests(t)' = Tests(t)
          /\ Collected(t)' = Collected(t) /\ (Balanced(t) => Balanced(t)')
      BY <2>1 DEF BatchMethod, Tests, Collected, IdsOf, Balanced
    <3>2. /\ Unasked(t) => Unasked(t)'
          /\ Reason(t) => Reason(t)'
          /\ Owned(t, result[t].coverage) => Owned(t, result[t].coverage)'
          /\ Owned(t, Covering(sent[t].reports, SameInfo(sent[t].methods, BatchMethod(t)))) =>
               Owned(t, Covering(sent[t].reports, SameInfo(sent[t].methods, BatchMethod(t))))'
      BY <2>1, <3>1 DEF Unasked, Reason, Owned
    <3>3. QED
      BY <2>1, <2>2, <3>1, <3>2 DEF Alone
  <2>3. Serving' = Serving
    BY <2>1 DEF Serving
  <2>4. QED
    BY <1>2, <2>1, <2>2, <2>3 DEF AloneInv
<1>3. QED
  BY <1>1, <1>2 DEF Next, AllServed

LEMMA ServiceInvariant == Spec => [](ServiceInv /\ HistoryInv /\ ReaderInv /\ AloneInv)
<1>1. Init => AloneInv
  BY AloneInitial
<1>2. ServiceInv /\ HistoryInv /\ ReaderInv /\ AloneInv /\ [Next]_vars => AloneInv'
  BY AloneStep
<1>3. QED
  BY <1>1, <1>2, ReaderInvariant, PTL DEF Spec

(* Requests served one after the other: the coverage one is answered with  *)
(* is of blocks its own calls of the batch's method executed.  Nothing is  *)
(* left over from the requests before it, records of other methods are     *)
(* told apart, and no block is lost in the profiler or on the way, unless  *)
(* the method was compiled before it was first named as the entry method,  *)
(* or an exception left a frame of another entry method than the one       *)
(* compiled last.  For any nesting of calls and any number of requests.    *)
THEOREM CoverageIsOwnCorrect == Spec => []CoverageIsOwn
<1>1. HistoryInv /\ AloneInv => CoverageIsOwn
  <2>1. SUFFICES ASSUME HistoryInv, AloneInv, NEW t \in Tasks, result[t] # None, ~overlapped,
                        result[t].kind # "error"
                 PROVE  /\ result[t].coverage \subseteq executed[t]
                        /\ BatchMethod(t) \in probed /\ t \notin skewed =>
                             result[t].coverage = executed[t]
    BY DEF CoverageIsOwn
  <2>2. pc[t] = "done" /\ Alone(t)
    BY <2>1 DEF HistoryInv, Placed, AloneInv
  <2>3. Owned(t, result[t].coverage)
    BY <2>1, <2>2 DEF Alone
  <2>4. QED
    BY <2>3 DEF Owned
<1>2. QED
  BY <1>1, ServiceInvariant, PTL

(* Such a request gets an error only for a reason of its own: it has no    *)
(* test, its method is not found or has no graph, none of its tests can be *)
(* resolved, or all were reproduced and the method has no attribute to     *)
(* compare with.  The caches, the bytes and the ids in the records never   *)
(* are the reason.                                                         *)
THEOREM ErrorsAreOwnCorrect == Spec => []ErrorsAreOwn
<1>1. HistoryInv /\ AloneInv => ErrorsAreOwn
  <2>1. SUFFICES ASSUME HistoryInv, AloneInv, NEW t \in Tasks, result[t] # None, ~overlapped,
                        result[t].kind = "error"
                 PROVE  Reason(t)
    BY DEF ErrorsAreOwn, Reason
  <2>2. pc[t] = "done" /\ Alone(t)
    BY <2>1 DEF HistoryInv, Placed, AloneInv
  <2>3. QED
    BY <2>1, <2>2 DEF Alone
<1>2. QED
  BY <1>1, ServiceInvariant, PTL

=============================================================================
