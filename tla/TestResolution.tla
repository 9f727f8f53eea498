--------------------------- MODULE TestResolution ---------------------------
(***************************************************************************)
(* TestResolver: from the statements and expressions of a test to objects. *)
(* An address stands for one object of the test: it is created when an     *)
(* expression first mentions it and found in _instances from then on.      *)
(*                                                                         *)
(* A resolver is a record of its _instances, of the heap it creates        *)
(* objects in and of whether it threw an exception.  Combine expressions,  *)
(* which build data from the bytes of other data, are data here.           *)
(***************************************************************************)
EXTENDS ObjectsComparison

CONSTANTS
  Addresses,
  TypeOf, SizeOf,  (* the type and the number of fields at an address       *)
  Unknown          (* an expression that names a type that does not exist   *)

(* Of a test that mentions some addresses.                                 *)
Expressions(mentioned) == Data \cup {Null, Unknown} \cup mentioned

(* The statements SetObjectField and SetArrayIndex.                        *)
Statements(mentioned) ==
  [instance : mentioned \cup {Unknown}, index : Nat \ {0}, value : Expressions(mentioned)]

ASSUME ResolutionAssumption ==
  /\ IsFiniteSet(Objects) /\ Objects = 1 .. Cardinality(Objects)
  /\ Addresses \cap (Data \cup {Null, Unknown}) = {} /\ Unknown \notin Data \cup {Null}
  /\ TypeOf \in [Addresses -> Types] /\ SizeOf \in [Addresses -> Nat]

NoObjects == [o \in Objects |-> [type |-> None, content |-> <<>>]]
NewResolver == [instances |-> <<>>, heap |-> NoObjects, failed |-> FALSE]

Created(r, a) ==
  LET o == Cardinality({p \in Objects : r.heap[p].type # None}) + 1
  IN [r EXCEPT !.instances = [b \in DOMAIN @ \cup {a} |-> IF b = a THEN o ELSE @[b]],
               !.heap[o] = [type |-> TypeOf[a], content |-> [i \in 1 .. SizeOf[a] |-> Null]]]

(* Seeded defect: every mention creates an object.                         *)
ResolveAnew(r, a) == Created(r, a)

ResolveReferenceType(r, a) == IF a \in DOMAIN r.instances THEN r ELSE Created(r, a)

InstantiateExpression(r, e) ==
  CASE r.failed \/ e = Unknown -> [r EXCEPT !.failed = TRUE]
    [] ~r.failed /\ e \in Addresses -> ResolveReferenceType(r, e)
    [] OTHER -> r

(* The value of an expression that was instantiated.                       *)
Denoted(r, e) == IF e \in Addresses THEN r.instances[e] ELSE e

(* The instance, then the value, then the field, which may not exist, as   *)
(* may not an index.                                                       *)
Assign(r, s) ==
  LET ready == InstantiateExpression(InstantiateExpression(r, s.instance), s.value)
  IN IF ready.failed \/ s.index > SizeOf[s.instance]
     THEN [ready EXCEPT !.failed = TRUE]
     ELSE [ready EXCEPT !.heap[ready.instances[s.instance]].content[s.index] =
                          Denoted(ready, s.value)]

Arranged(r, statements) ==
  LET after[n \in 0 .. Len(statements)] ==
        IF n = 0 THEN r ELSE Assign(after[n - 1], statements[n])
  IN after[Len(statements)]

Instantiated(r, expressions) ==
  LET after[n \in 0 .. Len(expressions)] ==
        IF n = 0 THEN r ELSE InstantiateExpression(after[n - 1], expressions[n])
  IN after[Len(expressions)]

Resolve(test) ==
  Instantiated(Arranged(NewResolver, test.arrange), Append(test.args, test.expected))

-----------------------------------------------------------------------------
(* The value the last statement about a field gives it.                    *)
LastValue(r, statements, a, i) ==
  LET about == {k \in DOMAIN statements :
                  statements[k].instance = a /\ statements[k].index = i}
  IN IF about = {} THEN Null
     ELSE Denoted(r, statements[CHOOSE k \in about : \A l \in about : l <= k].value)

(* Different addresses are different objects, an address is one object     *)
(* wherever it is mentioned, and its fields are as the last statements     *)
(* about them say.                                                         *)
IsArrangedAs(r, test) ==
  /\ \A a, b \in DOMAIN r.instances : a # b => r.instances[a] # r.instances[b]
  /\ \A a \in DOMAIN r.instances :
       /\ r.instances[a] \in Objects
       /\ r.heap[r.instances[a]] =
            [type |-> TypeOf[a],
             content |-> [i \in 1 .. SizeOf[a] |-> LastValue(r, test.arrange, a, i)]]
=============================================================================
