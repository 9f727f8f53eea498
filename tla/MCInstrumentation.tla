------------------------- MODULE MCInstrumentation -------------------------
(* Instances of Instrumentation for TLC: the mains mA and mB are in two    *)
(* modules and have one token, mA has two instantiations; the helper h2    *)
(* has the token of the mains.  With TokenOfB = T2 and the helper h1, two  *)
(* halves of two mains' names make the name of a helper.                   *)
EXTENDS Instrumentation

CONSTANTS M1, M2, M3, T1, T2, fA, fA2, fB, h1, h2,
  TokenOfB         (* T1; with T2 a helper has mA's module and mB's token   *)

mA == [module |-> M1, token |-> T1]
mB == [module |-> M2, token |-> TokenOfB]

MCMains == {mA, mB}

MCMethodOf ==
  [f \in Functions |->
     CASE f \in {fA, fA2} -> mA
       [] f = fB -> mB
       [] f = h1 -> [module |-> M1, token |-> T2]
       [] f = h2 -> [module |-> M3, token |-> T1]]
=============================================================================
