-------------------------- MODULE MCThreadTracking --------------------------
(* Instances of ThreadTracking for TLC: main is the method mA compiled as  *)
(* fA, h a helper; fA2 another instantiation of mA, fB a second method.    *)
EXTENDS ThreadTracking

CONSTANTS fA, fA2, fB, h, mA, mB, mH

MCMethodOf == [f \in Functions |-> CASE f = h -> mH [] f = fB -> mB [] OTHER -> mA]
=============================================================================
