-------------------------- MODULE MCCoverageReports --------------------------
(* Instances of CoverageReports for TLC: threads are interchangeable.      *)
EXTENDS CoverageReports, TLC

Symmetry == Permutations(Threads)
==============================================================================
