---------------------------- MODULE MCTokenWriters ----------------------------
(* Model-checking instance of TokenWriters: requests are interchangeable, and  *)
(* only safety is checked.                                                     *)
EXTENDS TokenWriters, TLC

Symmetry == Permutations(Requests)
=============================================================================
