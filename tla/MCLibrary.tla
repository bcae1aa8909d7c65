------------------------------ MODULE MCLibrary ------------------------------
(* A small instance of Library: two requests at a time and a third upload after *)
(* two that raced, on the platform the page uses and on one it does not.        *)
EXTENDS Library, TLC

Symmetry == Permutations(Requests)
=============================================================================
