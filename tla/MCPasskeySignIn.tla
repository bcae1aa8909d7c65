----------------------------- MODULE MCPasskeySignIn -----------------------------
(* A small instance of PasskeySignIn: one account with a passkey, another with  *)
(* none, two requests, and sessions enough for a sweep of more than one chunk.  *)
EXTENDS PasskeySignIn, TLC

CONSTANTS u1, u2, p1

MCOwnerOf == p1 :> u1
Symmetry == Permutations(Requests)
=============================================================================
