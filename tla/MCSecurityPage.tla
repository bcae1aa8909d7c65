----------------------------- MODULE MCSecurityPage -----------------------------
(* A small instance of SecurityPage: passkeys enough for one to come before     *)
(* another, actions enough for one to begin while an answer is on its way.      *)
EXTENDS SecurityPage
=============================================================================
