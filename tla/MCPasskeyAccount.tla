-------------------------- MODULE MCPasskeyAccount --------------------------
(* Small instances of PasskeyAccount: liveness is checked, so there is no      *)
(* symmetry.                                                                   *)
EXTENDS PasskeyAccount, TLC
=============================================================================
