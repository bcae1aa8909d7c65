-------------------------------- MODULE MCSignup --------------------------------
(* Small instances of Signup: two spellings of one name, so that two accounts  *)
(* exist only when two sign-ups race.                                          *)
EXTENDS Signup, TLC

CONSTANTS n1, n2

MCNames == {n1, n2}
MCFold == [n \in MCNames |-> "nok"]
=============================================================================
