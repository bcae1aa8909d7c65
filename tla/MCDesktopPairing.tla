--------------------------- MODULE MCDesktopPairing ---------------------------
(* A small instance of DesktopPairing: liveness is checked, so there is no      *)
(* symmetry.                                                                    *)
EXTENDS DesktopPairing, TLC
=============================================================================
