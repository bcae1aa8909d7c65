----------------------------- MODULE MCCeremonyPage -----------------------------
(* Small instances of CeremonyPage: all three pages and every answer of        *)
(* isConditionalMediationAvailable, with a few ceremonies each.                *)
EXTENDS CeremonyPage
=============================================================================
