--------------------------- MODULE MCHoldRelease ---------------------------
(* Instances of HoldRelease for TLC. *)
EXTENDS HoldRelease
=============================================================================
