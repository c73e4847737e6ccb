--------------------------- MODULE MCAdminScreen ---------------------------
(* Instances of AdminScreen for TLC. *)
EXTENDS AdminScreen, TLC

CONSTANTS s1, s2, d1, d2

TwoDateOf == s1 :> d1 @@ s2 :> d2
=============================================================================
