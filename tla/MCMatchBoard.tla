--------------------------- MODULE MCMatchBoard ---------------------------
(* Instances of MatchBoard for TLC. *)
EXTENDS MatchBoard, TLC

BoardSymm == Permutations(Calls)
=============================================================================
