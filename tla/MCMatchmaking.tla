--------------------------- MODULE MCMatchmaking ---------------------------
(* Instances of Matchmaking for TLC. *)
EXTENDS MatchmakingInv
=============================================================================
