-------------------------- MODULE MCSplitCheckout --------------------------
(* Instances of SplitCheckout for TLC. *)
EXTENDS SplitCheckout, TLC

\* Bookings, goroutines and friends are interchangeable.
SplitSymm == Permutations(Bookings) \cup Permutations(Workers)
               \cup Permutations(Friends)
=============================================================================
