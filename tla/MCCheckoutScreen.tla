-------------------------- MODULE MCCheckoutScreen --------------------------
(* Instances of CheckoutScreen for TLC. *)
EXTENDS CheckoutScreen, TLC

\* Goroutines and the bookings of the others are interchangeable.
ScreenSymm == Permutations(Workers) \cup Permutations(Bookings \ Mine)
=============================================================================
