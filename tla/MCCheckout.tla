---------------------------- MODULE MCCheckout ----------------------------
(* Instances of Checkout for TLC. *)
EXTENDS CheckoutInv, TLC

\* Bookings, goroutines and friends are interchangeable.
Symm == Permutations(Bookings) \cup Permutations(Workers)
=============================================================================
