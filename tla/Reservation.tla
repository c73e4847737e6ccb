---------------------------- MODULE Reservation ----------------------------
(***************************************************************************)
(* What the booking service promises about a turf slot, without any of     *)
(* the machinery: a slot is free, is being held by one checkout that has   *)
(* not paid yet, or is sold to one booking.  A hold ends by a sale or by   *)
(* a release (the payment failed, or the hold time ran out); a sale is     *)
(* final.  Checkout is shown to implement this module.                     *)
(***************************************************************************)
CONSTANTS Slots, Bookings

VARIABLES
  holders,   \* holders[s]: the checkouts holding slot s
  buyers     \* buyers[s]: the bookings slot s is sold to

vars == <<holders, buyers>>

Init ==
  /\ holders = [s \in Slots |-> {}]
  /\ buyers  = [s \in Slots |-> {}]

\* A checkout takes a slot nobody holds and nobody has bought.
Hold(s, b) ==
  /\ holders[s] = {} /\ buyers[s] = {}
  /\ holders' = [holders EXCEPT ![s] = {b}]
  /\ UNCHANGED buyers

\* Only the checkout that holds a slot can buy it.
Sell(s, b) ==
  /\ holders[s] = {b} /\ buyers[s] = {}
  /\ holders' = [holders EXCEPT ![s] = {}]
  /\ buyers'  = [buyers EXCEPT ![s] = {b}]

\* Holds end without a sale: one failed payment, or every hold whose time
\* ran out at once.
Release(S) ==
  /\ holders' = [s \in Slots |-> IF s \in S THEN {} ELSE holders[s]]
  /\ UNCHANGED buyers

Next ==
  \/ \E s \in Slots, b \in Bookings : Hold(s, b) \/ Sell(s, b)
  \/ \E S \in SUBSET Slots : Release(S)

Spec == Init /\ [][Next]_vars
=============================================================================
