---------------------------- MODULE SplitCheckout ----------------------------
(***************************************************************************)
(* Sharing the bill.  CreateBooking (module Checkout) writes a split       *)
(* booking with one booking_splits row per invited friend.  Here the host  *)
(* and the friends pay their shares, through either webhook; a friend may  *)
(* decline, the host may cancel, and a cron expires the booking when the   *)
(* bill is not paid within the hold, with refunds for those who have paid. *)
(*                                                                         *)
(* A webhook marks the share it was called for, looks whether all shares   *)
(* are paid now, and either confirms the booking or saves booking and slot *)
(* again as it loaded them.  In HandlePaymentWebhook the mark is not       *)
(* committed before that save: it is kept in "seen", it locks its row, and *)
(* other transactions do not see it.                                       *)
(***************************************************************************)
EXTENDS Checkout

CONSTANTS
  SplitOps,   \* what users do besides paying: a subset of {"cancel", "decline"}
  MaxCopies   \* bound on the declines and cancellations under way at once

ASSUME SplitAssumption ==
  /\ SplitOps \subseteq {"cancel", "decline"}
  /\ MaxCopies \in Nat
  /\ Friends \cap {"full", "primary"} = {}

VARIABLES
  seen,      \* seen[w]: whether a webhook has marked its share, and which
             \* shares it found unpaid then
  link,      \* link[b][f]: friend f's PaymentIntent for its share of b
  copies,    \* rows a decline, a cancellation or the cron has loaded
  refunded   \* payments the gateway was asked to return

svars == <<vars, seen, link, copies, refunded>>

Shares == {"primary"} \cup Friends

\* "lost": the friend has a PaymentIntent the row does not know of any more.
Link == {"none", "saved", "lost"}

Look(st, U) == [stage |-> st, unpaid |-> U]
Nothing == Look("none", {})
Copy == [op : {"cancel", "expire"}, b : Bookings, bk : BookingRow]
          \cup [op : {"decline"}, b : Bookings, f : Friends, link : Link]

\* Rows locked by a mark that is not committed: other writers wait.
ShareLocked(b, p) ==
  \E w \in Workers : /\ seen[w] # Nothing /\ task[w].op = "loaded"
                     /\ task[w].e.b = b /\ task[w].e.part = p
-----------------------------------------------------------------------------
SInit ==
  /\ Init
  /\ seen = [w \in Workers |-> Nothing]
  /\ link = [b \in Bookings |-> [f \in Friends |-> "none"]]
  /\ copies = {}
  /\ refunded = {}

\* A step of Checkout.  A worker that is done forgets what it has seen; a
\* host's uncommitted payment keeps the booking row from other writers.
CheckoutStep ==
  /\ Next
  /\ \A b \in Bookings : ShareLocked(b, "primary") => booking'[b] = booking[b]
  /\ seen' = [w \in Workers |-> IF task'[w] = Idle THEN Nothing ELSE seen[w]]
  /\ UNCHANGED <<link, copies, refunded>>
-----------------------------------------------------------------------------
(* VerifySplitToken hands a friend the PaymentIntent of its share, which   *)
(* it creates and saves when the row has none.  Only a paid share is       *)
(* refused; one that is declined, refunded or expired is not.              *)
VerifySplitToken(b, f) ==
  /\ splits[b][f] \notin {"absent", "paid"}
  /\ ~ShareLocked(b, f)
  /\ link[b][f] # "saved"
  /\ link' = [link EXCEPT ![b][f] = "saved"]
  /\ UNCHANGED <<vars, seen, copies, refunded>>

\* The host, or a friend who has a PaymentIntent, pays (or fails to).
PayShare(b, p, o) ==
  /\ booking[b].kind = "split"
  /\ p \in Friends => link[b][p] # "none"
  /\ Produce([b |-> b, part |-> p, outcome |-> o])
  /\ UNCHANGED <<seen, link, copies, refunded>>
-----------------------------------------------------------------------------
(* checkAndFinalizeSplit, on what a webhook has loaded and seen.           *)

Mark(t, S) == IF t.e.part \in Friends THEN [S EXCEPT ![t.e.part] = "paid"] ELSE S

\* The booking as the webhook has it: loaded, and the host's mark set.
HostMarked(t) == IF t.e.part = "primary" THEN [t.bk EXCEPT !.primaryPaid = TRUE]
                                         ELSE t.bk

Unpaid(S) == {f \in Friends : S[f] \notin {"absent", "paid"}}

Mut_HostForgotten(t, U) == U = {}

AllPaid(t, U) == HostMarked(t).primaryPaid /\ U = {}

SplitBooking(t, U) ==
  IF AllPaid(t, U)
  THEN [HostMarked(t) EXCEPT !.status = "confirmed", !.splitStatus = "fully_paid"]
  ELSE HostMarked(t)
SplitSlot(t, U) == IF AllPaid(t, U) THEN [t.sl EXCEPT !.booked = TRUE, !.hold = NoHold]
                                    ELSE t.sl
-----------------------------------------------------------------------------
(* HandlePaymentWebhook for a share.                                       *)

\* Mark the share paid, without committing, and read all shares.
PaymentSplitMark(w) ==
  LET t == task[w] IN
  /\ t.op = "loaded" /\ t.e.part # "full" /\ t.e.outcome = "success"
  /\ seen[w] = Nothing
  /\ ~ShareLocked(t.e.b, t.e.part)
  /\ seen' = [seen EXCEPT ![w] = Look("read", Unpaid(Mark(t, splits[t.e.b])))]
  /\ UNCHANGED <<vars, link, copies, refunded>>

\* Confirm, or save what was loaded; COMMIT.
PaymentSplitCommit(w) ==
  LET t == task[w] IN
  /\ t.op = "loaded" /\ seen[w].stage = "read"
  /\ ~Locked(t.bk.slot)
  /\ t.e.part # "primary" => ~ShareLocked(t.e.b, "primary")
  /\ slot' = [slot EXCEPT ![t.bk.slot] = SplitSlot(t, seen[w].unpaid)]
  /\ booking' = [booking EXCEPT ![t.e.b] = SplitBooking(t, seen[w].unpaid)]
  /\ splits' = [splits EXCEPT ![t.e.b] = Mark(t, @)]
  /\ acked' = acked \cup {t.e}
  /\ Finish(w)
  /\ seen' = [seen EXCEPT ![w] = Nothing]
  /\ UNCHANGED <<now, ledger, ticket, sent, events, reminding, link, copies, refunded>>

\* A failed share changes nothing, but the rows are saved again all the same.
PaymentSplitFailed(w) ==
  LET t == task[w] IN
  /\ t.op = "loaded" /\ t.e.part # "full" /\ t.e.outcome = "failed"
  /\ ~Locked(t.bk.slot) /\ ~ShareLocked(t.e.b, "primary")
  /\ slot' = [slot EXCEPT ![t.bk.slot] = t.sl]
  /\ booking' = [booking EXCEPT ![t.e.b] = t.bk]
  /\ acked' = acked \cup {t.e}
  /\ Finish(w)
  /\ UNCHANGED <<now, splits, ledger, ticket, sent, events, reminding, seen, link,
                 copies, refunded>>
-----------------------------------------------------------------------------
(* HandleStripeWebhook for a share: the same, each write on its own.       *)

StripeSplitMark(w) ==
  LET t == task[w] IN
  /\ t.op = "stripe_loaded" /\ t.e.part # "full" /\ t.e.outcome = "success"
  /\ seen[w] = Nothing
  /\ ~ShareLocked(t.e.b, t.e.part)
  /\ splits' = [splits EXCEPT ![t.e.b] = Mark(t, @)]
  /\ booking' = IF t.e.part = "primary"
                THEN [booking EXCEPT ![t.e.b] = HostMarked(t)] ELSE booking
  /\ seen' = [seen EXCEPT ![w] = Look("marked", {})]
  /\ UNCHANGED <<now, slot, ledger, ticket, gateway, events, task, reminding, link,
                 copies, refunded>>

StripeSplitRead(w) ==
  /\ task[w].op = "stripe_loaded" /\ seen[w].stage = "marked"
  /\ seen' = [seen EXCEPT ![w] = Look("read", Unpaid(splits[task[w].e.b]))]
  /\ UNCHANGED <<vars, link, copies, refunded>>

\* Confirm in one transaction when all is paid, otherwise save nothing; a
\* failed share saves nothing either.
StripeSplitFinish(w) ==
  LET t == task[w] IN
  /\ t.op = "stripe_loaded" /\ t.e.part # "full"
  /\ \/ /\ t.e.outcome = "success" /\ seen[w].stage = "read" /\ AllPaid(t, seen[w].unpaid)
        /\ ~Locked(t.bk.slot) /\ ~ShareLocked(t.e.b, "primary")
        /\ slot' = [slot EXCEPT ![t.bk.slot] = SplitSlot(t, seen[w].unpaid)]
        /\ booking' = [booking EXCEPT ![t.e.b] = SplitBooking(t, seen[w].unpaid)]
     \/ /\ \/ t.e.outcome = "failed"
           \/ seen[w].stage = "read" /\ ~AllPaid(t, seen[w].unpaid)
        /\ UNCHANGED <<slot, booking>>
  /\ acked' = acked \cup {t.e}
  /\ Finish(w)
  /\ seen' = [seen EXCEPT ![w] = Nothing]
  /\ UNCHANGED <<now, splits, ledger, ticket, sent, events, reminding, link, copies,
                 refunded>>
-----------------------------------------------------------------------------
(* DeclineSplitInvite: load the share, later save the whole row.           *)

Copying(c) == /\ Cardinality({x \in copies : x.op # "expire"}) < MaxCopies
              /\ copies' = copies \cup {c}

DeclineLoad(b, f) ==
  /\ "decline" \in SplitOps
  /\ splits[b][f] \notin {"absent", "paid"}
  /\ Copying([op |-> "decline", b |-> b, f |-> f, link |-> link[b][f]])
  /\ UNCHANGED <<vars, seen, link, refunded>>

DeclineSave ==
  \E c \in copies :
    /\ c.op = "decline"
    /\ ~ShareLocked(c.b, c.f)
    /\ splits' = [splits EXCEPT ![c.b][c.f] = "declined"]
    /\ link' = [link EXCEPT ![c.b][c.f] =
                  IF c.link = "none" /\ @ = "saved" THEN "lost" ELSE @]
    /\ copies' = copies \ {c}
    /\ UNCHANGED <<now, slot, booking, ledger, ticket, gateway, events, task, reminding,
                   seen, refunded>>
-----------------------------------------------------------------------------
(* CancelBooking and processExpiredSplits: load the booking; in one        *)
(* transaction save it with its new status, free the slot, ask for the     *)
(* refunds and close the shares.                                           *)

Mut_FriendsOnly(c) == {<<c.b, f>> : f \in {g \in Friends : splits[c.b][g] = "paid"}}

\* Friends whose share is paid by a PaymentIntent the row knows, and the host
\* when the loaded booking says so.
RefundsDue(c) ==
  {<<c.b, f>> : f \in {g \in Friends : splits[c.b][g] = "paid" /\ link[c.b][g] = "saved"}}
    \cup (IF c.bk.primaryPaid THEN {<<c.b, "primary">>} ELSE {})

FreeSlot(s) == [slot EXCEPT ![s].booked = FALSE, ![s].hold = NoHold]

SharesUnlocked(b, F) == ~ShareLocked(b, "primary") /\ \A f \in F : ~ShareLocked(b, f)

CancelLoad(b) ==
  /\ "cancel" \in SplitOps
  /\ booking[b].status = "pending" /\ booking[b].kind = "split"
  /\ Copying([op |-> "cancel", b |-> b, bk |-> booking[b]])
  /\ UNCHANGED <<vars, seen, link, refunded>>

CancelCommit ==
  \E c \in copies :
    LET F == {f \in Friends : <<c.b, f>> \in RefundsDue(c)} IN
    /\ c.op = "cancel"
    /\ ~Locked(c.bk.slot) /\ SharesUnlocked(c.b, F)
    /\ booking' = [booking EXCEPT ![c.b] = [c.bk EXCEPT !.status = "cancelled"]]
    /\ slot' = FreeSlot(c.bk.slot)
    /\ splits' = [splits EXCEPT ![c.b] =
                    [f \in Friends |-> IF f \in F THEN "refunded" ELSE @[f]]]
    /\ refunded' = refunded \cup RefundsDue(c)
    /\ copies' = copies \ {c}
    /\ UNCHANGED <<now, ledger, ticket, gateway, events, task, reminding, seen, link>>

Mut_NoCutoff(b) == booking[b].status = "pending" /\ booking[b].kind = "split"

\* The cron's query: pending split bookings older than the split hold.
Overdue(b) == /\ booking[b].status = "pending" /\ booking[b].kind = "split"
              /\ Deadline(b) < now

Expirable == {c \in copies : c.op = "expire"}

ExpireLoad ==
  /\ Expirable = {}
  /\ \E b \in Bookings : Overdue(b)
  /\ copies' = copies \cup {[op |-> "expire", b |-> b, bk |-> booking[b]] :
                              b \in {x \in Bookings : Overdue(x)}}
  /\ UNCHANGED <<vars, seen, link, refunded>>

ExpireCommit ==
  \E c \in Expirable :
    /\ ~Locked(c.bk.slot) /\ SharesUnlocked(c.b, Friends)
    /\ booking' = [booking EXCEPT ![c.b] =
                     [c.bk EXCEPT !.status = "expired", !.splitStatus = "expired"]]
    /\ slot' = FreeSlot(c.bk.slot)
    /\ splits' = [splits EXCEPT ![c.b] =
                    [f \in Friends |-> IF @[f] = "absent" THEN "absent" ELSE "expired"]]
    /\ refunded' = refunded \cup RefundsDue(c)
    /\ copies' = copies \ {c}
    /\ UNCHANGED <<now, ledger, ticket, gateway, events, task, reminding, seen, link>>

\* The transaction is rolled back, for one as the victim of a deadlock with a
\* webhook, which locks the slot before the booking; perhaps after it has
\* asked for the refunds.
CopyAbort ==
  \E c \in copies :
    /\ c.op \in {"cancel", "expire"}
    /\ refunded' \in {refunded, refunded \cup RefundsDue(c)}
    /\ copies' = copies \ {c}
    /\ UNCHANGED <<vars, seen, link>>
-----------------------------------------------------------------------------
SplitStep(w) ==
  \/ PaymentSplitMark(w) \/ PaymentSplitCommit(w) \/ PaymentSplitFailed(w)
  \/ StripeSplitMark(w) \/ StripeSplitRead(w) \/ StripeSplitFinish(w)

Customers ==
  \E b \in Bookings :
    \/ \E f \in Friends : VerifySplitToken(b, f) \/ DeclineLoad(b, f)
    \/ \E p \in Shares, o \in {"success", "failed"} : PayShare(b, p, o)
    \/ CancelLoad(b)

SNext ==
  \/ CheckoutStep \/ Customers
  \/ \E w \in Workers : SplitStep(w)
  \/ DeclineSave \/ CancelCommit \/ ExpireLoad \/ ExpireCommit \/ CopyAbort

SSpec == SInit /\ [][SNext]_svars

(***************************************************************************)
(* As in Checkout, and: the clock goes on, the cron keeps running and its  *)
(* transactions do not fail for ever.                                      *)
(***************************************************************************)
SFairness ==
  /\ WF_svars(CheckoutStep /\ Tick)
  /\ WF_svars(ExpireLoad) /\ SF_svars(ExpireCommit)
  /\ \A w \in Workers :
       WF_svars(SplitStep(w)) /\ WF_svars(CheckoutStep /\ Step(w))
  /\ \A e \in Result :
       WF_svars(CheckoutStep /\ e \notin acked /\ \E w \in Workers : Deliver(w, e))

SFairSpec == SSpec /\ SFairness
-----------------------------------------------------------------------------
STypeOK ==
  /\ TypeOK
  /\ seen \in [Workers -> [stage : {"none", "marked", "read"}, unpaid : SUBSET Friends]]
  /\ link \in [Bookings -> [Friends -> Link]]
  /\ copies \subseteq Copy
  /\ refunded \subseteq Bookings \X Shares

HasPaid(b, p) == [b |-> b, part |-> p, outcome |-> "success"] \in sent

\* A split booking is confirmed only when the gateway has reported a payment
\* of the host and of every friend who was invited, whatever copies of its
\* rows were saved in between.
ConfirmedSplitIsPaid ==
  \A b \in Bookings :
    Confirmed(b) /\ booking[b].kind = "split" =>
      /\ HasPaid(b, "primary")
      /\ \A f \in Friends : splits[b][f] # "absent" => HasPaid(b, f)

\* Nobody plays on money that was given back: a booking one of whose shares
\* was refunded is not confirmed afterwards.
RefundedIsNotConfirmed ==
  \A b \in Bookings : \A p \in Shares : <<b, p>> \in refunded => ~Confirmed(b)

\* The money of a split that does not come about is returned to those who
\* paid.  (For bookings whose hold ends within the bound on the clock.)
MoneyIsReturned ==
  \A b \in Bookings : \A p \in Shares :
    HasPaid(b, p) /\ Deadline(b) < MaxTime ~>
      Confirmed(b) \/ <<b, p>> \in refunded
=============================================================================
