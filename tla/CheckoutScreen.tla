----------------------------- MODULE CheckoutScreen -----------------------------
(***************************************************************************)
(* The checkout pages of one browser (App.jsx), on top of the server of    *)
(* SplitCheckout.  The browser is also the reporter of payment results: it *)
(* posts them to HandlePaymentWebhook, without an event id, when the user  *)
(* pays, when the user cancels, and when the countdown of the terminal     *)
(* ends.  Other customers pay in time and their results are posted once.   *)
(*                                                                         *)
(* The grid of slots is as old as the last answer of loadSlots, so a card  *)
(* can be clicked whatever its slot has become; the grid itself is left    *)
(* out.  The page's own web socket has no action: it waits for messages    *)
(* with a field "event", and the hub sends none.                           *)
(***************************************************************************)
EXTENDS SplitCheckout

CONSTANTS
  Mine,       \* bookings of this browser: Idempotency-Keys it generates
  MaxCalls,   \* bound on the calls under way
  Terminals,  \* which terminal a client secret opens: "mock", "stripe"
  Habits,     \* what the user may do, a subset of AllHabits
  Troubles    \* bound on the calls that are lost, the refusals and the reloads

(***************************************************************************)
(* impatient: clicks on while a call is under way                          *)
(* slow:      is still paying when the hold runs out                       *)
(***************************************************************************)
AllHabits == {"impatient", "slow"}

ASSUME CheckoutScreenAssumption ==
  /\ "normal" \in Kinds   \* the dialog always offers to pay in full
  /\ Mine \subseteq Bookings
  /\ Workers \cap {"none", "sent", "ok", "refused"} = {}
  /\ Terminals \subseteq {"mock", "stripe"}
  /\ Habits \subseteq AllHabits
  /\ MaxCalls \in Nat /\ Troubles \in Nat

VARIABLES
  call,        \* calls of this browser: what they ask for, where they are
  logged,      \* is there a token; without one only the login form is shown
  dialog,      \* the price breakdown or the checkout dialog (configModal)
  modal,       \* the payment terminal and its final screens (paymentModal)
  processing,  \* the slot whose booking is under way (isProcessingId)
  troubles     \* how often a call was lost or refused, or the page reloaded

page == <<logged, dialog, modal, processing>>
uvars == <<svars, call, page, troubles>>

Calls == 1..MaxCalls

Closed == [at |-> "closed"]
Dialog == [at : {"breakdown"}, slot : Slots]
            \cup [at : {"config"}, slot : Slots, b : Mine, join : BOOLEAN,
                  split : BOOLEAN, matchmaking : BOOLEAN]
Modal == [b : Mine, shares : BOOLEAN, secret : {"none"} \cup Terminals,
          confirmed : BOOLEAN, busy : BOOLEAN]

\* A call is known to the server goroutine that handles it, if one does, and
\* to the page that sent it, unless that was loaded again.
Free == [at |-> "none"]
Call == [op : {"book"}, b : Mine, slot : Slots, kind : AllKinds, friends : SUBSET Friends,
         at : {"sent", "ok", "refused"} \cup Workers, page : BOOLEAN]
          \cup [op : {"pay", "charge"}, b : Mine, part : {"full", "primary"},
                outcome : {"success", "failed"},
                at : {"sent", "ok", "refused"} \cup Workers, page : BOOLEAN]
          \cup [op : {"logout"}, at : {"sent"}, page : BOOLEAN]

\* What the payment dialog shows.
View == IF ~logged \/ modal = Closed THEN "none"
        ELSE IF modal.confirmed THEN "confirmed"
        ELSE IF modal.shares /\ modal.secret = "none" THEN "split"
        ELSE "pay"

\* The price breakdown covers the payment dialog, which covers the checkout
\* dialog, which covers the page.
OnTop(x) ==
  /\ logged
  /\ x = "breakdown" <=> dialog # Closed /\ dialog.at = "breakdown"
  /\ x \in {"page", "config"} => View = "none"
  /\ x = "page" => dialog = Closed
  /\ x = "config" => dialog # Closed

\* A patient user waits for the answer before the next click.
Clicks == "impatient" \in Habits \/ \A c \in Calls : call[c] = Free
-----------------------------------------------------------------------------
(* The way to a booking.                                                   *)

\* Which number a call has does not matter: the least that is free.
Send(c, k) ==
  /\ call[c] = Free /\ \A d \in 1..(c - 1) : call[d] # Free
  /\ call' = [call EXCEPT ![c] = k]

\* "Book Now" on a card, disabled while the slot is being booked.
OpenBreakdown(s) ==
  /\ OnTop("page") /\ Clicks /\ processing # s
  /\ dialog' = [at |-> "breakdown", slot |-> s]
  /\ UNCHANGED <<svars, call, logged, modal, processing, troubles>>

\* initiateBooking: a new Idempotency-Key each time.  The card may say of the
\* slot what it no longer is.
InitiateBooking(b, join) ==
  /\ OnTop("breakdown") /\ Clicks
  /\ booking[b].status = "absent"
  /\ \A c \in Calls : call[c] # Free /\ call[c].op = "book" => call[c].b # b
  /\ join => "join" \in Kinds
  /\ dialog' = [at |-> "config", slot |-> dialog.slot, b |-> b, join |-> join,
                split |-> FALSE, matchmaking |-> FALSE]
  /\ UNCHANGED <<svars, call, logged, modal, processing, troubles>>

\* Pay in full, or split the bill.
ChooseSplit(on) ==
  /\ OnTop("config") /\ ~dialog.join /\ dialog.split # on
  /\ on => "split" \in Kinds
  /\ dialog' = [dialog EXCEPT !.split = on]
  /\ UNCHANGED <<svars, call, logged, modal, processing, troubles>>

\* The switch is shown for split bookings only, and keeps its position when
\* the user goes back to paying in full.
ToggleMatchmaking ==
  /\ OnTop("config") /\ dialog.split /\ "host" \in Kinds
  /\ dialog' = [dialog EXCEPT !.matchmaking = ~@]
  /\ UNCHANGED <<svars, call, logged, modal, processing, troubles>>

CloseDialog ==
  /\ OnTop("breakdown") \/ OnTop("config")
  /\ dialog' = Closed
  /\ UNCHANGED <<svars, call, logged, modal, processing, troubles>>

KindOf(d) == IF d.join THEN "join" ELSE IF d.split THEN "split"
             ELSE IF d.matchmaking THEN "host" ELSE "normal"

\* A split booking that also opens a match is left out, see SplitCheckout.
ConfirmBooking(c) ==
  /\ OnTop("config") /\ Clicks
  /\ ~(dialog.split /\ dialog.matchmaking)
  /\ \E F \in SUBSET Friends :
       /\ dialog.split <=> F # {}
       /\ Send(c, [op |-> "book", b |-> dialog.b, slot |-> dialog.slot,
                   kind |-> KindOf(dialog), friends |-> F, at |-> "sent", page |-> TRUE])
  /\ processing' = dialog.slot
  /\ dialog' = Closed
  /\ UNCHANGED <<svars, logged, modal, troubles>>
-----------------------------------------------------------------------------
(* The payment terminal.                                                   *)

Mut_PartOf(m) == IF m.shares THEN "share" ELSE "full"

PartOf(m) == IF m.shares THEN "primary" ELSE "full"

Payment(op, m, o) == [op |-> op, b |-> m.b, part |-> PartOf(m), outcome |-> o,
                      at |-> "sent", page |-> TRUE]
ResultOf(k) == [b |-> k.b, part |-> k.part, outcome |-> k.outcome]

\* Who is not slow pays before the hold runs out.
InTime(b) == "slow" \in Habits \/ now < Deadline(b)

\* handlePayment, or the split branch beside it, posts a result.
Post(c, m, o) ==
  /\ Send(c, Payment("pay", m, o))
  /\ sent' = sent \cup {ResultOf(Payment("pay", m, o))}
  /\ UNCHANGED <<now, rows, acked, events, task, reminding, seen, link, copies, refunded>>

MockPay(c) ==
  /\ View = "pay" /\ ~OnTop("breakdown") /\ Clicks /\ InTime(modal.b)
  /\ modal.secret = "mock"
  /\ Post(c, modal, "success")
  /\ UNCHANGED <<page, troubles>>

Mut_CancelPayment(c) ==
  /\ View = "pay" /\ ~OnTop("breakdown") /\ Clicks /\ InTime(modal.b)
  /\ modal.secret # "none" /\ ~modal.busy /\ call[c] = Free
  /\ modal' = Closed
  /\ UNCHANGED <<svars, call, logged, dialog, processing, troubles>>

\* In the Stripe form "Cancel" is disabled while the card is being charged,
\* and from then on if it was.
CancelPayment(c) ==
  /\ View = "pay" /\ ~OnTop("breakdown") /\ Clicks /\ InTime(modal.b)
  /\ modal.secret # "none" /\ ~modal.busy
  /\ Post(c, modal, "failed")
  /\ UNCHANGED <<page, troubles>>

\* handleSubmit of the Stripe form.
ConfirmPayment(c) ==
  /\ View = "pay" /\ ~OnTop("breakdown") /\ Clicks /\ InTime(modal.b)
  /\ modal.secret = "stripe" /\ ~modal.busy
  /\ Send(c, Payment("charge", modal, "success"))
  /\ modal' = [modal EXCEPT !.busy = TRUE]
  /\ UNCHANGED <<svars, logged, dialog, processing, troubles>>

\* The card is charged, and the form posts the result: for the booking it was
\* opened for, even if it is not on the page any more.
Charged(c) ==
  /\ call[c] # Free /\ call[c].op = "charge"
  /\ call' = [call EXCEPT ![c].op = "pay"]
  /\ sent' = sent \cup {ResultOf(call[c])}
  /\ UNCHANGED <<now, rows, acked, events, task, reminding, seen, link, copies, refunded,
                 page, troubles>>

Declined(c) ==
  /\ call[c] # Free /\ call[c].op = "charge"
  /\ call' = [call EXCEPT ![c] = Free]
  /\ modal' = IF modal # Closed /\ modal.b = call[c].b THEN [modal EXCEPT !.busy = FALSE]
                                                       ELSE modal
  /\ UNCHANGED <<svars, logged, dialog, processing, troubles>>

Mut_TimeIsUp(b) == TRUE

TimeIsUp(b) == now >= Deadline(b)

\* The countdown of the terminal posts a failure, whatever else is under way.
TimerExpires(c) ==
  /\ View = "pay" /\ TimeIsUp(modal.b)
  /\ Post(c, modal, "failed")
  /\ UNCHANGED <<page, troubles>>

CloseModal ==
  /\ View \in {"confirmed", "split"} /\ ~OnTop("breakdown")
  /\ modal' = Closed
  /\ UNCHANGED <<svars, call, logged, dialog, processing, troubles>>
-----------------------------------------------------------------------------
(* The session.                                                            *)

Logout(c) ==
  /\ OnTop("page") /\ Clicks
  /\ Send(c, [op |-> "logout", at |-> "sent", page |-> TRUE])
  /\ UNCHANGED <<svars, page, troubles>>

\* Without a token the pages are unmounted: the breakdown, the Stripe form and
\* the countdown are gone, the dialogs of App are still there at a login.
LogOut ==
  /\ logged' = FALSE
  /\ dialog' = IF dialog # Closed /\ dialog.at = "breakdown" THEN Closed ELSE dialog
  /\ modal' = IF modal = Closed THEN Closed ELSE [modal EXCEPT !.busy = FALSE]

Login ==
  /\ ~logged /\ logged' = TRUE
  /\ UNCHANGED <<svars, call, dialog, modal, processing, troubles>>

Trouble == troubles < Troubles /\ troubles' = troubles + 1

Reload ==
  /\ Trouble
  /\ call' = [c \in Calls |->
                IF call[c] # Free /\ call[c].op \in {"book", "pay"}
                     /\ call[c].at \in {"sent"} \cup Workers
                THEN [call[c] EXCEPT !.page = FALSE] ELSE Free]
  /\ dialog' = Closed /\ modal' = Closed /\ processing' = NoSlot
  /\ UNCHANGED <<svars, logged>>
-----------------------------------------------------------------------------
(* The server.                                                             *)

\* An answer finds the page that sent the call, or nobody.
Answer(k, answer) == IF k.page THEN [k EXCEPT !.at = answer] ELSE Free

\* A step of Checkout, while SplitCheckout's variables follow.
Server(A) ==
  /\ A
  /\ \A b \in Bookings : ShareLocked(b, "primary") => booking'[b] = booking[b]
  /\ seen' = [w \in Workers |-> IF task'[w] = Idle THEN Nothing ELSE seen[w]]
  /\ UNCHANGED <<link, copies, refunded>>

Serve(c) ==
  LET k == call[c] IN
  /\ k.at = "sent"
  /\ \/ \E w \in Workers :
          /\ call' = [call EXCEPT ![c].at = w]
          /\ \/ k.op = "book" /\ Server(CreateBookingLock(w, k.b, k.slot, k.kind, k.friends))
             \/ k.op = "pay" /\ Server(PaymentWebhookCheck(w, ResultOf(k)))
     \/ /\ k.op = "book" /\ ~Locked(k.slot) /\ ~Admits(slot[k.slot], k.kind)
        /\ call' = [call EXCEPT ![c] = Answer(k, "refused")]
        /\ UNCHANGED svars
  /\ UNCHANGED <<page, troubles>>

\* The goroutines; one that is done answers its call.
GoOn(w, answer) ==
  /\ call' = [c \in Calls |-> IF call[c].at = w /\ task'[w] = Idle
                              THEN Answer(call[c], answer) ELSE call[c]]
  /\ UNCHANGED page

Work(w) == (Server(Step(w)) \/ SplitStep(w)) /\ GoOn(w, "ok") /\ UNCHANGED troubles

\* The gateway refuses the PaymentIntent.
RefuseIntent(w) == Trouble /\ Server(CreateBookingRollback(w)) /\ GoOn(w, "refused")
-----------------------------------------------------------------------------
(* The answers.                                                            *)

\* confirmBooking: the terminal for the new booking, in place of any other.
Booked(c) ==
  /\ call[c].at = "ok" /\ call[c].op = "book"
  /\ \E t \in Terminals :
       modal' = [b |-> call[c].b, shares |-> call[c].friends # {}, secret |-> t,
                 confirmed |-> FALSE, busy |-> FALSE]
  /\ processing' = NoSlot
  /\ call' = [call EXCEPT ![c] = Free]
  /\ UNCHANGED <<svars, logged, dialog, troubles>>

NotBooked(c) ==
  /\ call[c].at = "refused" /\ call[c].op = "book"
  /\ processing' = NoSlot
  /\ call' = [call EXCEPT ![c] = Free]
  /\ UNCHANGED <<svars, logged, dialog, modal, troubles>>

\* A split payment: the dialog as it was at the click, without its secret, and
\* so the split screen, whatever the answer was.
SharePosted(c) ==
  /\ call[c].at \in {"ok", "refused"} /\ call[c].op = "pay"
  /\ call[c].part = "primary" /\ call[c].outcome = "success"
  /\ modal' = [b |-> call[c].b, shares |-> TRUE, secret |-> "none",
               confirmed |-> FALSE, busy |-> FALSE]
  /\ call' = [call EXCEPT ![c] = Free]
  /\ UNCHANGED <<svars, logged, dialog, processing, troubles>>

Mut_TerminalStays(c) ==
  /\ call[c].at \in {"ok", "refused"} /\ call[c].op = "pay"
  /\ call[c].part = "full" /\ call[c].outcome = "success"
  /\ call' = [call EXCEPT ![c] = Free]
  /\ UNCHANGED <<svars, page, troubles>>

\* A full payment: the dialog that is open now becomes the confirmed screen, if
\* the answer was good.
PaymentPosted(c) ==
  /\ call[c].at \in {"ok", "refused"} /\ call[c].op = "pay"
  /\ call[c].part = "full" /\ call[c].outcome = "success"
  /\ modal' = IF modal # Closed /\ call[c].at = "ok"
              THEN [modal EXCEPT !.confirmed = TRUE, !.secret = "none"] ELSE modal
  /\ call' = [call EXCEPT ![c] = Free]
  /\ UNCHANGED <<svars, logged, dialog, processing, troubles>>

Mut_FailureKeepsShares(c) ==
  /\ call[c].at \in {"ok", "refused"} /\ call[c].op = "pay" /\ call[c].outcome = "failed"
  /\ modal' = IF call[c].part = "full" THEN Closed ELSE modal
  /\ call' = [call EXCEPT ![c] = Free]
  /\ UNCHANGED <<svars, logged, dialog, processing, troubles>>

Mut_FailureAsSuccess(c) ==
  /\ call[c].at \in {"ok", "refused"} /\ call[c].op = "pay" /\ call[c].outcome = "failed"
  /\ modal' = IF call[c].part = "full" \/ modal = Closed THEN Closed
              ELSE [modal EXCEPT !.secret = "none"]
  /\ call' = [call EXCEPT ![c] = Free]
  /\ UNCHANGED <<svars, logged, dialog, processing, troubles>>

\* A failure closes the dialog, whatever the answer was.
FailurePosted(c) ==
  /\ call[c].at \in {"ok", "refused"} /\ call[c].op = "pay" /\ call[c].outcome = "failed"
  /\ modal' = Closed
  /\ call' = [call EXCEPT ![c] = Free]
  /\ UNCHANGED <<svars, logged, dialog, processing, troubles>>

LoggedOut(c) ==
  /\ call[c] # Free /\ call[c].op = "logout"
  /\ LogOut
  /\ call' = [call EXCEPT ![c] = Free]
  /\ UNCHANGED <<svars, processing, troubles>>

\* 401: the session has expired.
Unauthorised(c) ==
  /\ Trouble
  /\ call[c].at = "sent" /\ call[c].op = "book" /\ call[c].page
  /\ LogOut
  /\ processing' = NoSlot
  /\ call' = [call EXCEPT ![c] = Free]
  /\ UNCHANGED svars

\* The call never reaches the server, or its answer never reaches the page.
Lost(c) ==
  /\ Trouble
  /\ call[c].at \in {"sent", "ok"} /\ call[c].op \in {"book", "pay"}
  /\ call' = [call EXCEPT ![c] = Answer(@, "refused")]
  /\ UNCHANGED <<svars, page>>
-----------------------------------------------------------------------------
\* The other customers pay once, while their hold lasts.
Others ==
  /\ \E b \in Bookings \ Mine :
       \/ \E w \in Workers, s \in Slots, k \in Kinds \ {"split"} :
            Server(CreateBookingLock(w, b, s, k, {}))
       \/ now < Deadline(b) /\ Server(\E o \in {"success", "failed"} : PayInFull(b, o))
       \/ \E w \in Workers, e \in sent \ acked :
            /\ e.b = b /\ \A v \in Workers : ~Processing(v, e)
            /\ Server(PaymentWebhookCheck(w, e))
  /\ UNCHANGED <<call, page, troubles>>

\* Only this user, and only a slow one, is still paying when a hold ends.
Paying(b) ==
  \/ b \notin Mine /\ \E e \in sent \ acked : e.b = b
  \/ \E c \in Calls : /\ call[c] # Free /\ call[c].op \in {"charge", "pay"}
                       /\ call[c].b = b /\ call[c].outcome = "success"

Clock ==
  /\ \A b \in Bookings :
       Paying(b) => now + 1 < Deadline(b) \/ (b \in Mine /\ "slow" \in Habits)
  /\ Server(Tick)
  /\ UNCHANGED <<call, page, troubles>>

UInit ==
  /\ SInit
  /\ call = [c \in Calls |-> Free]
  /\ logged = FALSE /\ dialog = Closed /\ modal = Closed /\ processing = NoSlot
  /\ troubles = 0

Browse ==
  \/ \E s \in Slots : OpenBreakdown(s)
  \/ \E b \in Mine, join \in BOOLEAN : InitiateBooking(b, join)
  \/ \E on \in BOOLEAN : ChooseSplit(on)
  \/ ToggleMatchmaking \/ CloseDialog \/ CloseModal \/ Login \/ Reload

Click(c) ==
  \/ ConfirmBooking(c) \/ MockPay(c) \/ CancelPayment(c) \/ ConfirmPayment(c) \/ Logout(c)

Reply(c) ==
  \/ Booked(c) \/ NotBooked(c) \/ SharePosted(c) \/ PaymentPosted(c) \/ FailurePosted(c)
  \/ LoggedOut(c) \/ Charged(c) \/ Declined(c)

UNext ==
  \/ Browse \/ Others \/ Clock
  \/ \E c \in Calls :
       Click(c) \/ TimerExpires(c) \/ Serve(c) \/ Reply(c) \/ Unauthorised(c) \/ Lost(c)
  \/ \E w \in Workers : Work(w) \/ RefuseIntent(w)

USpec == UInit /\ [][UNext]_uvars

(***************************************************************************)
(* Calls are handled and answered, and the countdown runs.  Users need not *)
(* click.                                                                  *)
(***************************************************************************)
UFairness ==
  /\ WF_uvars(Clock)
  /\ WF_uvars(\E c \in Calls : TimerExpires(c))
  /\ \A c \in Calls : WF_uvars(Serve(c)) /\ WF_uvars(Reply(c))
  /\ \A w \in Workers : WF_uvars(Work(w))

UFairSpec == USpec /\ UFairness
-----------------------------------------------------------------------------
\* Type invariant of the page, its calls and the rows of the server behind it.
UTypeOK ==
  /\ STypeOK
  /\ call \in [Calls -> Call \cup {Free}]
  /\ logged \in BOOLEAN /\ processing \in Slots \cup {NoSlot}
  /\ dialog \in Dialog \cup {Closed} /\ modal \in Modal \cup {Closed}
  /\ troubles \in 0..Troubles

Smooth == troubles = 0 /\ Habits = {}

\* The final screens tell the truth: "Booking Confirmed!" is shown of a booking
\* that is confirmed, and the host is ticked off as paid when the host has paid.
\* They are drawn from the answer of a call, not from the booking.
ScreenIsTrue ==
  Smooth => /\ View = "confirmed" => Confirmed(modal.b)
            /\ View = "split" => booking[modal.b].primaryPaid

\* A slot that is held for this user can be paid for: as long as the hold lasts
\* the terminal is there, or a call under way that opens it, or the user has
\* cancelled or paid the host's share.
HeldCanPay ==
  Smooth =>
  \A b \in Mine :
    booking[b].status = "pending" /\ now < Deadline(b) =>
      \/ modal # Closed /\ modal.b = b
      \/ \E c \in Calls : call[c] # Free /\ call[c].op = "book" /\ call[c].b = b
      \/ booking[b].primaryPaid
      \/ [b |-> b, part |-> "primary", outcome |-> "failed"] \in sent

\* What the user has paid for stays: the countdown, which goes on until the page
\* knows the answer, does not take a confirmed booking back.
PaidStaysConfirmed ==
  [][\A b \in Mine : Smooth /\ Confirmed(b) => Confirmed(b)']_uvars

\* A match opened by a booking never counts a player nobody paid for: one payment,
\* posted without an event id by the page, is applied once as long as its answer
\* comes.
NoPaidPlayerTwice == Smooth => NoPhantomPlayer

\* No terminal outlives the hold it takes money for, even if calls are lost.
TerminalCloses ==
  \A b \in Mine :
    View = "pay" /\ modal.b = b /\ now >= Deadline(b) ~> ~(View = "pay" /\ modal.b = b)
=============================================================================
