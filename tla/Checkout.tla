------------------------------ MODULE Checkout ------------------------------
(***************************************************************************)
(* The purchase of a turf slot: CreateBooking puts a hold on a slot row    *)
(* under SELECT ... FOR UPDATE and writes a pending booking; the payment   *)
(* gateway reports a result; one of the two webhook handlers turns the     *)
(* result into a confirmed or failed booking and a sold or free slot; the  *)
(* reminder cron later rewrites confirmed bookings.                        *)
(*                                                                         *)
(* PostgreSQL runs at READ COMMITTED.  A handler that reads a row without  *)
(* FOR UPDATE and later calls gorm's Save, which writes every column of    *)
(* the loaded row, is two steps here, with the row it loaded kept in the   *)
(* worker's task.  A FOR UPDATE section is also two steps, and the row     *)
(* lock it holds in between blocks every other writer of the row.          *)
(***************************************************************************)
EXTENDS Integers, FiniteSets

CONSTANTS
  Slots,      \* slot rows
  Bookings,   \* booking ids; one per Idempotency-Key of a checkout dialog
  Friends,    \* friends a split booking can name (SplitCheckout pays them)
  Workers,    \* request goroutines
  NoSlot,     \* the slot of a booking that does not exist yet
  Kinds,      \* kinds of booking customers ask for, a subset of AllKinds
  Hooks,      \* webhook routes in use: "payment", "stripe"
  Hazards,    \* what the environment may do, a subset of AllHazards
  HoldTime,   \* length of an ordinary hold (10 minutes in the code)
  SplitHoldTime, \* length of a split hold (30 minutes in the code)
  MatchSize,  \* RequiredPlayers of a slot opened by a booking (10)
  AskedFor,   \* bookings whose ticket somebody asks for (bounds the model)
  MaxTime     \* bound on the clock

AllKinds == {"normal", "host", "join", "split"}

(***************************************************************************)
(* late:        the gateway reports a result after the hold has run out    *)
(* retry:       a failed attempt and a later success of one booking are    *)
(*              both reported                                              *)
(* redeliver:   a result is delivered again after it was acknowledged      *)
(* overlap:     two deliveries of one result are processed concurrently    *)
(* no_event_id: results carry no event_id, as those the UI posts           *)
(* crash:       processing stops half-way (crash, aborted transaction)     *)
(***************************************************************************)
AllHazards == {"late", "retry", "redeliver", "overlap", "no_event_id", "crash"}

ASSUME CheckoutAssumption ==
  /\ NoSlot \notin Slots
  /\ Kinds \subseteq AllKinds
  /\ Hooks \subseteq {"payment", "stripe"}
  /\ Hazards \subseteq AllHazards
  /\ HoldTime \in Nat \ {0}
  /\ SplitHoldTime \in Nat \ {0}
  /\ MatchSize \in Nat \ {0, 1}
  /\ AskedFor \subseteq Bookings
  /\ MaxTime \in Nat

VARIABLES
  now,        \* the clock
  slot,       \* slot rows
  booking,    \* booking rows
  splits,     \* booking_splits rows: their status, per booking and friend
  ledger,     \* payment_transactions rows with status "succeeded", per booking
  ticket,     \* tickets rows: the bookings that have one
  sent,       \* payment results the gateway has produced
  acked,      \* results answered with 200
  events,     \* webhook_events rows
  task,       \* what each request goroutine is doing
  reminding   \* bookings the reminder cron has loaded and not yet saved

rows == <<slot, booking, splits, ledger, ticket>>
gateway == <<sent, acked>>
vars == <<now, rows, gateway, events, task, reminding>>
-----------------------------------------------------------------------------
(* Rows.  HoldExpiresAt = NULL is 0: a hold always ends after time 0.      *)
NoHold == 0
Held(sl) == sl.hold > now

SlotRow == [booked : BOOLEAN, hold : Nat,
            mm : {"none", "open", "closed"}, current : Nat]

Status == {"absent", "pending", "confirmed", "failed", "cancelled", "expired"}

BookingRow == [slot : Slots \cup {NoSlot}, kind : AllKinds, status : Status,
               bookedAt : Nat, primaryPaid : BOOLEAN,
               splitStatus : {"none", "pending", "fully_paid", "expired"},
               reminded : BOOLEAN]

Absent == [slot |-> NoSlot, kind |-> "normal", status |-> "absent",
           bookedAt |-> 0, primaryPaid |-> FALSE, splitStatus |-> "none",
           reminded |-> FALSE]

SplitState == {"absent", "pending", "paid", "declined", "refunded", "expired"}

HoldFor(k) == IF k = "split" THEN SplitHoldTime ELSE HoldTime
Deadline(b) == booking[b].bookedAt + HoldFor(booking[b].kind)

(* What one payment attempt of a booking is for: the whole price, the      *)
(* host's share, or one friend's share of a split booking.                 *)
Result == [b : Bookings, part : {"full", "primary"} \cup Friends,
           outcome : {"success", "failed"}]
-----------------------------------------------------------------------------
(* Tasks of the request goroutines.                                        *)
Idle == [op |-> "idle"]

Creating == [op : {"create"}, b : Bookings, s : Slots, kind : AllKinds,
             friends : SUBSET Friends, sl : SlotRow]
Checked  == [op : {"checked"}, e : Result]
Loaded   == [op : {"loaded", "ticketed", "stripe_loaded", "stripe_saved"},
             e : Result, bk : BookingRow, sl : SlotRow]
Task == {Idle} \cup Creating \cup Checked \cup Loaded

Mut_NoRowLock(s) == FALSE

\* The slot row is locked by a CreateBooking between its FOR UPDATE and its
\* commit; every other UPDATE of the row waits.
Locked(s) == \E w \in Workers : task[w].op = "create" /\ task[w].s = s

Processing(w, e) ==
  /\ task[w].op \in {"checked", "loaded", "ticketed", "stripe_loaded", "stripe_saved"}
  /\ task[w].e = e

Finish(w) == task' = [task EXCEPT ![w] = Idle]
-----------------------------------------------------------------------------
Init ==
  /\ now = 0
  /\ slot = [s \in Slots |-> [booked |-> FALSE, hold |-> NoHold,
                              mm |-> "none", current |-> 0]]
  /\ booking = [b \in Bookings |-> Absent]
  /\ splits = [b \in Bookings |-> [f \in Friends |-> "absent"]]
  /\ ledger = [b \in Bookings |-> 0]
  /\ ticket = {}
  /\ sent = {} /\ acked = {} /\ events = {}
  /\ task = [w \in Workers |-> Idle]
  /\ reminding = {}

(***************************************************************************)
(* Time.  Without the hazard "late" the clock does not reach the end of a  *)
(* hold while a result of that booking is still to be answered: payment    *)
(* results are then timely by assumption.                                  *)
(***************************************************************************)
Timely(e) == "late" \in Hazards \/ now + 1 < Deadline(e.b)

Tick ==
  /\ now < MaxTime
  /\ \A e \in sent \ acked : Timely(e)
  /\ now' = now + 1
  /\ UNCHANGED <<rows, gateway, events, task, reminding>>
-----------------------------------------------------------------------------
(* CreateBooking.                                                          *)

Mut_HoldNotTested(sl, k) ==
  IF k = "join" THEN sl.mm = "open" /\ sl.current < MatchSize ELSE ~sl.booked

\* The admission test made on the locked row.  IsLocked is not looked at,
\* nor is the matchmaking status when the booking is not a join.
Admits(sl, k) ==
  IF k = "join" THEN sl.mm = "open" /\ sl.current < MatchSize
                ELSE ~sl.booked /\ ~Held(sl)

\* BEGIN; SELECT ... FOR UPDATE; the admission test.  The Idempotency-Key
\* lookup (and behind it the unique index) lets one booking per key through.
CreateBookingLock(w, b, s, k, F) ==
  /\ task[w] = Idle
  /\ booking[b].status = "absent"
  /\ \A v \in Workers : task[v].op = "create" => task[v].b # b
  /\ ~Locked(s)
  /\ Admits(slot[s], k)
  /\ k # "split" => F = {}
  /\ task' = [task EXCEPT ![w] =
                [op |-> "create", b |-> b, s |-> s, kind |-> k, friends |-> F,
                 sl |-> slot[s]]]
  /\ UNCHANGED <<now, rows, gateway, events, reminding>>

\* Save the slot with its hold, insert the booking and its splits, COMMIT.
CreateBookingCommit(w) ==
  LET t == task[w] IN
  /\ t.op = "create"
  /\ slot' = [slot EXCEPT ![t.s] =
                IF t.kind = "join" THEN t.sl
                ELSE [t.sl EXCEPT !.hold = now + HoldFor(t.kind)]]
  /\ booking' = [booking EXCEPT ![t.b] =
                   [Absent EXCEPT !.slot = t.s, !.kind = t.kind,
                      !.status = "pending", !.bookedAt = now,
                      !.splitStatus = IF t.kind = "split" THEN "pending"
                                                          ELSE "none"]]
  /\ splits' = [splits EXCEPT ![t.b] =
                  [f \in Friends |-> IF f \in t.friends THEN "pending"
                                                        ELSE "absent"]]
  /\ Finish(w)
  /\ UNCHANGED <<now, ledger, ticket, gateway, events, reminding>>

\* The gateway refuses the PaymentIntent: ROLLBACK.
CreateBookingRollback(w) ==
  /\ task[w].op = "create"
  /\ Finish(w)
  /\ UNCHANGED <<now, rows, gateway, events, reminding>>
-----------------------------------------------------------------------------
(* The payment gateway (external): it reports at most one success of a     *)
(* payment attempt, and no failure after it.                               *)

Produce(e) ==
  /\ e \notin sent
  /\ booking[e.b].status # "absent"
  /\ "late" \in Hazards \/ now < Deadline(e.b)
  /\ \A x \in sent : x.b = e.b /\ x.part = e.part =>
       "retry" \in Hazards /\ x.outcome = "failed"
  /\ sent' = sent \cup {e}
  /\ UNCHANGED <<now, rows, acked, events, task, reminding>>

PayInFull(b, o) ==
  /\ booking[b].kind # "split"
  /\ Produce([b |-> b, part |-> "full", outcome |-> o])

Deliverable(e) ==
  /\ e \in sent
  /\ e \in acked => "redeliver" \in Hazards
  /\ "overlap" \in Hazards \/ \A w \in Workers : ~Processing(w, e)
-----------------------------------------------------------------------------
(* HandlePaymentWebhook.                                                   *)

Mut_NeverRecorded(e) == FALSE

\* An event without an id is given a fresh one, so it is never found.
Recorded(e) == e \in events /\ "no_event_id" \notin Hazards

PaymentWebhookSkip(w, e) ==
  /\ "payment" \in Hooks
  /\ task[w] = Idle /\ Deliverable(e) /\ Recorded(e)
  /\ acked' = acked \cup {e}
  /\ UNCHANGED <<now, rows, sent, events, task, reminding>>

PaymentWebhookCheck(w, e) ==
  /\ "payment" \in Hooks
  /\ task[w] = Idle /\ Deliverable(e) /\ ~Recorded(e)
  /\ task' = [task EXCEPT ![w] = [op |-> "checked", e |-> e]]
  /\ UNCHANGED <<now, rows, gateway, events, reminding>>

\* Insert the webhook_events row, whose unique-index error is ignored, then
\* BEGIN and load the booking with its slot, without a lock.
PaymentWebhookLoad(w) ==
  LET e == task[w].e IN
  /\ task[w].op = "checked"
  /\ events' = events \cup {e}
  /\ task' = [task EXCEPT ![w] =
                [op |-> "loaded", e |-> e, bk |-> booking[e.b],
                 sl |-> slot[booking[e.b].slot]]]
  /\ UNCHANGED <<now, rows, gateway, reminding>>

Mut_SoldKeepsFree(sl, k) == [sl EXCEPT !.hold = NoHold]

\* What a full payment makes of the loaded slot row.
Sold(sl, k) ==
  CASE k = "host" -> [sl EXCEPT !.hold = NoHold, !.booked = FALSE,
                                !.mm = "open", !.current = 1]
    [] k = "join" ->
         LET n == sl.current + 1
         IN  [sl EXCEPT !.hold = NoHold, !.current = n,
                        !.booked = (n >= MatchSize),
                        !.mm = IF n >= MatchSize THEN "closed" ELSE @]
    [] OTHER -> [sl EXCEPT !.hold = NoHold, !.booked = TRUE]

\* The rows both webhooks write for a result of a full payment.
NewSlot(t) == IF t.e.outcome = "success" THEN Sold(t.sl, t.bk.kind)
                                         ELSE [t.sl EXCEPT !.hold = NoHold]
Mut_StatusCompleted(t) == [t.bk EXCEPT !.status = "completed"]
Mut_StatusKept(t) == [t.bk EXCEPT !.status =
                        IF t.e.outcome = "success" THEN @ ELSE "failed"]
NewBooking(t) == [t.bk EXCEPT !.status = IF t.e.outcome = "success"
                                         THEN "confirmed" ELSE "failed"]

Mut_TicketIfConfirmed(b) ==
  IF booking[b].status = "confirmed" THEN ticket \cup {b} ELSE ticket

\* GenerateDigitalTicket: the one ticket of the booking, made when it is
\* first asked for, whatever the status of the booking.
Ticketed(b) == ticket \cup {b}

\* A success issues the ticket on another connection, before anything of
\* the transaction is saved; when that fails, the handler goes on without.
PaymentWebhookTicket(w) ==
  LET t == task[w] IN
  /\ t.op = "loaded" /\ t.e.part = "full" /\ t.e.outcome = "success"
  /\ \/ ticket' = Ticketed(t.e.b)
     \/ "crash" \in Hazards /\ UNCHANGED ticket
  /\ task' = [task EXCEPT ![w].op = "ticketed"]
  /\ UNCHANGED <<now, slot, booking, splits, ledger, gateway, events, reminding>>

\* Save the slot, save the booking, write the ledger row, COMMIT.
PaymentWebhookCommit(w) ==
  LET t == task[w] IN
  /\ t.op \in {"loaded", "ticketed"} /\ t.e.part = "full"
  /\ t.e.outcome = "success" => t.op = "ticketed"
  /\ ~Locked(t.bk.slot)
  /\ slot' = [slot EXCEPT ![t.bk.slot] = NewSlot(t)]
  /\ booking' = [booking EXCEPT ![t.e.b] = NewBooking(t)]
  /\ ledger' = IF t.e.outcome = "success"
               THEN [ledger EXCEPT ![t.e.b] = @ + 1] ELSE ledger
  /\ acked' = acked \cup {t.e}
  /\ Finish(w)
  /\ UNCHANGED <<now, splits, ticket, sent, events, reminding>>

\* The transaction is rolled back; the webhook_events row stays, and so does
\* the ticket if it was issued.
PaymentWebhookAbort(w) ==
  /\ "crash" \in Hazards
  /\ task[w].op \in {"checked", "loaded", "ticketed"}
  /\ Finish(w)
  /\ UNCHANGED <<now, rows, gateway, events, reminding>>

\* GET /api/v1/tickets/:booking_id, open to everybody.
GetDigitalTicket(b) ==
  /\ b \in AskedFor \ ticket /\ booking[b].status # "absent"
  /\ ticket' = Ticketed(b)
  /\ UNCHANGED <<now, slot, booking, splits, ledger, gateway, events, task, reminding>>
-----------------------------------------------------------------------------
(* HandleStripeWebhook: no idempotency check, no transaction.              *)

StripeWebhookLoad(w, e) ==
  /\ "stripe" \in Hooks
  /\ task[w] = Idle /\ Deliverable(e)
  /\ task' = [task EXCEPT ![w] =
                [op |-> "stripe_loaded", e |-> e, bk |-> booking[e.b],
                 sl |-> slot[booking[e.b].slot]]]
  /\ UNCHANGED <<now, rows, gateway, events, reminding>>

StripeWebhookSaveSlot(w) ==
  LET t == task[w] IN
  /\ t.op = "stripe_loaded" /\ t.e.part = "full"
  /\ ~Locked(t.bk.slot)
  /\ slot' = [slot EXCEPT ![t.bk.slot] = NewSlot(t)]
  /\ task' = [task EXCEPT ![w].op = "stripe_saved"]
  /\ UNCHANGED <<now, booking, splits, ledger, ticket, gateway, events, reminding>>

StripeWebhookSaveBooking(w) ==
  LET t == task[w] IN
  /\ t.op = "stripe_saved" /\ t.e.part = "full"
  /\ booking' = [booking EXCEPT ![t.e.b] = NewBooking(t)]
  /\ acked' = acked \cup {t.e}
  /\ Finish(w)
  /\ UNCHANGED <<now, slot, splits, ledger, ticket, sent, events, reminding>>

StripeWebhookAbort(w) ==
  /\ "crash" \in Hazards
  /\ task[w].op \in {"stripe_loaded", "stripe_saved"}
  /\ Finish(w)
  /\ UNCHANGED <<now, rows, gateway, events, reminding>>
-----------------------------------------------------------------------------
(* processReminders: one query loads the bookings that are due, then each  *)
(* whole row is saved with ReminderSent set.                               *)

ReminderLoad ==
  /\ reminding = {}
  /\ \E due \in SUBSET {b \in Bookings : booking[b].status = "confirmed"
                                         /\ ~booking[b].reminded} :
       /\ due # {}
       /\ reminding' = {[b |-> b, bk |-> booking[b]] : b \in due}
  /\ UNCHANGED <<now, rows, gateway, events, task>>

ReminderSave ==
  \E r \in reminding :
    /\ booking' = [booking EXCEPT ![r.b] = [r.bk EXCEPT !.reminded = TRUE]]
    /\ reminding' = reminding \ {r}
    /\ UNCHANGED <<now, slot, splits, ledger, ticket, gateway, events, task>>
-----------------------------------------------------------------------------
\* Steps a request goroutine takes on its own.
Step(w) ==
  \/ CreateBookingCommit(w)
  \/ PaymentWebhookLoad(w) \/ PaymentWebhookTicket(w) \/ PaymentWebhookCommit(w)
  \/ StripeWebhookSaveSlot(w) \/ StripeWebhookSaveBooking(w)

Deliver(w, e) ==
  \/ PaymentWebhookSkip(w, e) \/ PaymentWebhookCheck(w, e)
  \/ StripeWebhookLoad(w, e)

Failure(w) ==
  \/ CreateBookingRollback(w) \/ PaymentWebhookAbort(w) \/ StripeWebhookAbort(w)

\* The clock and the customers.
Environment ==
  \/ Tick
  \/ \E b \in Bookings, o \in {"success", "failed"} : PayInFull(b, o)
  \/ \E b \in Bookings : GetDigitalTicket(b)

\* A request, a delivery or a cron run begins.
Start ==
  \/ \E w \in Workers, b \in Bookings, s \in Slots, k \in Kinds,
        F \in SUBSET Friends : CreateBookingLock(w, b, s, k, F)
  \/ \E w \in Workers, e \in sent : Deliver(w, e)
  \/ ReminderLoad

\* One that has begun goes on, or breaks off.
Continue ==
  \/ \E w \in Workers : Step(w) \/ Failure(w)
  \/ ReminderSave

Next == Environment \/ Start \/ Continue

Spec == Init /\ [][Next]_vars

(***************************************************************************)
(* A goroutine that has started goes on, and the gateway keeps delivering  *)
(* a result until it is answered.  Customers need not pay.                 *)
(***************************************************************************)
Fairness ==
  /\ \A w \in Workers : WF_vars(Step(w))
  /\ \A e \in Result : WF_vars(e \notin acked /\ \E w \in Workers : Deliver(w, e))

FairSpec == Spec /\ Fairness
-----------------------------------------------------------------------------
\* Type invariant of the tables and of the goroutines' local copies.
TypeOK ==
  /\ now \in Nat
  /\ slot \in [Slots -> SlotRow]
  /\ booking \in [Bookings -> BookingRow]
  /\ splits \in [Bookings -> [Friends -> SplitState]]
  /\ ledger \in [Bookings -> Nat]
  /\ ticket \subseteq Bookings
  /\ sent \subseteq Result /\ acked \subseteq Result /\ events \subseteq Result
  /\ task \in [Workers -> Task]
  /\ reminding \subseteq [b : Bookings, bk : BookingRow]

Confirmed(b) == booking[b].status = "confirmed"

\* Zero double-booking: two confirmed bookings of one slot exist only when
\* one of them joined the other's match.  It rests on CreateBooking's row
\* lock and hold test and on the webhook's idempotency check together.
NoDoubleBooking ==
  \A a, b \in Bookings :
    /\ a # b /\ Confirmed(a) /\ Confirmed(b)
    /\ booking[a].slot = booking[b].slot
    => "join" \in {booking[a].kind, booking[b].kind}

\* A checkout never takes a slot that is sold or under a live hold at the
\* moment its transaction commits, although it tested the row earlier.
NoHoldStolen ==
  [][\A b \in Bookings :
       LET s == booking'[b].slot IN
       /\ booking[b].status = "absent" /\ booking'[b].status = "pending"
       /\ booking'[b].kind # "join"
       => ~slot[s].booked /\ ~Held(slot[s])]_vars

\* A slot is not left free while a whole-slot booking of it is confirmed
\* (a slot whose match is open for players is "free" by design).
ConfirmedIsBooked ==
  \A b \in Bookings :
    Confirmed(b) /\ booking[b].kind = "normal" => slot[booking[b].slot].booked

\* Duplicate deliveries of one payment write one row into the ledger.
OneLedgerRow == \A b \in Bookings : ledger[b] <= 1

\* A booking confirmed by the payment webhook has its QR ticket: issued
\* outside the transaction but before it, and never by a later repetition.
\* (A ticket proves nothing: everybody can have one made for a booking of
\* any status.)
ConfirmedHasTicket == \A b \in Bookings : Confirmed(b) => b \in ticket

\* A match opened by a booking never counts more players than its host and the
\* joins that were paid: no payment is counted twice.
JoinsOf(s) == {b \in Bookings : /\ booking[b].slot = s
                                /\ booking[b].kind = "join" /\ Confirmed(b)}
NoPhantomPlayer ==
  \A s \in Slots : slot[s].mm # "none" =>
                     slot[s].current <= 1 + Cardinality(JoinsOf(s))

\* A payment that succeeded ends in a confirmed booking.
PaidIsConfirmed ==
  \A b \in Bookings :
    [b |-> b, part |-> "full", outcome |-> "success"] \in sent ~> Confirmed(b)

(***************************************************************************)
(* The abstract reservation: a checkout holds its slot while it is pending *)
(* and its hold time has not run out; a confirmed booking has bought it.   *)
(***************************************************************************)
HoldersOf(s) == {b \in Bookings : /\ booking[b].slot = s
                                  /\ booking[b].status = "pending"
                                  /\ now < Deadline(b)}
BuyersOf(s) == {b \in Bookings : booking[b].slot = s /\ Confirmed(b)}

Reserve == INSTANCE Reservation WITH
             holders <- [s \in Slots |-> HoldersOf(s)],
             buyers  <- [s \in Slots |-> BuyersOf(s)]
ImplementsReservation == Reserve!Spec
=============================================================================
