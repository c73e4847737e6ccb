# A TLA+ model of the turf booking system

This directory holds a formal model of the Go service in `src/`: modules that
translate its handlers and the pages of the React client in `src/turf-dashboard-ui`,
TLC configurations that check them on small instances, and proofs, checked by
TLAPS, of the properties that matter most.

## 1. The system

One Go process (Gin) serves REST handlers, each in its own goroutine, on one
PostgreSQL database through GORM. Four tickers start cron goroutines. An
in-process WebSocket hub broadcasts events to the React client. Stripe takes
the payments and reports results to a webhook; the React client also reports
results, to another webhook. (README.md of the repository mentions Redis; the
code does not use it.)

Three facts about the database layer shape everything:

* PostgreSQL runs at READ COMMITTED. `CreateBooking`, `VerifySplitToken` and the
  requests of matchmaking (create, join, leave, cancel) read rows with
  `SELECT ... FOR UPDATE`; webhooks, payments of matches, crons and administrators do
  not.
* GORM's `Save` writes **every** column of the row that was loaded, however
  long ago. Between load and save other transactions may commit.
* A row written by an open transaction is locked; other writers wait, readers
  see the old version.

### Inventory

| Component | State | Operations | Hard behaviour | What makes it correct |
|---|---|---|---|---|
| Slot reservation (`booking.go`) | slot rows (`is_booked`, `hold_expires_at`, matchmaking columns), booking rows, split rows | CreateBooking, CancelBooking | competing checkouts, hold expiry | one holder, one buyer |
| Payment webhooks (`webhooks.go`) | `webhook_events`, `payment_transactions` | HandlePaymentWebhook, HandleStripeWebhook, checkAndFinalizeSplit | repeated, late, concurrent, interrupted deliveries; stale full-row saves | a payment is applied once, to the booking it was for, and is not lost |
| Tickets (`ticket_service.go`, `ticket_controller.go`) | tickets | GenerateDigitalTicket, on another connection; GetDigitalTicket, for a booking of any status | may fail while the payment goes on, outlives a rollback | every confirmed booking has its ticket |
| Reminder cron | bookings in memory | load, save one by one | stale saves | changes ReminderSent only |
| Admin slot operations (`admin.go`, `pricing.go`) | slot row in memory | ForceReleaseSlot, ExtendSlotHold, ToggleSlotLock, UpdateSlotPrice | stale saves, race with the webhook | a sale survives |
| Standard expiry cron | list of slots in memory | one release transaction per slot | deadlock with webhooks, stale list | expired holds end, sales survive |
| Waitlist | waitlist rows | JoinWaitlist, notification by a release | check, time stamp and insert apart; order | first come, first served |
| Split payments (`split_payment.go`) | split rows, PaymentIntents | VerifySplitToken, paying, DeclineSplitInvite | marks of concurrent transactions, lost updates | confirmed only when paid by all; money returned otherwise |
| Split expiry cron | list of bookings in memory | expire, free slot, refund | refunds inside a transaction, stale list | refunds what was paid, frees only its own slot |
| Matchmaking (`matchmaking.go`) and its cron | matches, players, the slot's matchmaking columns | create, join, leave, cancel, pay, expire | row locks taken in two orders, unlocked payments and cron, late payments | the counter is exact, never over capacity, a settled match takes no players again, every match ends |
| Match page (`Matchmaking.jsx`) | list of cards, dialogs, terminal | the buttons, the answers | answers late, lost, out of order | who owes can pay, the terminal is for one's own place |
| Checkout pages (`App.jsx`, `LandingPage.jsx`, `CheckoutForm.jsx`, `PriceBreakdownModal.jsx`) | dialog, terminal, countdown, login | book, pay, cancel, log out, reload | the countdown races the answers; the browser itself reports payments | the last screen is true, a held slot can be paid, no terminal outlives its hold |
| Command center (`AdminDashboard.jsx`) | rows of one date, ticks, dialogs, maintenance flag | loads, orders, bulk orders, events | a handler that remembers the first date; loads that cross orders; other handlers that save old copies | the page shows the truth when it is quiet; an order reaches what was ticked |
| Event hub (`websockets/`, `useWebSocket.js`) | sequence number, ring buffer of 500, client queues | EmitEvent, broadcast, ServeWS with replay | slow clients, reconnects, restart | every client sees every event once, in order |
| Pricing engine and rules (`pricing_engine.go`, `pricing_rules_controller.go`, `weather.go`) | rules, multiplier, base prices, weather | EvaluateSlotPricing, create, toggle, set | rule ties, inputs that change during an evaluation, pile-up, rounding | price within its bounds, and what the hierarchy says |
| Maintenance mode | a setting | switch, `MaintenanceCheck` | requests already admitted | the page knows the switch |
| Coupons, login, analytics, audit log, stress test, event bus, booking history | | | | not modelled; `PROJECT.json` has the reason of each |

Interaction: handlers, webhooks and crons share the database rows and nothing
else; the hub is called from handlers (mostly in a goroutine of its own). The
webhook calls `ProcessMatchPayment` of matchmaking in its transaction. The pages
send requests and act on their answers; there is no other channel to them that
works, except the command center's events: the sockets of the other pages wait
for messages with a field `event`, and the hub sends none.

## 2. Modules

| Module | Models |
|---|---|
| `Reservation` | the promise: a slot is free, held by one checkout, or sold to one booking |
| `Checkout` | CreateBooking, the gateway, both webhooks for full payments, tickets, ledger, reminder cron |
| `CheckoutInv` | the inductive invariants of `Checkout` |
| `CheckoutProofs` | theorems about `Checkout`, for every value of the constants |
| `HoldRelease` | `Checkout` composed with admin slot operations, the standard expiry cron and the waitlist |
| `HoldReleaseProofs` | theorems about `HoldRelease` |
| `SplitCheckout` | `Checkout` composed with split payments, cancellation and the split expiry cron |
| `SplitProofs` | theorems about `SplitCheckout` |
| `EventStream` | the hub, the replay store, a `WritePump` and a `ReadPump` per connection, and the event hook of the browser |
| `EventStreamProofs` | theorems about `EventStream` |
| `Matchmaking` | CreateMatch, JoinMatch, LeaveMatch, CancelMatch, AdminCancelMatch, ProcessMatchPayment and the matchmaking cron |
| `MatchmakingInv` | the inductive invariants of `Matchmaking` |
| `MatchBoard` | the match page of one browser composed with `Matchmaking` |
| `MatchProofs` | theorems about `Matchmaking` and `MatchBoard` |
| `CheckoutScreen` | the checkout pages of one browser composed with `SplitCheckout` |
| `CheckoutScreenProofs` | theorems about `CheckoutScreen` |
| `AdminScreen` | the command center of one browser, the rows its orders write, and the customers, other administrators and handlers that save old copies of them |
| `AdminScreenProofs` | theorems about `AdminScreen` |
| `Pricing` | the yield engine and the orders that change what it reads |
| `PricingReference` | what the engine promises, said without its loop |
| `PricingProofs` | theorems about `Pricing` and its reference |
| `MC...` | instances for TLC |

`CheckoutScreen` extends `SplitCheckout`, which extends `Checkout`; `HoldRelease`
extends `Checkout`; `MatchBoard` extends `Matchmaking`. The pages therefore run on
the real steps of the server, not on an idea of it. `AdminScreen` has a server of
its own, because the pages it serves change columns the others leave out.

### How the code becomes actions

* **A request goroutine** is a member of `Workers`; `task[w]` is what it has in
  its local variables. A handler that loads rows and saves them later is one
  action for the load (`PaymentWebhookLoad`), which copies the rows into the
  task, and one for the save (`PaymentWebhookCommit`), which writes the copies
  back. Everything may happen in between. A transaction that only writes at its
  end is one action.
* **`SELECT ... FOR UPDATE`** is `CreateBookingLock`; until the commit or the
  rollback, `Locked(s)` keeps every other writer of the slot row waiting.
* **A row written by an open transaction** is locked too: `BookingLocked` in
  `HoldRelease` (the cancelling UPDATE of a release), `ShareLocked` in
  `SplitCheckout` (a share or a host's payment marked but not committed).
  Where the transaction's view of the rows matters (which shares are paid), what
  it has read is kept in the model (`seen`).
* **HandleStripeWebhook** uses no transaction: each write is an action.
* **The ticket** of a payment is written on another connection before the booking is
  saved, so it is an action before the commit (`PaymentWebhookTicket`), which may
  fail (`crash`) without stopping the handler. `GetDigitalTicket` issues one at any time.
* **JoinWaitlist** is three steps: the check, the time stamp, the insert
  (`JoinWaitlistCheck`, `JoinWaitlistStamp`, `JoinWaitlistCreate`).
* **The gateway** is external. `Produce` reports at most one success per payment
  attempt and no failure after it; `Deliver` hands a result to one of the
  webhooks in use. What it may do beyond that is the constant `Hazards`.
* **Time** is a bounded clock. A hold is the time it ends, NULL is 0. Seconds
  and minutes are abstracted: `HoldTime` and `SplitHoldTime` stand for 10 and 30
  minutes, `MatchHold` for a match's registration end.
* **The hub** is one goroutine, so each of its cases is one action (`Register`,
  `Unregister`, `Broadcast`), the online count it pushes included. An event is its
  sequence number; `ring`, `queue` and `wire` are the ring buffer, the `Send`
  channels and the frames on the way. A replay request is answered
  (`ReplayAnswer`) and applied (`ReplayApply`) later, as `fetch` is awaited.
* **A transaction of matchmaking** is a load (`Begin...`) and a commit; the
  locks it takes are predicates on the tasks (`MatchLocked`, `SlotLocked`). A payment
  reads the player without a lock, saves it later, and commits after that: three
  steps. When two transactions wait for each other, `DeadlockVictim` rolls one of them
  back; refunds it has already asked Stripe for are not undone.
* **A call of a page** is sent, handled by the server and answered in three
  steps; what the handler in the browser closes over when it is called (the date, the
  filter, the booking) is kept in the call. A call may be lost before or after it is
  handled. `Troubles` (or `troubles`) counts what is lost; the promises that cannot
  survive a lost call say so in their premise.
* **What a user does** beyond what the page asks for is the constant `Habits`.
* **An evaluation of a price** reads its inputs in four steps (start, one per
  rule, built-in rules, the rest), because others write them meanwhile. Base prices
  are in paise, multipliers in units of `1/One`, and the product is kept as an exact
  fraction. The code multiplies `float64`: what it may compute is any value less than
  `1/Accuracy` of a paisa from the exact product, so a price is any rounding of
  one of these (`Charged`), and a tie may go either way. A price on a tie therefore
  differs with the order of the factors, as in the code.
* Prices (except in `Pricing`), users, names, messages and broadcasts are left out. One booking id
  stands for one Idempotency-Key; repeating a key is the guard
  `status = "absent"`, and the unique index behind the lookup is the guard on
  the other workers' tasks.

`Hazards` is how each property is given the environment it needs and no better:

| Hazard | Meaning |
|---|---|
| `late` | a result is reported after the hold has run out |
| `retry` | a failed and a later successful attempt of one booking are both reported |
| `redeliver` | an answered result is delivered again |
| `overlap` | two deliveries of one result are processed at once |
| `no_event_id` | results carry no `event_id`, as those the UI posts |
| `crash` | processing stops half-way and its transaction is rolled back |

`Matchmaking` has hazards of its own (`overlap`: cron and requests at the same
time; `late`: a player pays after having left or when the match is settled, or leaves
while the payment is being handled; `redeliver`). `AskedFor` bounds the
bookings for which somebody asks for a ticket. The pages have habits:

| Habit | Meaning |
|---|---|
| `impatient` (`CheckoutScreen`, `AdminScreen`) | clicks on while a call is under way |
| `slow` (`CheckoutScreen`) | is still paying when the hold ends |
| `lag`, `reorder` (`AdminScreen`) | an event comes after the answer to its order; the answers of two loads are swapped |

## 3. Runs

Every run but `pricing` sets `CHECK_DEADLOCK FALSE`: the clock, the bookings and the
clicks are bounded, so each model comes to rest when they are used up. Liveness
runs use no symmetry.

| Run | Instance | Shows |
|---|---|---|
| `checkout_safe` | 1 slot, 3 ordinary bookings, 2 goroutines; redeliveries; fairness | `NoDoubleBooking`, `ConfirmedIsBooked`; every confirmed booking has its ticket; `BookingInv` is an invariant; the code implements `Reservation`; a paid booking is confirmed |
| `checkout_hostile` | 1 slot, 2 bookings, ordinary or split, 2 goroutines, both webhooks; late, repeated, crashes | types; one ledger row per payment; no checkout takes a held slot |
| `hold_release` | 1 slot sold to a match, 1 checkout, 1 admin request, the cron, 2 users who join the waitlist at the same time; crashes; fairness | a confirmed booking stays confirmed; the waitlist is served in the order of joining and insertion; an expired slot is freed |
| `split_safety` | 1 booking, split between a host and a friend or not, 2 goroutines, both webhooks, decline, cancel, expiry; late, crashes | confirmed only when all have paid |
| `split_refund` | 1 split booking with up to 2 friends, 1 goroutine; redeliveries; fairness | money is returned, or the booking is confirmed, and never both |
| `match_race` | 1 slot, 1 match of 2 places, 3 users, 2 goroutines, the cron, an administrator, 1 buyer of the whole slot; overlap; fairness | types; the counter is exact; never over capacity; a settled match takes no players again; every match is settled |
| `match_board` | the page of 1 of 2 users, 2 calls under way, 1 list request, 2 filters, 1 call lost or reload; late and repeated payments | who owes for the only match can pay, unless something was lost; no form is submitted twice; the terminal is for the user's own place |
| `checkout_screen` | 3 bookings of 1 slot, 2 of them of this browser, all four kinds, both terminals, 2 calls under way, 1 call lost, refused or reload; fairness | types; the last screen is true; a held slot can be paid; what is paid stays confirmed; no player of a match counted twice; no terminal outlives its hold |
| `screen_timer` | 3 bookings, 1 of this browser; nothing is lost | **violated**: `NoDoubleBooking`, the countdown of one customer ends the hold of another |
| `admin_screen` | 2 slots of 2 dates, 1 of them generated, 1 order and 2 loads under way, 3 orders, requests of others, saves of old copies or mishaps | when nothing is under way the page is true of every slot nobody changed without telling it; a bulk price reaches what was ticked |
| `events_hub` | 1 browser, 2 connections one after another, queues of 2, a ring buffer of 1, 2 events per server run, restarts; fairness | types; all events or dropped; once and in order; replays complete; a dropped client is told |
| `pricing` | 1 weekend slot, 5 rules (a hierarchy of 2 that replaces a built-in step, a last minute and an early bird that may fit at once, one that is refused), base prices of 90 paise and one that is not positive, multipliers of 1.0, 1.5 and one that is refused, prices for the date of the slot or of today, 1 request after another, restarts | types; the price is within its bounds, and what the hierarchy says |

### Why the bounds are enough

Every operation touches one slot and the bookings of that slot, so one slot
shows all conflicts. Two bookings are a conflict; three allow a sale to be
undone and the slot sold again. Two goroutines are enough for every race the
code has (one that loads, one that saves in between); one is used where the
question is about the order of whole operations. The clock runs to the first
moment after the longest hold that matters. `MaxHold` bounds extensions,
`MaxWait` waitlist entries per slot, `MaxCopies` concurrent declines and
cancellations. In `EventStream` browsers do not affect each other except through
queues of their own, so one browser is enough; two connections are one loss and one
return; two events overflow the ring buffer, and with the online counts also the
queue. `MaxReplays` bounds the replays a tab wake adds to those of a reconnect.

A match of two places with three users has a last place two users want, and a
player more than it takes. Two goroutines and the cron are the two transactions of
every deadlock and a third that interferes. For a page, two calls under way are what
two clicks can have; one trouble is enough to lose the answer a screen depends on.
In `AdminScreen` two dates of one slot each are the least on which a load of
the wrong date can be seen; three acts are an order, another one that crosses its
answer, and a booking or a mishap. In `Pricing` slots do not affect each other
except through what all evaluations read, so one slot is enough for the bounds; the
theorems cover the rest. Larger instances are out of reach of a run of minutes.

### Fairness, and why the code justifies it

* A goroutine that has loaded its rows goes on (`WF` of its step): goroutines
  are scheduled, and PostgreSQL grants row locks in the order of the queue.
* The gateway delivers a result until it is answered (`WF` of delivery): Stripe
  retries on anything but a 2xx answer.
* Cron tickers fire for ever (`WF` of the load). Their transactions may fail,
  for one as deadlock victims: the release locks bookings before the slot and the
  webhook the slot before the booking. `SF` of the commit says that this does
  not happen every single time.
* The clock advances (`WF` of `Tick`), in `SplitCheckout` only.
* In `EventStream` the pumps run and a browser handles the frames it has (`WF`);
  a write that blocks fails after 10 s and closes the connection. The network,
  replays and tab wakes are not obliged to anything.
* In `Matchmaking` the cron fires and PostgreSQL finds a deadlock (`WF`), and a
  goroutine or the cron commits in the end (`SF`): they may wait for locks and be
  deadlock victims, but not every time.
* In `CheckoutScreen` the clock advances and the countdown of an open page fires (`WF`
  of `TimerExpires`), a call is answered or fails, and the server's goroutines go on.
* Customers are never obliged to do anything.

## 4. What does not hold

The violation run `screen_timer` is a counterexample to what README.md of the
repository says. Others were found the same way and are described here; each is
reproduced by changing the named constants of a passing run and checking the
property named.

### The server

| Change | Violated | What happens |
|---|---|---|
| `checkout_safe` with `late` (2 bookings, 1 goroutine suffice) | `NoDoubleBooking` | a success that comes after the hold ran out is applied without a look at the hold (`webhooks.go:298`), when another customer has taken the slot and paid |
| `checkout_safe` with `retry` | `NoDoubleBooking` | the failure frees the slot, another customer takes it, the retried success confirms anyway |
| `checkout_safe` and `checkout_hostile` with `overlap`, or `no_event_id` | `NoDoubleBooking` and `OneLedgerRow` | the second application of a result saves stale rows and a second ledger row; the UI posts results without `event_id`, so its repeated posts are all applied |
| `checkout_safe` with `Hooks = {"stripe"}` | `NoDoubleBooking` | `HandleStripeWebhook` never looks for duplicates: a failure delivered again frees the hold of the next customer |
| `checkout_safe` with `Kinds = {"normal", "host"}` | `NoDoubleBooking` | a slot whose match is open for players is neither booked nor held, and a customer can buy the whole slot |
| `checkout_safe` with `crash` | `PaidIsConfirmed` | the event row is committed before the transaction that processes it; when that one is rolled back, the redelivery is skipped as a duplicate |
| the same | `ConfirmedHasTicket` | when issuing the ticket fails, the webhook goes on (`webhooks.go:328`): the booking is confirmed without one, until somebody asks for it |
| `hold_release`, without the part `i < j` of the property | `NotifiedInOrder` | two customers join at once; the later time stamp (`waitlist_controller.go:47`) is inserted first (`:50`), and a release in between notifies it first |
| `hold_release` with `Hazards = {}`, `AdminOps = {"edit"}`, `Users = {}`, `MatchSlots = {}`, `HoldTime = 2`, `MaxTime = 3` | `NoDoubleBooking` | an admin edit (`pricing.go:340`) that loaded the slot before a checkout is saved after the sale and wipes it out |
| `split_refund` with 2 goroutines, 1 friend, no hazard, `SplitHoldTime = 1`, `MaxTime = 2` | `MoneyIsReturned` | the webhook of a friend saves the booking as it loaded it (`webhooks.go:369`) and forgets that the host has paid; README.md:15 promises "funds are automatically returned" |
| `split_refund` with 3 bookings of kinds `normal` and `split`, no hazard, `SplitHoldTime = 1` | `NoDoubleBooking` | the split cron (`split_expiry.go:62`) frees a slot that another customer has taken since the hold ended |
| `split_refund` with `SplitOps = {"cancel"}` | `MoneyIsReturned` | a friend who pays while or after the host cancels is not refunded |
| the same | `RefundedIsNotConfirmed` | a cancellation that is rolled back after its refunds leaves a booking that is confirmed on returned money |
| `split_refund` with `SplitOps = {"decline"}` | `MoneyIsReturned` | a decline that was loaded before the friend's payment is saved after it, and the cron refunds paid shares only |
| `match_race` with `Hazards = {}` | `ConfirmedIsPaid` | the cron confirms a full match (`matchmaking_expiry.go:52`) of which nobody has paid |
| the same | `NoDoubleBooking` | the cron frees the slot of an expired match (`:97`) whoever has bought it |
| `match_race` with `late` | `CountIsExact` | a payment reads its player (`matchmaking.go:596`), the player leaves, and the payment saves the whole row as paid (`:602`): a player who has paid and is not counted; the same when the payment comes after the leave |
| the same | `NeverOverfull` | a third user has joined meanwhile: more players than places |
| `match_race` as it is | `RefundedIsOut` | a leave or a cancellation asks Stripe for the refund (`matchmaking.go:404`, `:523`) before the write that deadlocks with a payment or an administrator; it is rolled back, and the player has the money back and is still paid |
| the same | `NoMoneyLost` | a cancellation works on players it loaded earlier, and a payment that is the victim of a deadlock has been answered with 200: the player is out and the money is kept |
| `events_hub` with `RingSize = 3`, `MaxEvents = 3`, `Restarts = FALSE` | `NeverMisses` | an event broadcast after the replay was answered but before the hub has registered the socket, or older than one that came over the socket (`useWebSocket.js:111`), is never shown; README.md:33: "clients never miss state events" |

`NeverMisses` fails in more ways: two queued messages become one frame that is not
JSON; with `RingSize = 1` the buffer has lost what a replay needs; with
`Restarts = TRUE` a browser ignores all events up to the number it remembers (it
has then applied none, so this one is outside `NeverMisses`).

### The pages

| Change | Violated | What happens |
|---|---|---|
| `match_board` with 2 matches and 2 slots, without the condition that it is the user's only match | `UnpaidCanPay` | the page has one terminal: the answer about a second match, or the payment of it, replaces or closes the terminal of the first (`Matchmaking.jsx:128`, `:157`, `:227`), and its place stays unpaid |
| `match_board` with `Users = {me, u2, u3}`, `Troubles = 0` | `NeverOverfull` | the answer to a join opens the terminal after the player has left again; the terminal cannot be closed, and paying makes one player more than there are places |
| `checkout_screen` with `Habits = {"impatient"}`, and the premise `Smooth` without the habits | `ScreenIsTrue` | a second click on Pay races the first one: "Booking Confirmed!" of a booking that is not |
| `checkout_screen` with `Habits = {"slow"}`, likewise | `ScreenIsTrue` | the countdown fails the booking while the payment is on its way |
| `checkout_screen`, with troubles not excluded by `Smooth` | `ScreenIsTrue`, `PaidStaysConfirmed`, `NoPaidPlayerTwice` | the split screen ticks off the host although the call was lost; after the answer to a payment is lost, the countdown un-confirms a paid booking, or the customer pays again and counts as two players of the match |
| `admin_screen` with `Habits = {"impatient"}` | `PricedIsMeant` | the price dialog is opened while a Freeze is under way; its answer clears the ticks, the list of ids is empty, and the whole date is repriced (`admin_center_controller.go:267`) |
| `admin_screen` with `lag`, or with `reorder` | `ConsoleIsTrue` | an old event, or the answer of an older load, overwrites newer rows |
| `admin_screen`, without the exception `silent` | `ConsoleIsTrue` | a webhook that loaded the slot before a freeze saves every column after it (`webhooks.go:257`, `:365`), so the freeze is undone, and its event (`:319`) names no lock; the cron and a cancellation do the same; another administrator's bulk lock sends an event without a slot (`admin_center_controller.go:316`), which the page ignores |

Also visible in the models, without a property of their own:

* two concurrent join payments count one player; joins by booking reserve no seat,
  so such a match can end up over its size; a stale admin edit can leave a slot booked for
  ever, with no hold and no owner; two friends who pay at the same time leave a
  fully paid split unconfirmed until it expires; the standard expiry cron asks for
  `is_booked = true` and so never cleans up an ordinary hold; `JoinWaitlist` refuses
  held slots, the ones it is meant for, because a held slot is not booked;
* a cancelled player can never join the match again, and a refunded one is shown as
  "Joined"; a lost answer to a join leaves no way to pay for the place; two quick joins
  overwrite the one payment dialog;
* cancelling a split on the host's terminal says "Payment Failed. Slot Released."
  (`App.jsx:209`) although the slot is held until the split expires; a terminal
  whose call was under way at a logout opens after another login;
* events make the command center load the date it was opened with and show those slots
  under the date selected since (`AdminDashboard.jsx:291`); the locking of a slot by
  another administrator between load and save is lost (`pricing.go:131`);
  `CreateBooking` never looks at `is_locked`; maintenance mode admits bookings under
  way, and also keeps customers from cancelling; BOOKING_CREATED is
  emitted before its transaction commits (`booking.go:217`); the dialog the pencil
  of a row should open is never rendered;
* a ticket exists for any booking somebody has asked for (`ticket_controller.go:24`), and for one whose
  payment was rolled back after the ticket was issued: having a ticket proves nothing;
* the price is rounded after floor and ceiling (`pricing_engine.go:228`): a base price of 100.90 is charged at 50,
  under the floor of 50.45, one of 100.50 at 302, over the ceiling of 301.50, one of 0.40 at 0. And `float64` decides
  ties: 1.3, 0.7 and 1.5 on 100 give 136 in one order of the factors and 137 in another, so the price depends on
  the order in which rules of equal priority are loaded;
* "Sort rules deterministically" (`pricing_engine.go:57`) does not: rules of one type and one
  priority may come in any order, which is why `PriceIsReference` asks for
  `Settled`; the price a customer was shown is not locked, since `CreateBooking` evaluates
  again (README.md:23 speaks of locked checkout prices); the global multiplier is lost
  at a restart.

## 5. Proofs

### Checkout

`CheckoutProofs` proves for any sets of slots, bookings, goroutines and friends
and any hold times, from `CheckoutAssumption` (ranges of the constants) alone:

| Theorem | Property | Environment |
|---|---|---|
| `TypeCorrect` | `TypeOK` | any |
| `HoldIsNotStolen` | `NoHoldStolen` | any |
| `LedgerIsOnce` | `OneLedgerRow` | results carry event ids and are not delivered twice at once (no `overlap`, no `no_event_id`); either webhook |
| `ConfirmedIsTicketed` | `ConfirmedHasTicket` | only `HandlePaymentWebhook`, and nothing breaks off half-way (no `crash`); late, repeated, contradictory and overlapping deliveries are in |
| `BookingInvariant` | `BookingInv` | `CarefulGateway` |
| `ZeroDoubleBooking` | `NoDoubleBooking` | `CarefulGateway` |
| `ConfirmedStaysBooked` | `ConfirmedIsBooked` | `CarefulGateway` |
| `CheckoutImplementsReservation` | `ImplementsReservation` | `CarefulGateway` |

The exact hypotheses are in the statements. `CarefulGateway` (ordinary bookings, `HandlePaymentWebhook`,
`Hazards \subseteq {"redeliver", "crash"}`) is the weakest environment found in
which the properties hold: section 4 shows that they fail as soon as it is left.

The argument goes in layers, each an inductive invariant of `CheckoutInv`:

1. `TypeInv` is `TypeOK` with `ForeignKeys`. Types alone are not inductive,
   because a webhook looks up the slot of the booking of a result.
2. `LockInv` adds that the slot a `CreateBooking` works on is still what it
   locked (`CopyIsCurrent`) and that nobody else is between lock and commit on
   it (`LockIsExclusive`). `NoHoldStolen` follows for the commit step: what was
   tested under the lock is still true.
3. `LedgerInv` adds that a recorded event has at most one goroutine and that the
   ledger row is written by the one that finishes it.
4. `BookingInv` relates the rows to each other: a live checkout's hold *is* the
   row's hold, a confirmed booking is alone and marks the row, and a webhook
   that has loaded rows finds them unchanged at its commit, since its booking is
   pending, its hold live, and the lock and the hold keep everyone else away.
   This last point is why full-row saves do no harm in the careful environment.
   The refinement uses the same invariant: a commit of CreateBooking is `Hold`, a
   success `Sell`, a failure or the end of a hold `Release`, everything else a
   stutter.

TLC checks `BookingInv`, which contains `LockInv`, in `checkout_safe`; the run has no
crashes, the theorems have them.

### Waitlist, releases and the expiry cron

`HoldReleaseProofs` proves, for any constants again:

| Theorem | Property | Environment |
|---|---|---|
| `WaitlistTypeCorrect` | `HTypeOK` | any |
| `HoldIsNotStolenMeanwhile` | `NoHoldStolen` | any |
| `FirstComeFirstServed` | `NotifiedInOrder` | any |
| `SaleIsFinal` | `ConfirmedIsFinal` | one result per booking (no `retry`) |
| `LedgerIsOnceMeanwhile` | `OneLedgerRow` | no `overlap`, no `no_event_id` |

`HStepCases` says what a step of `HoldRelease` is to the checkout: a step of `Checkout`, for
which the lemmas of `CheckoutProofs` answer, or nothing, or one save of a row that an
administrator or the cron loaded at any time before (`SavesRow`). Such a save waits for
the row lock, so what `CreateBooking` tested under the lock stands (`HLockInv`).
It cancels bookings that were pending when the UPDATE ran, and the
invariant says that they still are when the transaction commits, since their rows are
locked between the two (`BatchesArePending`, `BatchesAreApart`); this, and that a
confirmed booking has no result to come, gives `SaleIsFinal`. For the waitlist
`NotifiedAreFirst` says that whoever is both earlier by `created_at` and inserted
before somebody who was notified was notified too. A release notifies the one with the
smallest `created_at` of those who wait at its commit, so several releases at once skip nobody; a row
inserted later, with an earlier time, is the case the property leaves out.

### Split payments

`SplitProofs` proves:

| Theorem | Property | Environment |
|---|---|---|
| `SplitTypeCorrect` | `STypeOK` | any |
| `HoldIsNotStolenBySplits` | `NoHoldStolen` | any |
| `ConfirmedSplitsArePaid` | `ConfirmedSplitIsPaid` | any |
| `RefundedSplitsStayClosed` | `RefundedIsNotConfirmed` | `CarefulSplits` |

1. `SInv` is `STypeOK` and `LockInv` with what the copies refer to: a goroutine that
   holds a share's row holds one of a share that exists.
2. `BillInv` gives `ConfirmedSplitIsPaid`. Webhooks, cancellations, the reminder and
   the expiry cron save whole booking rows that they loaded earlier, so
   the statement about the booking row cannot be kept without the same statement about
   every copy in flight: `RowsAreGood` says that each row, saved or about to be saved, is
   confirmed only if all of its shares are marked paid, and `SharesPaid` and
   `SeenPaid` that a mark, also one that a goroutine remembers, stands for
   a successful payment at the gateway. Payments are never undone, so
   goodness of an old copy does not expire.
3. `RefundInv` gives `RefundedIsNotConfirmed`. `TimeInv`: results come before the deadline
   and the webhook of a result that was not acknowledged is the only one to use it;
   so no payment of a booking is under way once its deadline has passed.
   `ClearInv`: a row says confirmed, and a share paid, only when the results of the booking are
   answered. `CopiesLapsed` and `RefundsLapsed`: what the cron has
   loaded, and what was refunded, is past its deadline and not confirmed. `RemindersStand`:
   the copies of the reminder, which are saved in full and may be old, still tell the status.

`CarefulSplits` asks for what step 3 uses: the one webhook that keeps events once
(`Hooks = {"payment"}`), redeliveries and crashes but nothing late, overlapping or
retried, and no cancellation. TLC finds `RefundedIsNotConfirmed` violated when any one of these
is dropped (one booking, two goroutines, one friend are enough): a
cancellation, or a result that is on its way when the deadline passes, pays back a booking that a
webhook with an earlier copy then confirms.

### Event stream

`EventStreamProofs` proves, for any browsers and connections, and any
lengths of the ring buffer and of the queues (`EventStreamAssumption`), `ETypeOK`
(`StreamTypeCorrect`), `OnceInOrder` (`EventsOnceInOrder`), `ReplayIsComplete`
(`ReplaysAreComplete`) and `AllOrDropped` (`HubDeliversOrDrops`), under every
hazard of the model. `EInv` ties the three places that number events together: the ring
buffer holds the newest events without a gap (`RingIsNewest`), the answer to a replay is what
followed the number the browser asked with (`AnswersFollow`), and that number is the newest the
browser has applied (`LastIsNewest`). `DeliveryInv` adds for a connection that what is in its
queue and in its frames, together with what waits in the hub, is every event
since its registration (`HubDelivers`), as long as the hub has not closed it for being slow.

### Matchmaking

`MatchProofs` proves, for any sets of slots, matches, users and goroutines and
any size of a match, `MTypeOK` (`MatchTypes`), `CountIsExact` (`CountHolds`),
`NeverOverfull` (`PlacesHold`), `OneMatchPerSlot` (`SlotsHold`) and `SettledIsFinal`
(`SettledHolds`), from `MatchmakingAssumption` and `InTime` (no `late`): players do not pay
after they have left or their match is settled, and nobody leaves while the own payment is
being handled. This is an assumption about users and their browsers; nothing in the code ensures it, and
section 4 shows that without it the counter and the number of players are wrong. Overlap, redeliveries,
deadlocks and stale copies are all in.

The invariant `MatchInv` says of every transaction under way what of its copies is
still true. A request that locked the match row finds it unchanged at its commit; a
payment reads its player without a lock and marks it later: in time means that the player
had a place when it began, and keeps it until the payment ends or the match is
settled (`TxInv`, `LocksInv`). The cron and an administrator save copies that may be stale in everything but slot
and creator, which is why `CountIsExact` speaks of matches that still take players. `RoomInv`
counts the players together with those whose payment is being handled, because such a payment may
bring back a player whom the settling of the match has taken out; it gives `NeverOverfull`. `SettledIsFinal` is an action property
and follows step by step from `MatchInv` (`SettledStays`). The steps about the counter rest
on a few lemmas about the number of active players when one of them changes, proved
from the library's facts about cardinality. No theorem says where the money is: deadlocks
separate it from the rows (section 4).

### Match page

`MatchProofs` also proves, for any sets of slots, matches, users, goroutines, calls,
list requests and filters (`MatchmakingAssumption`, `MatchBoardAssumption`), `BTypeOK`
(`BoardTypeCorrect`), `TerminalIsMine` (`TerminalsAreMine`), `SubmittedOnce`
(`FormsAreSentOnce`) and `UnpaidCanPay` (`OnlyMatchCanBePaid`). Unlike the theorems
about the counter they need no `InTime`: they hold when payments are late, because the
page relies on less than `MatchInv`. Transactions that overlap are excluded, by
`MatchBoardAssumption`, as in the run. `PlacesInv`
says that much: rows of matches and players are never deleted, the match a
transaction creates does not exist yet, and a player who joins has no row yet.
`KeepsPlaces` says it of every step of the server: nobody becomes "joined" but through a
transaction that took the place. On top, `BoardInv` relates the two sides: every
request of this user that takes a place is the one of a call under way
(`CallsServed`); an answer "ok" that opens the terminal is about a place that was
taken (`AnswersTrue`); and the button of the form is disabled as long as a form
is under way (`FormIsSent`). The run has one match; the theorem about paying
speaks of any number, of which the user has a place in one.

### Checkout pages

`CheckoutScreenProofs` proves, for any sets of slots, bookings, own bookings, goroutines, calls
and friends (`CheckoutScreenAssumption` and those of the server):

| Theorem | Property | Environment |
|---|---|---|
| `ScreenTypes` | `UTypeOK` | any |
| `ScreenTellsTruth` | `ScreenIsTrue` | any; the property itself speaks of a patient user in time who has lost no call (`Smooth`) |
| `HeldCanBePaid` | `HeldCanPay` | the same |
| `PaidStays` | `PaidStaysConfirmed` | the same |
| `NoPlayerCountedTwice` | `NoPaidPlayerTwice` | the same, finitely many bookings, and the other customers do not pay again after a failure (no `retry`) |

1. `UInv` is `UTypeOK` with `BillInv` of the server and what ties the two sides together: a goroutine
   at work on a booking of this browser has exactly one call (`CallsAreGood`, `OneCallEach`, `TasksAreGood`),
   the dialogs are about bookings that exist, and a booking paid in full is confirmed
   only if its success was reported (`FullPaid`).
2. `SmoothInv` adds `Smooth => Fits`. A call may be lost at any moment, after which none of the
   properties is promised, so the invariant has to carry the premise. `Fits` says of every call under
   way what the page and the rows look like meanwhile: a confirmation that is on its way is
   about the booking whose dialog is open (`ModalFits`), a booking of the user that is
   pending has the terminal or a call that leads to it (`HeldFits`), a
   payment that is being posted was charged before the deadline and is the only one
   of its booking. What the server does to bookings of other customers is bounded by a few
   lemmas on each of its actions, since it changes the bookings of this user only for a call.
3. `PlayersInv` adds for the other customers that each has one result, and only one
   goroutine has it (`OthersServed`, `OtherResults`), and counts players by bookings: the counter of a
   slot is at most the number of confirmed joins plus the host (`SlotCounts`), and so
   is that of every copy about to be saved, without the booking this save is going to count (`CopyCounts`). A save of
   an old copy loses players of others, which keeps the bound. With `retry` TLC finds the property violated: a failure
   that is delivered after the success takes the booking of a counted player back.

While proving this, a step of the model turned out to be wrong for more than one goroutine
and has been corrected: with `overlap` a second goroutine could pick up a result
of another customer although the environment is said to post results once.

### Command center

`AdminScreenProofs` proves, for any slots and dates and any bounds on orders, loads and mishaps
(`AdminScreenAssumption`):

| Theorem | Property | Environment |
|---|---|---|
| `ConsoleTypes` | `ATypeOK` (no run checks it by itself) | any |
| `OnlyMeantGetPrice` | `PricedIsMeant` | an administrator who waits for answers (no `impatient`); lost calls, `lag` and `reorder` are in |
| `ConsoleTellsTruth` | `ConsoleIsTrue` | no `lag`, no `reorder`; impatient and other administrators, and handlers that save old copies, are in |

For prices, the invariant `Prices` says that an open dialog means that no other order is under way, so that
what is ticked changes only when the dialog closes. For the page, `Console` accounts, slot by slot, for every difference between a row
and what the page shows of it (`SlotTold`, `StatusTold`): an answer of an order whose load is still to
come, a load that is younger and will bring the row (`RowTold`), an event that is on its way and patches it in (`PatchTold`), or that
the slot is `silent`. When nothing of this is left (`Quiet`), there is no difference but for the silent slots.
The history variable `silent` holds the slots whose lock or price somebody changed without an event the page
can use, from the change until rows read later are shown; rows read before it and not yet shown carry the slot in `stale`.

### Pricing

`PricingProofs` proves, for any slots, rule types, proposals, prices and
multipliers (`PricingAssumption`), `PTypeOK` (`PricingTypes`), `PriceInBounds`
(`BoundsHold`) and `PriceIsReference` (`PriceFollowsHierarchy`).

For the first two: the multipliers that reach the product are positive, whatever
is submitted, because the engine replaces those that are not; so the product is a positive
fraction at every step. And `ChargedBounds` says what clamping and then rounding such
a fraction give: half of the base price or more and three times of it or less, give or take the half
rupee of the rounding. It rests on lemmas about division, since the provers know
little of products of two variables. Nothing is said of prices between the rounded and the exact bound: section 4
shows that the code does leave the exact one.

For the third, the invariant `HierarchyInv` explains every evaluation under way (`Explained`): in the loop
(`LoopFits`), the rules seen so far come before those to come, a type that has counted has done so with the rule of
highest priority that fits, one that has not has its candidates still ahead, and the fraction is the
product of what has counted; then (`BuiltInFits`) the built-in steps have filled in the types without a rule.
Each step multiplies by one more factor (`OneMore`), and the reference multiplies in an order of its own:
the exact products are equal, and both prices are roundings of it within the accuracy of `float64`. So the
theorem leaves a choice on a tie, where the code's price depends on the order of the factors. The proof needs that a product over a set may be taken in any order (`ProductWithout`). This is an induction over
sets. The theorems of induction in the library take a predicate as a parameter, which the provers
cannot instantiate; `WFMin` takes a set, so `SmallestSet` gives the smallest set among
those for which the claim fails, and each induction is a proof that there is none. `FoldsAgree`
and `FoldExists` justify the recursive function behind the fold the same way. The engine
skips factors of one, and so does the reference (`Weighty`, `Neutral`).

### Only model-checked

The liveness properties (`PaidIsConfirmed`, `ExpiredIsFreed`, `MoneyIsReturned`, `DroppedIsTold`,
`MatchIsSettled`, `TerminalCloses`), since TLAPS has no rule for fairness and ENABLED. Every invariant
and every action property that a passing run checks is also a theorem, in an environment that
contains the run's.

## 6. Not modelled

* A split booking that also opens or joins a match, which the UI can ask for:
  `kind` is one of the four.
* Refunds the gateway refuses: the code logs them and goes on, so the money would
  not come back; here refunds are accepted.
* A webhook that is chosen as the victim of a deadlock is the hazard `crash`; in
  the runs without it deadlocks are resolved against the cron.
* `ResetDatabase` (`POST /admin/slots/reset`) and the stress test, which are development tools.
* `BookingHistory.jsx` (and with it the tickets a user looks at) and the page part of `PaySplit.jsx` (the friend's payment itself is
  in `SplitCheckout`): they load, show and post once. `PaySplit` shows success even when
  its post failed, and `BookingHistory` waits for messages the hub never sends.
* Coupons: a calculation whose discount never reaches a booking; `TimesUsed` is never
  incremented.
* Who may send a request: login, tokens and roles change no row.
* The stress dashboard, charts, exports, logs, toasts: output.
* What `PROJECT.json` lists as `not_modelled`.

## 7. Plan

1. An abstract log for `EventStream` that every browser reads in order, and the
   refinement to it; an abstract match (open, full, settled) for `Matchmaking`.
2. `CheckoutScreen` on `HoldRelease`, so that the waitlist and the
   administrator's releases meet an open terminal.
