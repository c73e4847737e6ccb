------------------------------ MODULE AdminScreen ------------------------------
(***************************************************************************)
(* The owner's command center (AdminDashboard.jsx) in one browser, the     *)
(* rows its orders write, and the customers who book and the other         *)
(* administrators who lock meanwhile.                                      *)
(*                                                                         *)
(* The page shows the slots of one date as the last answer of              *)
(* loadAdminData said, patched by SLOT_UPDATED events; every other event   *)
(* it reacts to makes it load again.  A load asks for the slots first and  *)
(* for the maintenance switch later.  Handlers of events keep the          *)
(* loadAdminData of the first render, and so the first date.               *)
(*                                                                         *)
(* Handlers load a row and save all of its columns later, so that one may  *)
(* undo what another wrote.                                                *)
(*                                                                         *)
(* Amounts, forms, charts and logs are left out: of an order that changes  *)
(* a price the model keeps which slots got one, and prices that other      *)
(* administrators set are left out, since their event makes the page load. *)
(* Events come in order (module EventStream says what happens when they    *)
(* do not).                                                                *)
(***************************************************************************)
EXTENDS Naturals, Sequences, SequencesExt

CONSTANTS
  Slots, Dates,
  DateOf,     \* the date of a slot
  First,      \* the date selected when the page opens
  Made,       \* the dates whose slots are generated then
  MaxCalls,   \* bound on the orders under way
  MaxActs,    \* bound on orders, requests of others and mishaps together
  MaxLoads,   \* bound on the loads under way
  Habits      \* a subset of AllHabits

(***************************************************************************)
(* impatient: the administrator clicks on before an order is answered and  *)
(*            the page loaded again                                        *)
(* lag:       an event, which a goroutine of its own may emit, comes after  *)
(*            the answer to an order                                       *)
(* reorder:   the answers of two loads may come in either order            *)
(***************************************************************************)
AllHabits == {"impatient", "lag", "reorder"}

ASSUME AdminScreenAssumption ==
  /\ DateOf \in [Slots -> Dates] /\ First \in Dates /\ Made \subseteq Dates
  /\ Habits \subseteq AllHabits
  /\ MaxCalls \in Nat /\ MaxActs \in Nat /\ MaxLoads \in Nat \ {0}

VARIABLES
  row,       \* the slots: generated, locked, held, booked, given a price
  maint,     \* the maintenance_mode setting
  visit,     \* customers' booking requests: admitted, or about to commit
  saving,    \* other handlers that have loaded a slot and will save it
  acts,      \* how many requests of customers and other administrators there were
  date,      \* selectedDate
  list,      \* slots: the rows on the page
  ticked,    \* selectedSlotIDs
  status,    \* maintenanceMode as the page knows it
  dialog,    \* bulkPriceModal.show
  order,     \* orders under way
  orders,    \* how many were given
  loads,     \* loads under way, the oldest first
  events,    \* events on their way to the page
  meant,     \* history: slots ticked when the price dialog was opened
  silent,    \* history: slots changed behind the page's back since it read them
  troubles   \* how many calls were lost

server == <<row, maint, visit, saving, acts>>
page == <<date, list, ticked, status, dialog, meant, silent>>
avars == <<server, page, order, orders, loads, events, troubles>>

Row == [made : BOOLEAN, locked : BOOLEAN, held : BOOLEAN, booked : BOOLEAN,
        priced : BOOLEAN]
Calls == 1..MaxCalls
Free == [at |-> "none"]

SlotOps == {"toggle", "release", "extend"}
\* date: the date the handler closes over, for the load after its answer.
Order == [op : SlotOps, s : Slots, date : Dates, at : {"sent", "ok", "refused"}]
           \cup [op : SlotOps, s : Slots, date : Dates, at : {"loaded"}, copy : Row]
           \cup [op : {"bulk_lock", "bulk_price"}, ids : SUBSET Slots, on : BOOLEAN,
                 date : Dates, at : {"sent", "ok", "refused"}]
           \cup [op : {"maintenance"}, on : BOOLEAN, date : Dates,
                 at : {"sent", "ok", "refused"}]
           \cup [op : {"generate", "multiplier", "other"}, date : Dates,
                 at : {"sent", "ok", "refused"}]

\* stale: history, the slots changed by others since the rows were read.
Load == [date : Dates, at : {"asked"}]
          \cup [date : Dates, at : {"rows"},
                rows : UNION {[S -> Row] : S \in SUBSET Slots}, stale : SUBSET Slots]
          \cup [date : Dates, at : {"shown"}]
          \cup [date : Dates, at : {"status"}, on : BOOLEAN]

\* SLOT_UPDATED with a whole slot, SLOT_UPDATED "available", or an event that
\* makes the page load.  The others do nothing to the page: those of the
\* payment webhooks and of bulk orders name no slot or no new value.
Event == [type : {"slot"}, s : Slots, sl : Row] \cup [type : {"available"}, s : Slots]
           \cup {[type |-> "reload"]}

\* A handler elsewhere with its copy of a slot: a payment webhook or the one
\* of a failed payment; the cron or a customer's cancellation; ToggleSlotLock.
Save == [by : {"paid", "failed", "release", "toggle"}, s : Slots, copy : Row]
-----------------------------------------------------------------------------
(* The page asks and shows.                                                *)

MayAct == orders + acts + troubles < MaxActs

\* loadAdminData for a date.
WithLoad(d) == Append(loads, [date |-> d, at |-> "asked"])

CanLoad == Len(loads) < MaxLoads

AdminSlots(d) == [s \in {x \in Slots : row[x].made /\ DateOf[x] = d} |-> row[s]]

\* The server answers the first call of a load, or the later one.
AnswerLoad(i) ==
  /\ loads[i].at \in {"asked", "shown"}
  /\ loads' = [loads EXCEPT ![i] =
                 IF @.at = "asked"
                 THEN [date |-> @.date, at |-> "rows", rows |-> AdminSlots(@.date),
                       stale |-> {}]
                 ELSE [date |-> @.date, at |-> "status", on |-> maint]]
  /\ UNCHANGED <<server, page, order, orders, events, troubles>>

\* Unless they are reordered, the answers for an older load come first.
Overtakes(i, stages) ==
  "reorder" \notin Habits /\ \E j \in 1..(i - 1) : loads[j].at \in stages

\* A change of the slot is on its way to be patched in.
Patching(s) == \E i \in DOMAIN events : events[i].type = "slot" /\ events[i].s = s

ShowRows(i) ==
  /\ loads[i].at = "rows" /\ ~Overtakes(i, {"asked", "rows"})
  /\ list' = loads[i].rows
  /\ silent' = loads[i].stale \cup {s \in silent : Patching(s)}
  /\ loads' = [loads EXCEPT ![i] = [date |-> @.date, at |-> "shown"]]
  /\ UNCHANGED <<server, date, ticked, status, dialog, meant, order, orders, events, troubles>>

ShowStatus(i) ==
  /\ loads[i].at = "status" /\ ~Overtakes(i, {"asked", "rows", "shown", "status"})
  /\ status' = loads[i].on
  /\ loads' = RemoveAt(loads, i)
  /\ UNCHANGED <<server, date, list, ticked, dialog, meant, silent, order, orders, events,
                 troubles>>

Trouble == MayAct /\ troubles' = troubles + 1

\* A call of the load fails: the rest of it is skipped.
LoadLost(i) ==
  /\ Trouble
  /\ loads' = RemoveAt(loads, i)
  /\ UNCHANGED <<server, page, order, orders, events>>

SelectDate(d) ==
  /\ d # date /\ ~dialog /\ CanLoad
  /\ date' = d
  /\ loads' = WithLoad(d)
  /\ UNCHANGED <<server, list, ticked, status, dialog, meant, silent, order, orders, events,
                 troubles>>

\* The rows after an event: a change of one slot is patched in.
Dispatched(e) ==
  IF e.type = "slot" /\ e.s \in DOMAIN list THEN [list EXCEPT ![e.s] = e.sl]
  ELSE IF e.type = "available" /\ e.s \in DOMAIN list
       THEN [list EXCEPT ![e.s].booked = FALSE]
       ELSE list

HandleWSEvent ==
  /\ events # <<>>
  /\ list' = Dispatched(Head(events))
  /\ IF Head(events).type = "reload"
     THEN CanLoad /\ loads' = WithLoad(First)
     ELSE UNCHANGED loads
  /\ events' = Tail(events)
  /\ UNCHANGED <<server, date, ticked, status, dialog, meant, silent, order, orders, troubles>>
-----------------------------------------------------------------------------
(* The administrator.                                                      *)

Clicks == "impatient" \in Habits \/ (loads = <<>> /\ \A c \in Calls : order[c] = Free)

\* handleToggleSlotSelect
ToggleSlotSelect(s) ==
  /\ Clicks /\ s \in DOMAIN list /\ ~dialog
  /\ ticked' = IF s \in ticked THEN ticked \ {s} ELSE ticked \cup {s}
  /\ UNCHANGED <<server, date, list, status, dialog, meant, silent, order, orders, loads,
                 events, troubles>>

\* handleSelectAll
SelectAll(all) ==
  /\ Clicks /\ ~dialog
  /\ ticked' = IF all THEN DOMAIN list ELSE {}
  /\ UNCHANGED <<server, date, list, status, dialog, meant, silent, order, orders, loads,
                 events, troubles>>

\* "Edit Price" is disabled while nothing is ticked.  (The pencil of a row
\* opens a dialog that the page never shows.)
OpenPrice ==
  /\ Clicks /\ ~dialog /\ ticked # {}
  /\ dialog' = TRUE
  /\ meant' = meant \cup ticked
  /\ UNCHANGED <<server, date, list, ticked, status, silent, order, orders, loads, events,
                 troubles>>

ClosePrice ==
  /\ dialog /\ dialog' = FALSE
  /\ UNCHANGED <<server, date, list, ticked, status, meant, silent, order, orders, loads,
                 events, troubles>>

Send(c, o) ==
  /\ order[c] = Free /\ \A d \in 1..(c - 1) : order[d] # Free
  /\ MayAct /\ orders' = orders + 1
  /\ order' = [order EXCEPT ![c] = o]
  /\ UNCHANGED <<server, page, loads, events, troubles>>

SlotOrder(op, s) == [op |-> op, s |-> s, date |-> date, at |-> "sent"]

\* toggleLock, forceReleaseSlot and extendSlotHold are buttons of a row, the
\* last two while the page shows a hold.
OrderSlot(c) ==
  /\ Clicks /\ ~dialog
  /\ \E s \in DOMAIN list :
       \/ Send(c, SlotOrder("toggle", s))
       \/ /\ list[s].held /\ ~list[s].booked
          /\ \E op \in {"release", "extend"} : Send(c, SlotOrder(op, s))

\* handleBulkPriceSubmit.  The dialog stays open until the answer; what is
\* ticked at the click is sent, even if that is nothing.
SubmitPrice(c) ==
  /\ Clicks /\ dialog
  /\ Send(c, [op |-> "bulk_price", ids |-> ticked, on |-> FALSE, date |-> date, at |-> "sent"])

\* handleBulkLockToggle
BulkLockToggle(c, on) ==
  /\ Clicks /\ ~dialog /\ ticked # {}
  /\ Send(c, [op |-> "bulk_lock", ids |-> ticked, on |-> on, date |-> date, at |-> "sent"])

\* handleToggleMaintenance asks for the opposite of what the page knows.
ToggleMaintenance(c) ==
  /\ Clicks /\ ~dialog
  /\ Send(c, [op |-> "maintenance", on |-> ~status, date |-> date, at |-> "sent"])

\* handleGenerateSlots, handleBulkGenSubmit, handleApplyMultiplier; rules,
\* coupons and the demo data.
OrderRest(c) ==
  /\ Clicks /\ ~dialog
  /\ \E op \in {"generate", "multiplier", "other"} :
       Send(c, [op |-> op, date |-> date, at |-> "sent"])
-----------------------------------------------------------------------------
(* The server.  ToggleSlotLock, ForceReleaseSlot and ExtendSlotHold load a   *)
(* slot and save the whole row later; the bulk orders are single statements  *)
(* on slots that are not booked.                                             *)

Committing(s) == visit[s] = "emitted"

\* Which slots an UPDATE ... WHERE id IN (...) would match.
Mut_BulkTarget(o) == {s \in Slots : row[s].made /\ ~row[s].booked /\ DateOf[s] = o.date}

\* No ids: every slot of the date.
BulkTarget(o) ==
  {s \in Slots : /\ row[s].made /\ ~row[s].booked
                 /\ IF o.ids # {} THEN s \in o.ids ELSE DateOf[s] = o.date}

LoadSlot(c) ==
  LET o == order[c] IN
  /\ o.at = "sent" /\ o.op \in SlotOps
  /\ order' = [order EXCEPT ![c] =
       IF \/ o.op = "release" /\ row[o.s].booked
          \/ o.op = "extend" /\ ~row[o.s].held
       THEN [o EXCEPT !.at = "refused"]
       ELSE [op |-> o.op, s |-> o.s, date |-> o.date, at |-> "loaded", copy |-> row[o.s]]]
  /\ UNCHANGED <<server, page, orders, loads, events, troubles>>

\* The row as the handler saves it.
Edited(o) ==
  CASE o.op = "toggle"  -> [o.copy EXCEPT !.locked = ~@]
    [] o.op = "release" -> [o.copy EXCEPT !.held = FALSE]
    [] o.op = "extend"  -> o.copy

\* What the pages hear of it.
Emitted(o) ==
  CASE o.op = "toggle"  -> <<[type |-> "slot", s |-> o.s, sl |-> Edited(o)]>>
    [] o.op = "release" -> <<[type |-> "available", s |-> o.s]>>
    [] OTHER            -> <<>>

SaveSlot(c) ==
  LET o == order[c] IN
  /\ o.at = "loaded" /\ ~Committing(o.s)
  /\ row' = [row EXCEPT ![o.s] = Edited(o)]
  /\ events' = events \o Emitted(o)
  /\ order' = [order EXCEPT ![c] = [op |-> o.op, s |-> o.s, date |-> o.date, at |-> "ok"]]
  /\ UNCHANGED <<maint, visit, saving, acts, page, orders, loads, troubles>>

\* The other handlers.
Handle(c) ==
  LET o == order[c] IN
  /\ o.at = "sent" /\ o.op \notin SlotOps
  /\ o.op \in {"bulk_lock", "bulk_price"} => \A s \in BulkTarget(o) : ~Committing(s)
  /\ row' = [s \in Slots |->
       IF o.op = "bulk_lock" /\ s \in BulkTarget(o) THEN [row[s] EXCEPT !.locked = o.on]
       ELSE IF o.op = "bulk_price" /\ s \in BulkTarget(o) THEN [row[s] EXCEPT !.priced = TRUE]
       ELSE IF o.op = "generate" /\ DateOf[s] = o.date THEN [row[s] EXCEPT !.made = TRUE]
       ELSE row[s]]
  /\ maint' = IF o.op = "maintenance" THEN o.on ELSE maint
  /\ events' = IF o.op \in {"bulk_price", "multiplier", "maintenance"}
               THEN Append(events, [type |-> "reload"]) ELSE events
  /\ order' = [order EXCEPT ![c].at = "ok"]
  /\ UNCHANGED <<visit, saving, acts, page, orders, loads, troubles>>
-----------------------------------------------------------------------------
(* The answers.                                                            *)

Mut_Answered(c) ==
  LET op == order[c].op IN
  /\ order[c].at = "ok" /\ CanLoad
  /\ ticked' = IF op \in {"bulk_lock", "bulk_price"} THEN {} ELSE ticked
  /\ dialog' = (dialog /\ op # "bulk_price")
  /\ loads' = IF op = "toggle" THEN loads ELSE WithLoad(order[c].date)
  /\ order' = [order EXCEPT ![c] = Free]
  /\ UNCHANGED <<server, date, list, status, meant, silent, orders, events, troubles>>

InTime == "lag" \in Habits \/ events = <<>>

\* Done: a bulk order clears what is ticked, the price order closes its dialog,
\* and all of them load.
Answered(c) ==
  LET op == order[c].op IN
  /\ order[c].at = "ok" /\ CanLoad /\ InTime
  /\ ticked' = IF op \in {"bulk_lock", "bulk_price"} THEN {} ELSE ticked
  /\ dialog' = (dialog /\ op # "bulk_price")
  /\ loads' = WithLoad(order[c].date)
  /\ order' = [order EXCEPT ![c] = Free]
  /\ UNCHANGED <<server, date, list, status, meant, silent, orders, events, troubles>>

\* Only a message.
Refused(c) ==
  /\ order[c].at = "refused"
  /\ order' = [order EXCEPT ![c] = Free]
  /\ UNCHANGED <<server, page, orders, loads, events, troubles>>

Lost(c) ==
  /\ Trouble /\ order[c].at \in {"sent", "ok"}
  /\ order' = [order EXCEPT ![c].at = "refused"]
  /\ UNCHANGED <<server, page, orders, loads, events>>
-----------------------------------------------------------------------------
(* The customers and the other administrators.  Of the requests that         *)
(* MaintenanceCheck guards only bookings are kept.                           *)

\* MaintenanceCheck lets a booking request in.
MaintenanceCheck(s) ==
  /\ ~maint /\ visit[s] = "none" /\ row[s].made /\ MayAct
  /\ visit' = [visit EXCEPT ![s] = "admitted"]
  /\ acts' = acts + 1
  /\ UNCHANGED <<row, maint, saving, page, order, orders, loads, events, troubles>>

\* CreateBooking tells the owners before its transaction has committed.  It
\* looks at is_booked and the hold, not at is_locked.
CreateBooking(s) ==
  \/ /\ visit[s] = "admitted"
     /\ IF row[s].booked \/ row[s].held
        THEN visit' = [visit EXCEPT ![s] = "none"] /\ UNCHANGED events
        ELSE /\ visit' = [visit EXCEPT ![s] = "emitted"]
             /\ events' = Append(events, [type |-> "reload"])
     /\ UNCHANGED <<row, maint, saving, acts, page, order, orders, loads, troubles>>
  \/ /\ visit[s] = "emitted"
     /\ row' = [row EXCEPT ![s].held = TRUE]
     /\ visit' = [visit EXCEPT ![s] = "none"]
     /\ UNCHANGED <<maint, saving, acts, page, order, orders, loads, events, troubles>>

\* Time ends a hold, in the row and in every copy of it that a handler will
\* save; ExtendSlotHold has already made it longer.
HoldRunsOut(s) ==
  /\ row[s].held /\ ~Committing(s)
  /\ row' = [row EXCEPT ![s].held = FALSE]
  /\ saving' = {IF x.s = s THEN [x EXCEPT !.copy.held = FALSE] ELSE x : x \in saving}
  /\ order' = [c \in Calls |->
       IF order[c].at = "loaded" /\ order[c].s = s /\ order[c].op # "extend"
       THEN [order[c] EXCEPT !.copy.held = FALSE] ELSE order[c]]
  /\ UNCHANGED <<maint, visit, acts, page, orders, loads, events, troubles>>

\* A handler elsewhere loads a slot, without a lock: those of payments and of
\* cancellations one that is held, ToggleSlotLock any.
LoadElsewhere(s, by) ==
  /\ MayAct /\ acts' = acts + 1
  /\ row[s].made /\ (by # "toggle" => row[s].held)
  /\ saving' = saving \cup {[by |-> by, s |-> s, copy |-> row[s]]}
  /\ UNCHANGED <<row, maint, visit, page, order, orders, loads, events, troubles>>

\* The row as it saves it, and what the page hears: nothing of a payment,
\* whose event names neither lock nor price.
Written(x) ==
  CASE x.by = "paid"    -> [x.copy EXCEPT !.held = FALSE, !.booked = TRUE]
    [] x.by = "failed"  -> [x.copy EXCEPT !.held = FALSE]
    [] x.by = "release" -> [x.copy EXCEPT !.held = FALSE, !.booked = FALSE]
    [] x.by = "toggle"  -> [x.copy EXCEPT !.locked = ~@]
Heard(x) ==
  CASE x.by = "toggle"  -> <<[type |-> "slot", s |-> x.s, sl |-> Written(x)]>>
    [] x.by = "release" -> <<[type |-> "available", s |-> x.s]>>
    [] OTHER            -> <<>>

\* Which slots have another lock or price in f than in the table.
Decided(f) == {s \in Slots : f[s].locked # row[s].locked \/ f[s].priced # row[s].priced}

\* Rows that were read and not yet shown are stale.
Behind(S) ==
  [i \in DOMAIN loads |-> IF loads[i].at = "rows" THEN [loads[i] EXCEPT !.stale = @ \cup S]
                          ELSE loads[i]]

SaveElsewhere(x) ==
  /\ ~Committing(x.s)
  /\ row' = [row EXCEPT ![x.s] = Written(x)]
  /\ events' = events \o Heard(x)
  /\ saving' = saving \ {x}
  /\ loads' = Behind(Decided(row'))
  /\ silent' = IF x.by = "toggle" THEN silent ELSE silent \cup Decided(row')
  /\ UNCHANGED <<maint, visit, acts, date, list, ticked, status, dialog, meant, order, orders,
                 troubles>>

\* Another administrator's BulkLockSlots: its event names no slot, and the
\* page does nothing with it.
BulkLockElsewhere(S, on) ==
  /\ MayAct /\ acts' = acts + 1
  /\ \A s \in S : row[s].made /\ ~row[s].booked /\ ~Committing(s)
  /\ row' = [s \in Slots |-> IF s \in S THEN [row[s] EXCEPT !.locked = on] ELSE row[s]]
  /\ loads' = Behind(Decided(row'))
  /\ silent' = silent \cup Decided(row')
  /\ UNCHANGED <<maint, visit, saving, date, list, ticked, status, dialog, meant, order, orders,
                 events, troubles>>

\* Another administrator uses the maintenance switch.
MaintenanceElsewhere ==
  /\ MayAct /\ acts' = acts + 1
  /\ maint' = ~maint /\ events' = Append(events, [type |-> "reload"])
  /\ UNCHANGED <<row, visit, saving, page, order, orders, loads, troubles>>

AInit ==
  /\ row = [s \in Slots |-> [made |-> DateOf[s] \in Made, locked |-> FALSE,
                              held |-> FALSE, booked |-> FALSE, priced |-> FALSE]]
  /\ maint = FALSE /\ visit = [s \in Slots |-> "none"] /\ acts = 0
  /\ saving = {} /\ silent = {}
  /\ date = First /\ list = [s \in {} |-> s] /\ ticked = {} /\ status = FALSE
  /\ dialog = FALSE /\ meant = {}
  /\ order = [c \in Calls |-> Free] /\ orders = 0
  /\ loads = <<[date |-> First, at |-> "asked"]>> /\ events = <<>> /\ troubles = 0

Click(c) ==
  \/ OrderSlot(c) \/ SubmitPrice(c) \/ ToggleMaintenance(c) \/ OrderRest(c)
  \/ \E on \in BOOLEAN : BulkLockToggle(c, on)

ANext ==
  \/ \E i \in DOMAIN loads : AnswerLoad(i) \/ ShowRows(i) \/ ShowStatus(i) \/ LoadLost(i)
  \/ \E d \in Dates : SelectDate(d)
  \/ HandleWSEvent \/ OpenPrice \/ ClosePrice
  \/ \E all \in BOOLEAN : SelectAll(all)
  \/ \E s \in Slots : ToggleSlotSelect(s) \/ MaintenanceCheck(s) \/ CreateBooking(s)
                        \/ HoldRunsOut(s)
  \/ \E s \in Slots, by \in {"paid", "failed", "release", "toggle"} : LoadElsewhere(s, by)
  \/ \E x \in saving : SaveElsewhere(x)
  \/ \E S \in SUBSET Slots, on \in BOOLEAN : BulkLockElsewhere(S, on)
  \/ MaintenanceElsewhere
  \/ \E c \in Calls : Click(c) \/ LoadSlot(c) \/ SaveSlot(c) \/ Handle(c)
                        \/ Answered(c) \/ Refused(c) \/ Lost(c)

ASpec == AInit /\ [][ANext]_avars
-----------------------------------------------------------------------------
(* Properties.                                                             *)

\* Type invariant of the page, of its calls, and of the rows behind it.
ATypeOK ==
  /\ row \in [Slots -> Row] /\ maint \in BOOLEAN /\ acts \in 0..MaxActs
  /\ saving \subseteq Save /\ silent \subseteq Slots
  /\ visit \in [Slots -> {"none", "admitted", "emitted"}]
  /\ date \in Dates /\ status \in BOOLEAN
  /\ DOMAIN list \subseteq Slots /\ \A s \in DOMAIN list : list[s] \in Row
  /\ ticked \subseteq Slots /\ meant \subseteq Slots
  /\ dialog \in BOOLEAN
  /\ \A c \in Calls : order[c] = Free \/ order[c] \in Order
  /\ orders \in 0..MaxActs /\ troubles \in 0..MaxActs
  /\ Len(loads) <= MaxLoads /\ \A i \in DOMAIN loads : loads[i] \in Load
  /\ \A i \in DOMAIN events : events[i] \in Event

Quiet == loads = <<>> /\ events = <<>> /\ \A c \in Calls : order[c] = Free

\* Once nothing is under way any more, the page tells the truth about what
\* administrators decide: every row it shows is as frozen and as priced as
\* the server's, and the maintenance button shows the switch.  Several loads,
\* of two dates, may have crossed the orders, the events and the saves of
\* other handlers; no call was lost.  What nobody tells the page is excepted,
\* slot by slot and until rows read later are shown: a lock or price that a
\* webhook, the cron or a cancellation put back with an old copy, and what
\* another administrator locked in bulk, or while rows read before were not
\* yet shown.
ConsoleIsTrue ==
  Quiet /\ troubles = 0 =>
    /\ status = maint
    /\ \A s \in DOMAIN list \ silent : /\ list[s].locked = row[s].locked
                                        /\ list[s].priced = row[s].priced

\* A price order reaches only slots the administrator had ticked when the
\* dialog was opened.  For the server an empty list of ids means the whole
\* date, so no order may find its ticks cleared.
PricedIsMeant == \A s \in Slots : row[s].priced => s \in meant
=============================================================================
