---------------------------- MODULE CheckoutInv ----------------------------
(***************************************************************************)
(* The inductive invariants behind the theorems of CheckoutProofs.  They   *)
(* are kept apart from the proofs so that TLC can check them first.        *)
(***************************************************************************)
EXTENDS Checkout

(***************************************************************************)
(* References between rows, and from the goroutines to rows, are to rows   *)
(* that exist.  Type correctness needs it: a webhook follows the booking   *)
(* of a result to its slot.                                                *)
(***************************************************************************)
ForeignKeys ==
  /\ \A b \in Bookings :
       booking[b].status # "absent" => booking[b].slot \in Slots
  /\ \A e \in sent : booking[e.b].status # "absent"
  /\ \A w \in Workers :
       /\ task[w].op = "checked" => task[w].e \in sent
       /\ task[w].op \in {"loaded", "ticketed", "stripe_loaded", "stripe_saved"} =>
            /\ task[w].e \in sent
            /\ task[w].bk.slot \in Slots
            /\ task[w].bk.status # "absent"
  /\ \A r \in reminding :
       /\ r.bk.slot \in Slots /\ r.bk.status # "absent"
       /\ booking[r.b].status # "absent"

TypeInv == TypeOK /\ ForeignKeys

(***************************************************************************)
(* The row lock: the copy of the slot a CreateBooking works on is the      *)
(* committed row, it still passes the admission test, and no other         *)
(* CreateBooking is between lock and commit on that slot or that booking.  *)
(***************************************************************************)
CopyIsCurrent ==
  \A w \in Workers : task[w].op = "create" =>
    /\ task[w].sl = slot[task[w].s]
    /\ booking[task[w].b].status = "absent"
    /\ task[w].kind # "join" => ~slot[task[w].s].booked
                                /\ slot[task[w].s].hold <= now
LockIsExclusive ==
  \A v, w \in Workers :
    /\ task[v].op = "create" /\ task[w].op = "create"
    /\ task[v].s = task[w].s \/ task[v].b = task[w].b
    => v = w

\* What the reminder cron holds in memory are confirmed bookings.
RemindsConfirmed == \A r \in reminding : r.bk.status = "confirmed"

LockInv == TypeInv /\ CopyIsCurrent /\ LockIsExclusive /\ RemindsConfirmed

(***************************************************************************)
(* A sale is final when the gateway reports one result of a booking: then  *)
(* a confirmed booking has a success, so no failure of it is on its way.   *)
(***************************************************************************)
SuccessOf(b) == [b |-> b, part |-> "full", outcome |-> "success"]

OneOutcome ==
  /\ \A e \in sent : e.part = "full"
  /\ \A e, x \in sent : e.b = x.b => e = x
ConfirmedHasPaid ==
  /\ \A b \in Bookings : Confirmed(b) => SuccessOf(b) \in sent
  /\ \A r \in reminding : SuccessOf(r.b) \in sent

FinalInv == LockInv /\ OneOutcome /\ ConfirmedHasPaid

(***************************************************************************)
(* One ledger row per payment: a recorded event is processed by at most    *)
(* one worker, and the ledger row of a booking is written by the worker    *)
(* that finishes the event of its success.                                 *)
(***************************************************************************)
OneWorkerPerEvent ==
  \A v, w \in Workers : \A e \in Result :
    Processing(v, e) /\ Processing(w, e) => v = w
LedgerFollowsEvent ==
  \A b \in Bookings :
    /\ ledger[b] <= 1
    /\ ledger[b] = 1 =>
         /\ SuccessOf(b) \in events
         /\ \A w \in Workers :
              task[w].op \in {"loaded", "ticketed"} => task[w].e # SuccessOf(b)
CheckedIsNew ==
  \A w \in Workers :
    /\ task[w].op = "checked" => task[w].e \notin events
    /\ task[w].op \in {"loaded", "ticketed"} => task[w].e \in events

LedgerInv == TypeInv /\ OneWorkerPerEvent /\ LedgerFollowsEvent /\ CheckedIsNew

(***************************************************************************)
(* No double booking.  CarefulGateway is the environment it is proved for: *)
(* ordinary bookings, the idempotent webhook, one result per booking, in   *)
(* time, never two deliveries of it at once; deliveries may be repeated    *)
(* and processing may crash.                                               *)
(***************************************************************************)
CarefulGateway ==
  /\ Kinds = {"normal"} /\ Hooks = {"payment"}
  /\ Hazards \subseteq {"redeliver", "crash"}

Live(b) == booking[b].status = "pending" /\ now < Deadline(b)
SameSlot(a, b) == booking[a].slot = booking[b].slot

OnlyNormal ==
  /\ \A b \in Bookings :
       /\ booking[b].status \in {"absent", "pending", "confirmed", "failed"}
       /\ booking[b].kind = "normal"
       /\ booking[b].status # "absent" => booking[b].slot \in Slots
  /\ \A w \in Workers :
       /\ task[w].op \in {"idle", "create", "checked", "loaded", "ticketed"}
       /\ task[w].op = "create" => task[w].kind = "normal"

\* Every result in flight is the only one of its booking, and is in time.
ResultsAreUnique ==
  /\ \A e \in sent : e.part = "full" /\ booking[e.b].status # "absent"
  /\ \A e, x \in sent : e.b = x.b => e = x
  /\ \A e \in sent \ acked : now < Deadline(e.b)
  /\ acked \subseteq events
  /\ \A b \in Bookings : booking[b].status \in {"confirmed", "failed"} =>
                          \E e \in sent : e.b = b

\* A result that is not answered yet belongs to a booking that is still
\* pending; the copy of the booking a worker has loaded is current.
TasksAreCurrent ==
  /\ \A e \in sent \ acked : booking[e.b].status = "pending"
  /\ \A w \in Workers :
       /\ task[w].op \in {"checked", "loaded", "ticketed"} => task[w].e \in sent \ acked
       /\ task[w].op = "checked" => task[w].e \notin events
       /\ task[w].op \in {"loaded", "ticketed"} =>
            /\ task[w].e \in events
            /\ task[w].bk = booking[task[w].e.b]
            /\ task[w].bk.status = "pending"
            /\ ~task[w].sl.booked

\* A reminder's copy differs from the row in nothing but ReminderSent.
RemindersAreCurrent ==
  \A r \in reminding :
    /\ r.bk.status = "confirmed" /\ booking[r.b].status = "confirmed"
    /\ r.bk.slot = booking[r.b].slot /\ r.bk.kind = booking[r.b].kind

\* The slot row tells who has the slot: a live checkout's hold is the row's
\* hold, and there is one; a confirmed booking is alone and marks it booked.
RowTellsHolder ==
  \A b \in Bookings :
    /\ Live(b) => LET sl == slot[booking[b].slot]
                  IN  ~sl.booked /\ sl.hold = Deadline(b)
    /\ Confirmed(b) => slot[booking[b].slot].booked
HolderIsUnique ==
  \A a, b \in Bookings :
    /\ Live(a) /\ Live(b) /\ SameSlot(a, b) => a = b
    /\ Confirmed(a) /\ Confirmed(b) /\ SameSlot(a, b) => a = b

BookingInv ==
  /\ LockInv /\ OneWorkerPerEvent /\ OnlyNormal /\ ResultsAreUnique
  /\ TasksAreCurrent /\ RemindersAreCurrent
  /\ RowTellsHolder /\ HolderIsUnique
=============================================================================
