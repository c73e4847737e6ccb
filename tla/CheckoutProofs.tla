--------------------------- MODULE CheckoutProofs ---------------------------
(***************************************************************************)
(* Theorems about Checkout for every number of slots, bookings, workers    *)
(* and ticks of the clock.                                                 *)
(***************************************************************************)
EXTENDS CheckoutInv, TLAPS

USE DEF NoHold
-----------------------------------------------------------------------------
(* A task's op tells which record it is.                                   *)
LEMMA TaskKinds ==
  ASSUME NEW t \in Task
  PROVE  /\ t.op = "create" => t \in Creating
         /\ t.op = "checked" => t \in Checked
         /\ t.op \in {"loaded", "ticketed", "stripe_loaded", "stripe_saved"} => t \in Loaded
BY DEF Task, Idle, Creating, Checked, Loaded

(* The rows the webhooks write are rows.                                   *)
LEMMA SoldType ==
  ASSUME NEW sl \in SlotRow, NEW k
  PROVE  Sold(sl, k) \in SlotRow
<1>1. sl.current \in Nat /\ sl.current + 1 \in Nat
  BY DEF SlotRow
<1>2. CASE k = "host"
  BY <1>2 DEF Sold, SlotRow
<1>3. CASE k = "join"
  <2> DEFINE n == sl.current + 1
             full == [sl EXCEPT !.hold = NoHold, !.current = n,
                                !.booked = TRUE, !.mm = "closed"]
             part == [sl EXCEPT !.hold = NoHold, !.current = n,
                                !.booked = FALSE, !.mm = sl.mm]
  <2>1. full \in SlotRow /\ part \in SlotRow
    BY <1>1 DEF SlotRow
  <2>2. CASE n >= MatchSize
    <3>1. Sold(sl, k) = full
      BY <1>3, <2>2 DEF Sold
    <3> QED BY <2>1, <3>1
  <2>3. CASE ~(n >= MatchSize)
    <3>1. (n >= MatchSize) = FALSE
      BY <1>1, <2>3, CheckoutAssumption
    <3>2. Sold(sl, k) = part
      BY <1>3, <3>1 DEF Sold
    <3> QED BY <2>1, <3>2
  <2> QED BY <2>2, <2>3
<1>4. CASE k # "host" /\ k # "join"
  BY <1>4 DEF Sold, SlotRow
<1> QED BY <1>2, <1>3, <1>4

LEMMA WrittenRowsType ==
  ASSUME NEW t \in Loaded
  PROVE  NewSlot(t) \in SlotRow /\ NewBooking(t) \in BookingRow
<1>1. t.sl \in SlotRow /\ t.bk \in BookingRow
  BY DEF Loaded
<1>2. NewSlot(t) \in SlotRow
  <2>1. Sold(t.sl, t.bk.kind) \in SlotRow
    BY <1>1, SoldType
  <2>2. [t.sl EXCEPT !.hold = NoHold] \in SlotRow
    BY <1>1 DEF SlotRow
  <2> QED BY <2>1, <2>2 DEF NewSlot
<1>3. NewBooking(t) \in BookingRow
  BY <1>1 DEF NewBooking, BookingRow, Status
<1> QED BY <1>2, <1>3

LEMMA AbsentType == Absent \in BookingRow
BY DEF Absent, BookingRow, Status, AllKinds

LEMMA HoldForType ==
  ASSUME NEW k
  PROVE  HoldFor(k) \in Nat \ {0}
BY CheckoutAssumption DEF HoldFor
-----------------------------------------------------------------------------
(* Type correctness.                                                       *)

LEMMA InitType == Init => TypeInv
<1> SUFFICES ASSUME Init PROVE TypeInv
  OBVIOUS
<1>1. slot \in [Slots -> SlotRow]
  BY DEF Init, SlotRow
<1>2. booking \in [Bookings -> BookingRow]
  BY AbsentType DEF Init
<1>3. splits \in [Bookings -> [Friends -> SplitState]]
  BY DEF Init, SplitState
<1>4. task \in [Workers -> Task]
  BY DEF Init, Task
<1>5. TypeOK
  BY <1>1, <1>2, <1>3, <1>4 DEF Init, TypeOK
<1>6. ForeignKeys
  BY DEF Init, ForeignKeys, Absent, Idle
<1> QED BY <1>5, <1>6 DEF TypeInv

(* The copies a task works on refer to existing rows.                      *)
LEMMA LoadedTask ==
  ASSUME TypeInv, NEW w \in Workers,
         task[w].op \in {"loaded", "ticketed", "stripe_loaded", "stripe_saved"}
  PROVE  /\ task[w] \in Loaded
         /\ task[w].e \in Result /\ task[w].e \in sent
         /\ task[w].e.b \in Bookings
         /\ task[w].bk \in BookingRow /\ task[w].bk.slot \in Slots
         /\ task[w].bk.status # "absent"
         /\ task[w].sl \in SlotRow
         /\ NewSlot(task[w]) \in SlotRow
         /\ NewBooking(task[w]) \in BookingRow
         /\ NewBooking(task[w]).slot = task[w].bk.slot
         /\ NewBooking(task[w]).status \in {"confirmed", "failed"}
<1>1. task[w] \in Loaded
  BY TaskKinds DEF TypeInv, TypeOK
<1>2. /\ task[w].e \in Result /\ task[w].e.b \in Bookings
      /\ task[w].bk \in BookingRow /\ task[w].sl \in SlotRow
  BY <1>1 DEF Loaded, Result
<1>3. /\ NewBooking(task[w]).slot = task[w].bk.slot
      /\ NewBooking(task[w]).status \in {"confirmed", "failed"}
  BY <1>2 DEF NewBooking, BookingRow
<1> QED BY <1>1, <1>2, <1>3, WrittenRowsType DEF TypeInv, ForeignKeys

LEMMA CreatingTask ==
  ASSUME TypeOK, NEW w \in Workers, task[w].op = "create"
  PROVE  /\ task[w].b \in Bookings /\ task[w].s \in Slots
         /\ task[w].kind \in AllKinds /\ task[w].sl \in SlotRow
         /\ task[w].friends \subseteq Friends
<1>1. task[w] \in Creating
  BY TaskKinds DEF TypeOK
<1> QED BY <1>1 DEF Creating

(* Issuing the ticket changes the ticket table and the worker's op.        *)
LEMMA TicketStep ==
  ASSUME TypeInv, NEW w \in Workers, PaymentWebhookTicket(w)
  PROVE  /\ task[w].op = "loaded" /\ task[w] \in Loaded /\ task'[w] \in Loaded
         /\ task[w].e.b \in Bookings /\ task[w].e \in sent
         /\ task'[w].op = "ticketed" /\ task'[w].e = task[w].e
         /\ task'[w].bk = task[w].bk /\ task'[w].sl = task[w].sl
         /\ \A v \in Workers \ {w} : task'[v] = task[v]
         /\ task' \in [Workers -> Task]
         /\ ticket' \subseteq Bookings
         /\ UNCHANGED <<now, slot, booking, splits, ledger, sent, acked, events, reminding>>
<1> DEFINE t == [task[w] EXCEPT !.op = "ticketed"]
<1>1. TypeOK /\ task[w].op = "loaded"
  BY DEF TypeInv, PaymentWebhookTicket
<1>2. task[w] \in Loaded /\ task[w].e.b \in Bookings /\ task[w].e \in sent
  BY <1>1, LoadedTask
<1>3. /\ t \in Loaded /\ t.op = "ticketed" /\ t.e = task[w].e
      /\ t.bk = task[w].bk /\ t.sl = task[w].sl
  BY <1>2 DEF Loaded
<1>4. task' = [task EXCEPT ![w] = t]
  BY DEF PaymentWebhookTicket
<1>5. /\ task'[w] = t /\ \A v \in Workers \ {w} : task'[v] = task[v]
      /\ task' \in [Workers -> Task]
  <2> HIDE DEF t
  <2> QED BY <1>1, <1>3, <1>4 DEF TypeOK, Task
<1>6. ticket' \subseteq Bookings
  BY <1>1, <1>2 DEF PaymentWebhookTicket, Ticketed, TypeOK
<1>7. UNCHANGED <<now, slot, booking, splits, ledger, sent, acked, events, reminding>>
  BY DEF PaymentWebhookTicket, gateway
<1> QED BY <1>1, <1>2, <1>3, <1>5, <1>6, <1>7

LEMMA NextType == TypeInv /\ [Next]_vars => TypeInv'
<1> SUFFICES ASSUME TypeInv, [Next]_vars PROVE TypeInv'
  OBVIOUS
<1> USE DEF TypeInv, TypeOK
<1>1. CASE Tick
  BY <1>1 DEF Tick, rows, gateway, ForeignKeys
<1>2. ASSUME NEW w \in Workers, NEW b \in Bookings, NEW s \in Slots,
             NEW k \in Kinds, NEW F \in SUBSET Friends,
             CreateBookingLock(w, b, s, k, F)
      PROVE  TypeInv'
  <2>1. [op |-> "create", b |-> b, s |-> s, kind |-> k, friends |-> F,
         sl |-> slot[s]] \in Creating
    BY CheckoutAssumption DEF Creating
  <2>2. task' \in [Workers -> Task]
    BY <1>2, <2>1 DEF CreateBookingLock, Task
  <2>3. TypeOK'
    BY <1>2, <2>2 DEF CreateBookingLock, rows, gateway
  <2>4. ForeignKeys'
    BY <1>2 DEF CreateBookingLock, rows, gateway, ForeignKeys
  <2> QED BY <2>3, <2>4
<1>3. ASSUME NEW w \in Workers, CreateBookingCommit(w)
      PROVE  TypeInv'
  <2> DEFINE t == task[w]
             row == [Absent EXCEPT !.slot = t.s, !.kind = t.kind,
                       !.status = "pending", !.bookedAt = now,
                       !.splitStatus = IF t.kind = "split" THEN "pending"
                                                           ELSE "none"]
  <2>1. /\ t.b \in Bookings /\ t.s \in Slots /\ t.kind \in AllKinds
        /\ t.sl \in SlotRow /\ t.friends \subseteq Friends
    BY <1>3, CreatingTask DEF CreateBookingCommit
  <2>2. now + HoldFor(t.kind) \in Nat
    BY HoldForType
  <2>3. [t.sl EXCEPT !.hold = now + HoldFor(t.kind)] \in SlotRow
    BY <2>1, <2>2 DEF SlotRow
  <2>4. slot' \in [Slots -> SlotRow]
    BY <1>3, <2>1, <2>3 DEF CreateBookingCommit
  <2>5. row \in BookingRow
    BY <2>1, AbsentType DEF BookingRow, Status
  <2>6. row.slot = t.s /\ row.status = "pending"
    BY AbsentType DEF BookingRow
  <2>7. booking' = [booking EXCEPT ![t.b] = row]
    BY <1>3 DEF CreateBookingCommit
  <2>8. splits' \in [Bookings -> [Friends -> SplitState]]
    BY <1>3, <2>1 DEF CreateBookingCommit, SplitState
  <2>9. TypeOK'
    BY <1>3, <2>1, <2>4, <2>5, <2>7, <2>8
    DEF CreateBookingCommit, Finish, Task, gateway
  <2>10. ForeignKeys'
    <3> HIDE DEF row
    <3> QED BY <1>3, <2>1, <2>6, <2>7
            DEF CreateBookingCommit, Finish, Idle, gateway, ForeignKeys, Result
  <2> QED BY <2>9, <2>10
<1>4. ASSUME NEW w \in Workers, CreateBookingRollback(w)
      PROVE  TypeInv'
  BY <1>4 DEF CreateBookingRollback, Finish, Task, Idle, rows, gateway, ForeignKeys
<1>5. ASSUME NEW b \in Bookings, NEW o \in {"success", "failed"},
             PayInFull(b, o)
      PROVE  TypeInv'
  BY <1>5 DEF PayInFull, Produce, Result, rows, ForeignKeys
<1>6. ASSUME NEW w \in Workers, NEW e \in sent, Deliver(w, e)
      PROVE  TypeInv'
  <2>1. e \in Result /\ e.b \in Bookings
    BY DEF Result
  <2>2. booking[e.b].slot \in Slots /\ booking[e.b].status # "absent"
    BY <2>1 DEF ForeignKeys
  <2>3. CASE PaymentWebhookSkip(w, e)
    BY <2>1, <2>3 DEF PaymentWebhookSkip, rows, ForeignKeys
  <2>4. CASE PaymentWebhookCheck(w, e)
    <3>1. [op |-> "checked", e |-> e] \in Task
      BY <2>1 DEF Task, Checked
    <3> QED BY <2>4, <3>1 DEF PaymentWebhookCheck, rows, gateway, ForeignKeys
  <2>5. CASE StripeWebhookLoad(w, e)
    <3>1. [op |-> "stripe_loaded", e |-> e, bk |-> booking[e.b],
           sl |-> slot[booking[e.b].slot]] \in Task
      BY <2>1, <2>2 DEF Task, Loaded
    <3> QED BY <2>2, <2>5, <3>1 DEF StripeWebhookLoad, rows, gateway, ForeignKeys
  <2> QED BY <1>6, <2>3, <2>4, <2>5 DEF Deliver
<1>7. ASSUME NEW w \in Workers, PaymentWebhookLoad(w)
      PROVE  TypeInv'
  <2> DEFINE e == task[w].e
  <2>1. e \in sent /\ e \in Result /\ e.b \in Bookings
    BY <1>7 DEF PaymentWebhookLoad, ForeignKeys, Result
  <2>2. booking[e.b].slot \in Slots /\ booking[e.b].status # "absent"
    BY <2>1 DEF ForeignKeys
  <2>3. [op |-> "loaded", e |-> e, bk |-> booking[e.b],
         sl |-> slot[booking[e.b].slot]] \in Task
    BY <2>1, <2>2 DEF Task, Loaded
  <2> QED BY <1>7, <2>1, <2>2, <2>3 DEF PaymentWebhookLoad, rows, gateway, ForeignKeys
<1>8. ASSUME NEW w \in Workers, PaymentWebhookCommit(w)
      PROVE  TypeInv'
  <2> DEFINE t == task[w]
  <2>1. t.op \in {"loaded", "ticketed"}
    BY <1>8 DEF PaymentWebhookCommit
  <2>2. /\ t.e \in Result /\ t.e \in sent /\ t.e.b \in Bookings
        /\ t.bk.slot \in Slots
        /\ NewSlot(t) \in SlotRow /\ NewBooking(t) \in BookingRow
        /\ NewBooking(t).slot = t.bk.slot
        /\ NewBooking(t).status # "absent"
    BY <2>1, LoadedTask
  <2>3. TypeOK'
    BY <1>8, <2>2
    DEF PaymentWebhookCommit, Finish, Task
  <2>4. ForeignKeys'
    BY <1>8, <2>2
    DEF PaymentWebhookCommit, Finish, Idle, ForeignKeys, Result
  <2> QED BY <2>3, <2>4
<1>9. ASSUME NEW w \in Workers, PaymentWebhookAbort(w)
      PROVE  TypeInv'
  BY <1>9 DEF PaymentWebhookAbort, Finish, Task, Idle, rows, gateway, ForeignKeys
<1>10. ASSUME NEW w \in Workers, StripeWebhookSaveSlot(w)
       PROVE  TypeInv'
  <2> DEFINE t == task[w]
  <2>1. t.op = "stripe_loaded"
    BY <1>10 DEF StripeWebhookSaveSlot
  <2>2. /\ t \in Loaded /\ t.bk.slot \in Slots /\ t.bk.status # "absent"
        /\ NewSlot(t) \in SlotRow /\ t.e \in sent
    BY <2>1, LoadedTask
  <2>3. [t EXCEPT !.op = "stripe_saved"] \in Loaded
    BY <2>2 DEF Loaded
  <2>4. TypeOK'
    BY <1>10, <2>2, <2>3 DEF StripeWebhookSaveSlot, Task, gateway
  <2>5. ForeignKeys'
    BY <1>10, <2>1, <2>2, <2>3 DEF StripeWebhookSaveSlot, gateway, ForeignKeys, Loaded
  <2> QED BY <2>4, <2>5
<1>11. ASSUME NEW w \in Workers, StripeWebhookSaveBooking(w)
       PROVE  TypeInv'
  <2> DEFINE t == task[w]
  <2>1. t.op = "stripe_saved"
    BY <1>11 DEF StripeWebhookSaveBooking
  <2>2. /\ t.e \in Result /\ t.e \in sent /\ t.e.b \in Bookings
        /\ t.bk.slot \in Slots
        /\ NewBooking(t) \in BookingRow
        /\ NewBooking(t).slot = t.bk.slot
        /\ NewBooking(t).status # "absent"
    BY <2>1, LoadedTask
  <2>3. TypeOK'
    BY <1>11, <2>2 DEF StripeWebhookSaveBooking, Finish, Task
  <2>4. ForeignKeys'
    BY <1>11, <2>2 DEF StripeWebhookSaveBooking, Finish, Idle, ForeignKeys, Result
  <2> QED BY <2>3, <2>4
<1>12. ASSUME NEW w \in Workers, StripeWebhookAbort(w)
       PROVE  TypeInv'
  BY <1>12 DEF StripeWebhookAbort, Finish, Task, Idle, rows, gateway, ForeignKeys
<1>13. CASE ReminderLoad
  BY <1>13 DEF ReminderLoad, rows, gateway, ForeignKeys
<1>14. CASE ReminderSave
  <2>1. PICK r \in reminding :
          /\ booking' = [booking EXCEPT ![r.b] = [r.bk EXCEPT !.reminded = TRUE]]
          /\ reminding' = reminding \ {r}
          /\ UNCHANGED <<now, slot, splits, ledger, ticket, gateway, events, task>>
    BY <1>14 DEF ReminderSave
  <2>2. /\ r.b \in Bookings /\ r.bk \in BookingRow /\ r.bk.slot \in Slots
        /\ r.bk.status # "absent"
    BY DEF ForeignKeys
  <2>3. LET row == [r.bk EXCEPT !.reminded = TRUE]
        IN  /\ row \in BookingRow /\ row.slot \in Slots
            /\ row.status # "absent"
    BY <2>2 DEF BookingRow
  <2>4. TypeOK'
    BY <2>1, <2>2, <2>3 DEF gateway
  <2>5. ForeignKeys'
    BY <2>1, <2>2, <2>3 DEF gateway, ForeignKeys, Result
  <2> QED BY <2>4, <2>5
<1>15. CASE UNCHANGED vars
  BY <1>15 DEF vars, rows, gateway, ForeignKeys
<1>16. ASSUME NEW w \in Workers, PaymentWebhookTicket(w)
       PROVE  TypeInv'
  <2>1. TypeOK'
    BY <1>16, TicketStep
  <2>2. ForeignKeys'
    BY <1>16, TicketStep DEF ForeignKeys
  <2> QED BY <2>1, <2>2
<1>17. ASSUME NEW b \in Bookings, GetDigitalTicket(b)
       PROVE  TypeInv'
  BY <1>17 DEF GetDigitalTicket, Ticketed, gateway, ForeignKeys
<1> QED BY <1>1, <1>2, <1>3, <1>4, <1>5, <1>6, <1>7, <1>8, <1>9, <1>10, <1>11,
           <1>12, <1>13, <1>14, <1>15, <1>16, <1>17
        DEF Next, Environment, Start, Continue, Step, Failure

LEMMA TypeInvariant == Spec => []TypeInv
BY InitType, NextType, PTL DEF Spec

(* The tables and the goroutines' copies keep their types, in every        *)
(* environment: every hazard and both webhooks.                            *)
THEOREM TypeCorrect == Spec => []TypeOK
<1>1. TypeInv => TypeOK
  BY DEF TypeInv
<1> QED BY <1>1, TypeInvariant, PTL
-----------------------------------------------------------------------------
(* The row lock: what CreateBooking tested still holds when it commits.    *)

LEMMA LockInit == Init => LockInv
<1> SUFFICES ASSUME Init PROVE LockInv
  OBVIOUS
<1>1. TypeInv
  BY InitType
<1>2. CopyIsCurrent /\ LockIsExclusive /\ RemindsConfirmed
  BY DEF Init, CopyIsCurrent, LockIsExclusive, RemindsConfirmed, Idle
<1> QED BY <1>1, <1>2 DEF LockInv

LEMMA LockNext == LockInv /\ [Next]_vars => LockInv'
<1> SUFFICES ASSUME LockInv, [Next]_vars PROVE LockInv'
  OBVIOUS
<1>1. TypeInv /\ TypeInv' /\ TypeOK
  BY NextType DEF LockInv, TypeInv
<1> USE DEF LockInv, CopyIsCurrent, LockIsExclusive, RemindsConfirmed
<1>2. CASE Tick
  <2>1. now' >= now
    BY <1>1, <1>2 DEF Tick, TypeOK
  <2>2. \A s \in Slots : slot[s].hold \in Nat
    BY <1>1 DEF TypeOK, SlotRow
  <2> QED BY <1>1, <1>2, <2>1, <2>2, CreatingTask DEF Tick, rows, gateway, TypeOK
<1>3. ASSUME NEW w \in Workers, NEW b \in Bookings, NEW s \in Slots,
             NEW k \in Kinds, NEW F \in SUBSET Friends,
             CreateBookingLock(w, b, s, k, F)
      PROVE  LockInv'
  <2> DEFINE t == [op |-> "create", b |-> b, s |-> s, kind |-> k,
                   friends |-> F, sl |-> slot[s]]
  <2>1. task' = [task EXCEPT ![w] = t] /\ UNCHANGED <<now, slot, booking, reminding>>
    BY <1>3 DEF CreateBookingLock, rows
  <2>2. task'[w] = t /\ \A v \in Workers \ {w} : task'[v] = task[v]
    BY <1>1, <2>1 DEF TypeOK
  <2>3. k # "join" => ~slot[s].booked /\ slot[s].hold <= now
    <3>1. slot[s].hold \in Nat /\ now \in Nat
      BY <1>1 DEF TypeOK, SlotRow
    <3> QED BY <1>3, <3>1 DEF CreateBookingLock, Admits, Held
  <2>4. CopyIsCurrent'
    BY <1>3, <2>1, <2>2, <2>3 DEF CreateBookingLock
  <2>5. \A v \in Workers : task[v].op = "create" => task[v].b # b /\ task[v].s # s
    BY <1>3 DEF CreateBookingLock, Locked
  <2>6. LockIsExclusive'
    BY <2>2, <2>5
  <2> QED BY <1>1, <2>1, <2>4, <2>6
<1>4. ASSUME NEW w \in Workers, CreateBookingCommit(w)
      PROVE  LockInv'
  <2> DEFINE t == task[w]
  <2>1. t.op = "create" /\ t.b \in Bookings /\ t.s \in Slots
    BY <1>1, <1>4, CreatingTask DEF CreateBookingCommit
  <2>2. task'[w].op = "idle" /\ \A v \in Workers \ {w} : task'[v] = task[v]
    BY <1>1, <1>4 DEF CreateBookingCommit, Finish, Idle, TypeOK
  <2>3. \A s \in Slots : s # t.s => slot'[s] = slot[s]
    BY <1>1, <1>4 DEF CreateBookingCommit, TypeOK
  <2>4. \A b \in Bookings : b # t.b => booking'[b] = booking[b]
    BY <1>1, <1>4 DEF CreateBookingCommit, TypeOK
  <2>5. \A v \in Workers \ {w} : task[v].op = "create" =>
          task[v].s # t.s /\ task[v].b # t.b
    BY <2>1
  <2>6. CopyIsCurrent'
    BY <1>1, <1>4, <2>2, <2>3, <2>4, <2>5, CreatingTask
    DEF CreateBookingCommit
  <2>7. LockIsExclusive'
    BY <2>2
  <2> QED BY <1>1, <1>4, <2>6, <2>7 DEF CreateBookingCommit
<1>5. ASSUME NEW w \in Workers, CreateBookingRollback(w)
      PROVE  LockInv'
  BY <1>1, <1>5 DEF CreateBookingRollback, Finish, Idle, rows, TypeOK
<1>6. ASSUME NEW b \in Bookings, NEW o \in {"success", "failed"},
             PayInFull(b, o)
      PROVE  LockInv'
  BY <1>1, <1>6 DEF PayInFull, Produce, rows
<1>7. ASSUME NEW w \in Workers, NEW e \in sent, Deliver(w, e)
      PROVE  LockInv'
  BY <1>1, <1>7 DEF Deliver, PaymentWebhookSkip, PaymentWebhookCheck,
                    StripeWebhookLoad, rows, TypeOK
<1>8. ASSUME NEW w \in Workers, PaymentWebhookLoad(w)
      PROVE  LockInv'
  BY <1>1, <1>8 DEF PaymentWebhookLoad, rows, TypeOK
<1>9. ASSUME NEW w \in Workers, PaymentWebhookCommit(w)
      PROVE  LockInv'
  <2> DEFINE t == task[w]
  <2>1. /\ t.e.b \in Bookings /\ t.bk.slot \in Slots
        /\ t.op \in {"loaded", "ticketed"} /\ booking[t.e.b].status # "absent"
    BY <1>1, <1>9, LoadedTask DEF PaymentWebhookCommit, TypeInv, ForeignKeys
  <2>2. task'[w].op = "idle" /\ \A v \in Workers \ {w} : task'[v] = task[v]
    BY <1>1, <1>9 DEF PaymentWebhookCommit, Finish, Idle, TypeOK
  <2>3. \A s \in Slots : s # t.bk.slot => slot'[s] = slot[s]
    BY <1>1, <1>9 DEF PaymentWebhookCommit, TypeOK
  <2>4. \A b \in Bookings : b # t.e.b => booking'[b] = booking[b]
    BY <1>1, <1>9 DEF PaymentWebhookCommit, TypeOK
  <2>5. \A v \in Workers : task[v].op = "create" =>
          task[v].s # t.bk.slot /\ task[v].b # t.e.b
    BY <1>9, <2>1 DEF PaymentWebhookCommit, Locked
  <2>6. CopyIsCurrent'
    BY <1>1, <1>9, <2>2, <2>3, <2>4, <2>5, CreatingTask
    DEF PaymentWebhookCommit
  <2> QED BY <1>1, <1>9, <2>2, <2>6 DEF PaymentWebhookCommit
<1>10. ASSUME NEW w \in Workers, PaymentWebhookAbort(w)
       PROVE  LockInv'
  BY <1>1, <1>10 DEF PaymentWebhookAbort, Finish, Idle, rows, TypeOK
<1>11. ASSUME NEW w \in Workers, StripeWebhookSaveSlot(w)
       PROVE  LockInv'
  <2> DEFINE t == task[w]
  <2>1. t.bk.slot \in Slots /\ t \in Loaded
    BY <1>1, <1>11, LoadedTask DEF StripeWebhookSaveSlot
  <2>2. task'[w].op = "stripe_saved" /\ \A v \in Workers \ {w} : task'[v] = task[v]
    BY <1>1, <1>11, <2>1 DEF StripeWebhookSaveSlot, TypeOK, Loaded
  <2>3. \A s \in Slots : s # t.bk.slot => slot'[s] = slot[s]
    BY <1>1, <1>11 DEF StripeWebhookSaveSlot, TypeOK
  <2>4. \A v \in Workers : task[v].op = "create" => task[v].s # t.bk.slot
    BY <1>11 DEF StripeWebhookSaveSlot, Locked
  <2>5. CopyIsCurrent'
    BY <1>1, <1>11, <2>2, <2>3, <2>4, CreatingTask DEF StripeWebhookSaveSlot
  <2> QED BY <1>1, <1>11, <2>2, <2>5 DEF StripeWebhookSaveSlot
<1>12. ASSUME NEW w \in Workers, StripeWebhookSaveBooking(w)
       PROVE  LockInv'
  <2> DEFINE t == task[w]
  <2>1. t.e.b \in Bookings /\ booking[t.e.b].status # "absent"
    BY <1>1, <1>12, LoadedTask DEF StripeWebhookSaveBooking, TypeInv, ForeignKeys
  <2>2. task'[w].op = "idle" /\ \A v \in Workers \ {w} : task'[v] = task[v]
    BY <1>1, <1>12 DEF StripeWebhookSaveBooking, Finish, Idle, TypeOK
  <2>3. \A b \in Bookings : b # t.e.b => booking'[b] = booking[b]
    BY <1>1, <1>12 DEF StripeWebhookSaveBooking, TypeOK
  <2>4. CopyIsCurrent'
    BY <1>1, <1>12, <2>1, <2>2, <2>3, CreatingTask DEF StripeWebhookSaveBooking
  <2> QED BY <1>1, <1>12, <2>2, <2>4 DEF StripeWebhookSaveBooking
<1>13. ASSUME NEW w \in Workers, StripeWebhookAbort(w)
       PROVE  LockInv'
  BY <1>1, <1>13 DEF StripeWebhookAbort, Finish, Idle, rows, TypeOK
<1>14. CASE ReminderLoad
  BY <1>1, <1>14 DEF ReminderLoad, rows
<1>15. CASE ReminderSave
  <2>1. PICK r \in reminding :
          /\ booking' = [booking EXCEPT ![r.b] = [r.bk EXCEPT !.reminded = TRUE]]
          /\ reminding' = reminding \ {r}
          /\ UNCHANGED <<now, slot, task>>
    BY <1>15 DEF ReminderSave
  <2>2. r.b \in Bookings /\ booking[r.b].status # "absent"
    BY <1>1 DEF TypeInv, TypeOK, ForeignKeys
  <2>3. \A b \in Bookings : b # r.b => booking'[b] = booking[b]
    BY <1>1, <2>1 DEF TypeOK
  <2>4. CopyIsCurrent'
    BY <1>1, <2>1, <2>2, <2>3, CreatingTask
  <2> QED BY <1>1, <2>1, <2>4
<1>16. CASE UNCHANGED vars
  BY <1>1, <1>16 DEF vars, rows
<1>17. ASSUME NEW w \in Workers, PaymentWebhookTicket(w)
       PROVE  LockInv'
  <2>1. /\ task'[w].op = "ticketed" /\ \A v \in Workers \ {w} : task'[v] = task[v]
        /\ UNCHANGED <<now, slot, booking, reminding>>
    BY <1>1, <1>17, TicketStep
  <2>2. CopyIsCurrent' /\ LockIsExclusive' /\ RemindsConfirmed'
    BY <2>1
  <2> QED BY <1>1, <2>2
<1>18. ASSUME NEW b \in Bookings, GetDigitalTicket(b)
       PROVE  LockInv'
  BY <1>1, <1>18 DEF GetDigitalTicket
<1> QED BY <1>2, <1>3, <1>4, <1>5, <1>6, <1>7, <1>8, <1>9, <1>10, <1>11, <1>12,
           <1>13, <1>14, <1>15, <1>16, <1>17, <1>18
        DEF Next, Environment, Start, Continue, Step, Failure

LEMMA LockInvariant == Spec => []LockInv
BY LockInit, LockNext, PTL DEF Spec

(* What a step does that creates a booking: it takes a free slot.          *)
TakesFreeSlots ==
  \A b \in Bookings :
    LET s == booking'[b].slot IN
    /\ booking[b].status = "absent" /\ booking'[b].status = "pending"
    /\ booking'[b].kind # "join"
    => ~slot[s].booked /\ ~Held(slot[s])

LEMMA NextTakesFreeSlots == ASSUME LockInv, [Next]_vars PROVE TakesFreeSlots
<1> SUFFICES ASSUME NEW b \in Bookings,
                    booking[b].status = "absent",
                    booking'[b].status = "pending",
                    booking'[b].kind # "join"
             PROVE  /\ ~slot[booking'[b].slot].booked
                    /\ ~Held(slot[booking'[b].slot])
  BY DEF TakesFreeSlots
<1>1. TypeInv /\ TypeOK
  BY DEF LockInv, TypeInv
<1>2. ASSUME NEW w \in Workers, CreateBookingCommit(w)
      PROVE  /\ ~slot[booking'[b].slot].booked
             /\ ~Held(slot[booking'[b].slot])
  <2> DEFINE t == task[w]
  <2>1. t.op = "create" /\ t.b \in Bookings /\ t.s \in Slots /\ t.kind \in AllKinds
    BY <1>1, <1>2, CreatingTask DEF CreateBookingCommit
  <2>2. t.b = b
    BY <1>1, <1>2 DEF CreateBookingCommit, TypeOK
  <2>3. booking'[b].slot = t.s /\ booking'[b].kind = t.kind
    BY <1>1, <1>2, <2>1, <2>2, AbsentType
    DEF CreateBookingCommit, TypeOK, BookingRow
  <2>4. ~slot[t.s].booked /\ slot[t.s].hold <= now
    BY <2>1, <2>3 DEF LockInv, CopyIsCurrent
  <2>5. slot[t.s].hold \in Nat /\ now \in Nat
    BY <1>1, <2>1 DEF TypeOK, SlotRow
  <2> QED BY <2>3, <2>4, <2>5 DEF Held
<1>3. ASSUME NEW w \in Workers,
             PaymentWebhookCommit(w) \/ StripeWebhookSaveBooking(w)
      PROVE  FALSE
  <2>1. task[w].e.b \in Bookings
        /\ NewBooking(task[w]).status \in {"confirmed", "failed"}
    BY <1>1, <1>3, LoadedTask DEF PaymentWebhookCommit, StripeWebhookSaveBooking
  <2> QED BY <1>1, <1>3, <2>1
          DEF PaymentWebhookCommit, StripeWebhookSaveBooking, TypeOK
<1>4. ReminderSave => FALSE
  <2>1. ASSUME NEW r \in reminding,
               booking' = [booking EXCEPT ![r.b] = [r.bk EXCEPT !.reminded = TRUE]]
        PROVE  FALSE
    <3>1. r.b \in Bookings /\ r.bk \in BookingRow /\ r.bk.status = "confirmed"
      BY <1>1 DEF LockInv, RemindsConfirmed, TypeOK
    <3>2. [r.bk EXCEPT !.reminded = TRUE].status = "confirmed"
      BY <3>1 DEF BookingRow
    <3> QED BY <1>1, <2>1, <3>1, <3>2 DEF TypeOK
  <2> QED BY <2>1 DEF ReminderSave
<1>5. booking' # booking
  OBVIOUS
<1> QED
  BY <1>2, <1>3, <1>4, <1>5
  DEF Next, Environment, Start, Continue, Tick, CreateBookingLock, PayInFull, Produce,
      GetDigitalTicket, Deliver, PaymentWebhookSkip, PaymentWebhookCheck,
      StripeWebhookLoad, Step, PaymentWebhookLoad, PaymentWebhookTicket,
      StripeWebhookSaveSlot, Failure, CreateBookingRollback, PaymentWebhookAbort,
      StripeWebhookAbort, ReminderLoad, vars, rows

(* CreateBooking never takes a slot that is sold or under a live hold when *)
(* its transaction commits: whatever the webhooks, the cron and the other  *)
(* requests do between its test and its commit, in every environment.      *)
THEOREM HoldIsNotStolen == Spec => NoHoldStolen
<1>1. LockInv /\ [Next]_vars => TakesFreeSlots
  BY NextTakesFreeSlots
<1> QED BY <1>1, LockInvariant, PTL DEF Spec, NoHoldStolen, TakesFreeSlots
-----------------------------------------------------------------------------
(* A sale is final when the gateway reports one result of a booking.       *)

LEMMA FinalInit == ASSUME Init PROVE FinalInv
<1>1. OneOutcome /\ ConfirmedHasPaid
  BY DEF Init, OneOutcome, ConfirmedHasPaid, Confirmed, Absent
<1> QED BY <1>1, LockInit DEF FinalInv

(* What a webhook writes into a booking, from a copy however old, agrees   *)
(* with the only result there is.                                          *)
LEMMA WebhookAgrees ==
  ASSUME FinalInv, NEW w \in Workers,
         task[w].op \in {"loaded", "ticketed", "stripe_saved"}, task[w].e.part = "full",
         booking' = [booking EXCEPT ![task[w].e.b] = NewBooking(task[w])]
  PROVE  \A b \in Bookings :
           /\ Confirmed(b) => Confirmed(b)'
           /\ Confirmed(b)' => SuccessOf(b) \in sent
<1> DEFINE t == task[w]
<1>1. TypeInv /\ TypeOK
  BY DEF FinalInv, LockInv, TypeInv
<1>2. /\ t.e \in sent /\ t.e \in Result /\ t.e.b \in Bookings
      /\ t.bk \in BookingRow
  BY <1>1, LoadedTask
<1>3. /\ booking'[t.e.b] = NewBooking(t)
      /\ \A b \in Bookings : b # t.e.b => booking'[b] = booking[b]
  BY <1>1, <1>2 DEF TypeOK
<1>4. NewBooking(t).status = IF t.e.outcome = "success" THEN "confirmed" ELSE "failed"
  BY <1>2 DEF NewBooking, BookingRow
<1>5. t.e.outcome = "success" => t.e = SuccessOf(t.e.b)
  BY <1>2 DEF SuccessOf, Result
<1>6. Confirmed(t.e.b) => t.e = SuccessOf(t.e.b)
  BY <1>2 DEF FinalInv, OneOutcome, ConfirmedHasPaid, SuccessOf
<1>7. SuccessOf(t.e.b).outcome = "success"
  BY DEF SuccessOf
<1> QED BY <1>2, <1>3, <1>4, <1>5, <1>6, <1>7 DEF FinalInv, ConfirmedHasPaid, Confirmed

LEMMA FinalNext ==
  ASSUME "retry" \notin Hazards, FinalInv, [Next]_vars
  PROVE  FinalInv' /\ \A b \in Bookings : Confirmed(b) => Confirmed(b)'
<1>1. LockInv /\ LockInv' /\ TypeInv /\ TypeOK
  BY LockNext DEF FinalInv, LockInv, TypeInv
<1>2. ASSUME UNCHANGED <<sent, reminding>>,
             \A b \in Bookings : /\ Confirmed(b) => Confirmed(b)'
                                 /\ Confirmed(b)' => SuccessOf(b) \in sent
      PROVE  FinalInv' /\ \A b \in Bookings : Confirmed(b) => Confirmed(b)'
  BY <1>1, <1>2 DEF FinalInv, OneOutcome, ConfirmedHasPaid, SuccessOf
<1>3. ASSUME UNCHANGED <<booking, sent, reminding>>
      PROVE  FinalInv' /\ \A b \in Bookings : Confirmed(b) => Confirmed(b)'
  BY <1>2, <1>3 DEF FinalInv, ConfirmedHasPaid, Confirmed
<1>4. CASE Tick
  BY <1>3, <1>4 DEF Tick, rows, gateway
<1>5. ASSUME NEW b \in Bookings, NEW o \in {"success", "failed"}, PayInFull(b, o)
      PROVE  FinalInv' /\ \A a \in Bookings : Confirmed(a) => Confirmed(a)'
  <2> DEFINE e == [b |-> b, part |-> "full", outcome |-> o]
  <2>1. sent' = sent \cup {e} /\ UNCHANGED <<booking, reminding>>
    BY <1>5 DEF PayInFull, Produce, rows
  <2>2. \A x \in sent : x.b # b
    BY <1>5 DEF PayInFull, Produce, FinalInv, OneOutcome
  <2>3. OneOutcome'
    BY <2>1, <2>2 DEF FinalInv, OneOutcome
  <2> QED BY <1>1, <2>1, <2>3 DEF FinalInv, ConfirmedHasPaid, Confirmed, SuccessOf
<1>6. ASSUME NEW w \in Workers, NEW b \in Bookings, NEW s \in Slots,
             NEW k \in Kinds, NEW F \in SUBSET Friends,
             CreateBookingLock(w, b, s, k, F)
      PROVE  FinalInv' /\ \A a \in Bookings : Confirmed(a) => Confirmed(a)'
  BY <1>3, <1>6 DEF CreateBookingLock, rows, gateway
<1>7. ASSUME NEW w \in Workers, NEW e \in sent, Deliver(w, e)
      PROVE  FinalInv' /\ \A b \in Bookings : Confirmed(b) => Confirmed(b)'
  BY <1>3, <1>7 DEF Deliver, PaymentWebhookSkip, PaymentWebhookCheck,
                    StripeWebhookLoad, rows, gateway
<1>8. CASE ReminderLoad
  <2>1. UNCHANGED <<booking, sent>> /\ \A r \in reminding' : r.b \in Bookings /\ Confirmed(r.b)
    BY <1>8 DEF ReminderLoad, rows, gateway, Confirmed
  <2> QED BY <1>1, <2>1 DEF FinalInv, OneOutcome, ConfirmedHasPaid, Confirmed, SuccessOf
<1>9. ASSUME NEW w \in Workers, CreateBookingCommit(w)
      PROVE  FinalInv' /\ \A b \in Bookings : Confirmed(b) => Confirmed(b)'
  <2> DEFINE t == task[w]
  <2>1. /\ t.b \in Bookings /\ booking[t.b].status = "absent"
        /\ UNCHANGED <<sent, reminding>>
    BY <1>1, <1>9, CreatingTask DEF CreateBookingCommit, LockInv, CopyIsCurrent, gateway
  <2>2. /\ booking'[t.b].status = "pending"
        /\ \A b \in Bookings : b # t.b => booking'[b] = booking[b]
    BY <1>1, <1>9, <2>1, AbsentType DEF CreateBookingCommit, TypeOK, BookingRow
  <2> QED BY <1>2, <2>1, <2>2 DEF FinalInv, ConfirmedHasPaid, Confirmed
<1>10. ASSUME NEW w \in Workers,
              PaymentWebhookCommit(w) \/ StripeWebhookSaveBooking(w)
       PROVE  FinalInv' /\ \A b \in Bookings : Confirmed(b) => Confirmed(b)'
  <2>1. /\ task[w].op \in {"loaded", "ticketed", "stripe_saved"}
        /\ task[w].e.part = "full"
        /\ booking' = [booking EXCEPT ![task[w].e.b] = NewBooking(task[w])]
        /\ UNCHANGED <<sent, reminding>>
    BY <1>10 DEF PaymentWebhookCommit, StripeWebhookSaveBooking
  <2> QED BY <1>2, <2>1, WebhookAgrees
<1>11. ASSUME NEW w \in Workers,
              PaymentWebhookLoad(w) \/ PaymentWebhookTicket(w)
              \/ StripeWebhookSaveSlot(w) \/ Failure(w)
       PROVE  FinalInv' /\ \A b \in Bookings : Confirmed(b) => Confirmed(b)'
  BY <1>3, <1>11 DEF PaymentWebhookLoad, PaymentWebhookTicket, StripeWebhookSaveSlot,
                     Failure, CreateBookingRollback, PaymentWebhookAbort,
                     StripeWebhookAbort, rows, gateway
<1>12. CASE ReminderSave
  <2>1. PICK r \in reminding :
          /\ booking' = [booking EXCEPT ![r.b] = [r.bk EXCEPT !.reminded = TRUE]]
          /\ reminding' = reminding \ {r}
          /\ UNCHANGED sent
    BY <1>12 DEF ReminderSave, gateway
  <2>2. /\ r.b \in Bookings /\ r.bk \in BookingRow /\ r.bk.status = "confirmed"
        /\ SuccessOf(r.b) \in sent
    BY <1>1 DEF FinalInv, ConfirmedHasPaid, LockInv, RemindsConfirmed, TypeOK
  <2>3. /\ Confirmed(r.b)'
        /\ \A b \in Bookings : b # r.b => booking'[b] = booking[b]
    BY <1>1, <2>1, <2>2 DEF TypeOK, BookingRow, Confirmed
  <2> QED BY <1>1, <2>1, <2>2, <2>3
          DEF FinalInv, OneOutcome, ConfirmedHasPaid, Confirmed, SuccessOf
<1>13. CASE UNCHANGED vars
  BY <1>3, <1>13 DEF vars, rows, gateway
<1>14. ASSUME NEW b \in Bookings, GetDigitalTicket(b)
       PROVE  FinalInv' /\ \A a \in Bookings : Confirmed(a) => Confirmed(a)'
  BY <1>3, <1>14 DEF GetDigitalTicket, gateway
<1> QED BY <1>4, <1>5, <1>6, <1>7, <1>8, <1>9, <1>10, <1>11, <1>12, <1>13, <1>14
        DEF Next, Environment, Start, Continue, Step

(* Where a confirmation comes from: the booking, a reminder's copy of it   *)
(* or a webhook's copy of it was confirmed, or its ticket has been issued. *)
TicketInv ==
  /\ TypeInv /\ RemindsConfirmed
  /\ \A b \in Bookings : Confirmed(b) => b \in ticket
  /\ \A r \in reminding : r.b \in ticket
  /\ \A w \in Workers :
       /\ task[w].op \notin {"stripe_loaded", "stripe_saved"}
       /\ task[w].op = "ticketed" => task[w].e.b \in ticket

LEMMA TicketNext ==
  ASSUME Hooks \subseteq {"payment"}, "crash" \notin Hazards,
         TicketInv, LockInv, [Next]_vars
  PROVE  TicketInv'
<1>1. TypeInv /\ TypeInv' /\ TypeOK /\ LockInv'
  BY NextType, LockNext DEF TicketInv, TypeInv
<1> USE DEF TicketInv
<1>2. ASSUME \A b \in Bookings : Confirmed(b)' => Confirmed(b) \/ b \in ticket',
             \A r \in reminding' : r \in reminding \/ r.b \in ticket',
             \A w \in Workers :
               /\ task'[w].op \notin {"stripe_loaded", "stripe_saved"}
               /\ task'[w].op = "ticketed" => task'[w].e.b \in ticket',
             ticket \subseteq ticket'
      PROVE  TicketInv'
  BY <1>1, <1>2 DEF LockInv
<1>3. ASSUME UNCHANGED <<booking, ticket, reminding>>,
             \A w \in Workers :
               /\ task'[w].op \notin {"stripe_loaded", "stripe_saved"}
               /\ task'[w].op = "ticketed" => task'[w] = task[w]
      PROVE  TicketInv'
  BY <1>2, <1>3 DEF Confirmed
<1>4. CASE Tick \/ UNCHANGED vars
  BY <1>3, <1>4 DEF Tick, vars, rows
<1>5. ASSUME NEW b \in Bookings, NEW o \in {"success", "failed"}, PayInFull(b, o)
      PROVE  TicketInv'
  BY <1>3, <1>5 DEF PayInFull, Produce, rows
<1>6. ASSUME NEW b \in Bookings, GetDigitalTicket(b)
      PROVE  TicketInv'
  BY <1>2, <1>6 DEF GetDigitalTicket, Ticketed, Confirmed
<1>7. ASSUME NEW w \in Workers, NEW b \in Bookings, NEW s \in Slots,
             NEW k \in Kinds, NEW F \in SUBSET Friends,
             CreateBookingLock(w, b, s, k, F)
      PROVE  TicketInv'
  <2>1. /\ task'[w].op = "create" /\ \A v \in Workers \ {w} : task'[v] = task[v]
        /\ UNCHANGED <<booking, ticket, reminding>>
    BY <1>1, <1>7 DEF CreateBookingLock, rows, TypeOK
  <2> QED BY <1>3, <2>1
<1>8. ASSUME NEW w \in Workers, NEW e \in sent, Deliver(w, e)
      PROVE  TicketInv'
  <2>1. "stripe" \notin Hooks
    OBVIOUS
  <2>2. /\ task'[w].op = "checked" \/ task'[w] = task[w]
        /\ \A v \in Workers \ {w} : task'[v] = task[v]
        /\ UNCHANGED <<booking, ticket, reminding>>
    BY <1>1, <1>8, <2>1 DEF Deliver, PaymentWebhookSkip, PaymentWebhookCheck,
                            StripeWebhookLoad, rows, TypeOK
  <2> QED BY <1>3, <2>2
<1>9. CASE ReminderLoad
  <2>1. /\ UNCHANGED <<booking, ticket, task>>
        /\ \A r \in reminding' : r.b \in Bookings /\ Confirmed(r.b)
    BY <1>9 DEF ReminderLoad, rows, Confirmed
  <2> QED BY <1>2, <2>1 DEF Confirmed
<1>10. ASSUME NEW w \in Workers, CreateBookingCommit(w)
       PROVE  TicketInv'
  <2> DEFINE t == task[w]
  <2>1. t.b \in Bookings
    BY <1>1, <1>10, CreatingTask DEF CreateBookingCommit
  <2>2. /\ booking'[t.b].status = "pending"
        /\ \A b \in Bookings : b # t.b => booking'[b] = booking[b]
    BY <1>1, <1>10, <2>1, AbsentType DEF CreateBookingCommit, TypeOK, BookingRow
  <2>3. /\ task'[w].op = "idle" /\ \A v \in Workers \ {w} : task'[v] = task[v]
        /\ UNCHANGED <<ticket, reminding>>
    BY <1>1, <1>10 DEF CreateBookingCommit, Finish, Idle, TypeOK
  <2> QED BY <1>2, <2>2, <2>3 DEF Confirmed
<1>11. ASSUME NEW w \in Workers, PaymentWebhookLoad(w)
       PROVE  TicketInv'
  <2>1. /\ task'[w].op = "loaded" /\ \A v \in Workers \ {w} : task'[v] = task[v]
        /\ UNCHANGED <<booking, ticket, reminding>>
    BY <1>1, <1>11 DEF PaymentWebhookLoad, rows, TypeOK
  <2> QED BY <1>3, <2>1
<1>12. ASSUME NEW w \in Workers, PaymentWebhookTicket(w)
       PROVE  TicketInv'
  <2>1. /\ task'[w].op = "ticketed" /\ task'[w].e = task[w].e
        /\ \A v \in Workers \ {w} : task'[v] = task[v]
        /\ UNCHANGED <<booking, reminding>>
    BY <1>1, <1>12, TicketStep
  <2>2. ticket' = ticket \cup {task[w].e.b}
    BY <1>12 DEF PaymentWebhookTicket, Ticketed
  <2> QED BY <1>2, <2>1, <2>2 DEF Confirmed
<1>13. ASSUME NEW w \in Workers, PaymentWebhookCommit(w)
       PROVE  TicketInv'
  <2> DEFINE t == task[w]
  <2>1. /\ t.op \in {"loaded", "ticketed"}
        /\ t.e.outcome = "success" => t.op = "ticketed"
        /\ booking' = [booking EXCEPT ![t.e.b] = NewBooking(t)]
    BY <1>13 DEF PaymentWebhookCommit
  <2>2. t.e.b \in Bookings /\ t.bk \in BookingRow
    BY <1>1, <2>1, LoadedTask
  <2>3. NewBooking(t).status = "confirmed" => t.e.outcome = "success"
    BY <2>2 DEF NewBooking, BookingRow
  <2>4. booking'[t.e.b] = NewBooking(t)
        /\ \A b \in Bookings : b # t.e.b => booking'[b] = booking[b]
    BY <1>1, <2>1, <2>2 DEF TypeOK
  <2>5. \A b \in Bookings : b = t.e.b => (Confirmed(b)' => b \in ticket)
    BY <2>1, <2>3, <2>4 DEF Confirmed
  <2>6. /\ task'[w].op = "idle" /\ \A v \in Workers \ {w} : task'[v] = task[v]
        /\ UNCHANGED <<ticket, reminding>>
    BY <1>1, <1>13 DEF PaymentWebhookCommit, Finish, Idle, TypeOK
  <2> QED BY <1>2, <2>4, <2>5, <2>6 DEF Confirmed
<1>14. ASSUME NEW w \in Workers, Failure(w)
       PROVE  TicketInv'
  <2>1. /\ task'[w].op = "idle" /\ \A v \in Workers \ {w} : task'[v] = task[v]
        /\ UNCHANGED <<booking, ticket, reminding>>
    BY <1>1, <1>14 DEF Failure, CreateBookingRollback, PaymentWebhookAbort,
                       StripeWebhookAbort, Finish, Idle, rows, TypeOK
  <2> QED BY <1>3, <2>1
<1>15. CASE ReminderSave
  <2>1. PICK r \in reminding :
          /\ booking' = [booking EXCEPT ![r.b] = [r.bk EXCEPT !.reminded = TRUE]]
          /\ reminding' = reminding \ {r}
          /\ UNCHANGED <<ticket, task>>
    BY <1>15 DEF ReminderSave
  <2>2. \A b \in Bookings : b # r.b => booking'[b] = booking[b]
    BY <1>1, <2>1 DEF TypeOK
  <2> QED BY <1>2, <2>1, <2>2 DEF Confirmed
<1>16. ASSUME NEW w \in Workers,
              StripeWebhookSaveSlot(w) \/ StripeWebhookSaveBooking(w)
       PROVE  FALSE
  BY <1>16 DEF StripeWebhookSaveSlot, StripeWebhookSaveBooking
<1> QED BY <1>4, <1>5, <1>6, <1>7, <1>8, <1>9, <1>10, <1>11, <1>12, <1>13, <1>14,
           <1>15, <1>16
        DEF Next, Environment, Start, Continue, Step

(* The ticket is issued outside the webhook's transaction and before it    *)
(* commits, so a confirmed booking always has one: whatever the results,   *)
(* late, repeated, contradictory or overlapping, as long as no issue of a  *)
(* ticket fails (the handler then confirms without) and the payment        *)
(* webhook alone is used (the Stripe webhook issues none).                 *)
THEOREM ConfirmedIsTicketed ==
  ASSUME Hooks \subseteq {"payment"}, "crash" \notin Hazards
  PROVE  Spec => []ConfirmedHasTicket
<1>1. Init => TicketInv
  BY InitType DEF Init, TicketInv, RemindsConfirmed, Confirmed, Absent, Idle
<1>2. ASSUME TicketInv, LockInv, [Next]_vars PROVE TicketInv'
  BY <1>2, TicketNext
<1>3. TicketInv => ConfirmedHasTicket
  BY DEF TicketInv, ConfirmedHasTicket
<1> QED BY <1>1, <1>2, <1>3, LockInvariant, PTL DEF Spec
-----------------------------------------------------------------------------
(* One ledger row per payment.                                             *)

LEMMA LedgerInit == Init => LedgerInv
<1> SUFFICES ASSUME Init PROVE LedgerInv
  OBVIOUS
<1>1. TypeInv
  BY InitType
<1>2. OneWorkerPerEvent /\ LedgerFollowsEvent /\ CheckedIsNew
  BY DEF Init, OneWorkerPerEvent, LedgerFollowsEvent, CheckedIsNew, Idle, Processing
<1> QED BY <1>1, <1>2 DEF LedgerInv

(* With one delivery of a result at a time, starting on a result does not  *)
(* give it a second worker.                                                *)
LEMMA DeliverKeepsOneWorker ==
  ASSUME TypeInv, OneWorkerPerEvent, "overlap" \notin Hazards,
         NEW w \in Workers, NEW e \in sent, Deliver(w, e)
  PROVE  OneWorkerPerEvent'
<1>1. TypeOK
  BY DEF TypeInv
<1>2. CASE PaymentWebhookSkip(w, e)
  BY <1>2 DEF PaymentWebhookSkip, OneWorkerPerEvent, Processing
<1>3. CASE PaymentWebhookCheck(w, e) \/ StripeWebhookLoad(w, e)
  <2>1. \A v \in Workers : ~Processing(v, e)
    BY <1>3 DEF PaymentWebhookCheck, StripeWebhookLoad, Deliverable
  <2>2. task'[w].e = e /\ \A v \in Workers \ {w} : task'[v] = task[v]
    BY <1>1, <1>3 DEF PaymentWebhookCheck, StripeWebhookLoad, TypeOK
  <2> QED BY <2>1, <2>2 DEF OneWorkerPerEvent, Processing
<1> QED BY <1>2, <1>3 DEF Deliver

(* Every other step keeps a worker on its result or takes it off.          *)
LEMMA OthersKeepOneWorker ==
  ASSUME TypeInv, OneWorkerPerEvent,
         \A v \in Workers : \A x \in Result :
           Processing(v, x)' => Processing(v, x)
  PROVE  OneWorkerPerEvent'
BY DEF OneWorkerPerEvent

LEMMA LedgerNext ==
  ASSUME {"overlap", "no_event_id"} \cap Hazards = {}, LedgerInv, [Next]_vars
  PROVE  LedgerInv'
<1>1. TypeInv /\ TypeInv' /\ TypeOK
  BY NextType DEF LedgerInv, TypeInv
<1>2. "overlap" \notin Hazards /\ "no_event_id" \notin Hazards
  OBVIOUS
<1> USE DEF LedgerInv, LedgerFollowsEvent, CheckedIsNew
<1>3. ASSUME \A v \in Workers : \A x \in Result : Processing(v, x)' => Processing(v, x),
             \A v \in Workers : /\ task'[v].op = "checked" => task'[v] = task[v]
                                /\ task'[v].op \in {"loaded", "ticketed"} =>
                                     /\ task[v].op \in {"loaded", "ticketed"}
                                     /\ task'[v].e = task[v].e,
             UNCHANGED <<ledger, events>>
      PROVE  LedgerInv'
  BY <1>1, <1>3, OthersKeepOneWorker
<1>4. CASE Tick \/ ReminderLoad \/ ReminderSave \/ UNCHANGED vars
  BY <1>3, <1>4 DEF Tick, ReminderLoad, ReminderSave, vars, rows, Processing
<1>5. ASSUME NEW w \in Workers, NEW b \in Bookings, NEW s \in Slots,
             NEW k \in Kinds, NEW F \in SUBSET Friends,
             CreateBookingLock(w, b, s, k, F)
      PROVE  LedgerInv'
  BY <1>1, <1>3, <1>5 DEF CreateBookingLock, rows, Processing, TypeOK
<1>6. ASSUME NEW w \in Workers,
             CreateBookingCommit(w) \/ CreateBookingRollback(w)
             \/ PaymentWebhookAbort(w) \/ StripeWebhookAbort(w)
             \/ StripeWebhookSaveBooking(w)
      PROVE  LedgerInv'
  <2>1. /\ task'[w].op = "idle"
        /\ \A v \in Workers \ {w} : task'[v] = task[v]
        /\ UNCHANGED <<ledger, events>>
    BY <1>1, <1>6
    DEF CreateBookingCommit, CreateBookingRollback, PaymentWebhookAbort,
        StripeWebhookAbort, StripeWebhookSaveBooking, Finish, Idle, rows, TypeOK
  <2> QED BY <1>3, <2>1 DEF Processing
<1>7. ASSUME NEW b \in Bookings, NEW o \in {"success", "failed"}, PayInFull(b, o)
      PROVE  LedgerInv'
  BY <1>3, <1>7 DEF PayInFull, Produce, rows, Processing
<1>8. ASSUME NEW w \in Workers, NEW e \in sent, Deliver(w, e)
      PROVE  LedgerInv'
  <2>1. OneWorkerPerEvent'
    BY <1>1, <1>2, <1>8, DeliverKeepsOneWorker
  <2>2. CheckedIsNew' /\ LedgerFollowsEvent'
    BY <1>1, <1>2, <1>8
    DEF Deliver, PaymentWebhookSkip, PaymentWebhookCheck, StripeWebhookLoad,
        Recorded, rows, TypeOK
  <2> QED BY <1>1, <2>1, <2>2
<1>9. ASSUME NEW w \in Workers, PaymentWebhookLoad(w)
      PROVE  LedgerInv'
  <2> DEFINE e == task[w].e
  <2>1. e \in Result /\ e \notin events /\ Processing(w, e)
    BY <1>1, <1>9 DEF PaymentWebhookLoad, TypeInv, TypeOK, ForeignKeys, Processing
  <2>2. /\ task'[w].op = "loaded" /\ task'[w].e = e
        /\ \A v \in Workers \ {w} : task'[v] = task[v]
        /\ events' = events \cup {e} /\ ledger' = ledger
    BY <1>1, <1>9 DEF PaymentWebhookLoad, TypeOK, rows
  <2>3. \A v \in Workers \ {w} : ~Processing(v, e)
    BY <2>1 DEF OneWorkerPerEvent
  <2>4. OneWorkerPerEvent'
    BY <2>1, <2>2, <2>3, OthersKeepOneWorker, <1>1 DEF Processing
  <2>5. CheckedIsNew'
    BY <2>2, <2>3 DEF Processing
  <2>6. LedgerFollowsEvent'
    BY <2>1, <2>2
  <2> QED BY <1>1, <2>4, <2>5, <2>6
<1>10. ASSUME NEW w \in Workers, PaymentWebhookCommit(w)
       PROVE  LedgerInv'
  <2> DEFINE t == task[w]
  <2>1. /\ t.op \in {"loaded", "ticketed"} /\ t.e \in Result
        /\ t.e \in events /\ t.e.b \in Bookings
    BY <1>1, <1>10, LoadedTask DEF PaymentWebhookCommit
  <2>2. /\ task'[w] = Idle /\ events' = events
        /\ \A v \in Workers \ {w} : task'[v] = task[v]
    BY <1>1, <1>10 DEF PaymentWebhookCommit, Finish, TypeOK
  <2>3. OneWorkerPerEvent' /\ CheckedIsNew'
    BY <1>1, <2>2, OthersKeepOneWorker DEF Processing, Idle
  <2>4. CASE t.e.outcome = "success"
    <3>1. PICK c \in Bookings : c = t.e.b
      BY <2>1
    <3>2. t.e = SuccessOf(c)
      BY <1>10, <2>1, <2>4, <3>1 DEF PaymentWebhookCommit, Result, SuccessOf
    <3>3. ledger[c] + 1 = 1
      <4>1. ledger[c] \in Nat
        BY <1>1 DEF TypeOK
      <4>2. ledger[c] <= 1
        OBVIOUS
      <4>3. ledger[c] # 1
        <5>1. t.op \in {"loaded", "ticketed"}
          BY <2>1
        <5> QED BY <3>2, <5>1
      <4> QED BY <4>1, <4>2, <4>3
    <3>4. ledger' = [ledger EXCEPT ![c] = ledger[c] + 1]
      BY <1>10, <2>4, <3>1 DEF PaymentWebhookCommit
    <3>5. \A v \in Workers :
            task'[v].op \in {"loaded", "ticketed"} => task'[v].e # SuccessOf(c)
      BY <2>1, <2>2, <3>2 DEF OneWorkerPerEvent, Processing, Idle
    <3>6. LedgerFollowsEvent'
      <4> SUFFICES ASSUME NEW b \in Bookings
                   PROVE  /\ ledger'[b] <= 1
                          /\ ledger'[b] = 1 =>
                               /\ SuccessOf(b) \in events
                               /\ \A v \in Workers : task'[v].op \in {"loaded", "ticketed"}
                                    => task'[v].e # SuccessOf(b)
        BY <2>2
      <4>1. CASE b = c
        BY <1>1, <2>1, <3>2, <3>3, <3>4, <3>5, <4>1 DEF TypeOK
      <4>2. CASE b # c
        <5>1. ledger'[b] = ledger[b]
          BY <1>1, <3>4, <4>2 DEF TypeOK
        <5> QED BY <2>2, <5>1 DEF Idle
      <4> QED BY <4>1, <4>2
    <3> QED BY <1>1, <2>3, <3>6
  <2>5. CASE t.e.outcome # "success"
    <3>1. ledger' = ledger
      BY <1>10, <2>5 DEF PaymentWebhookCommit
    <3>2. LedgerFollowsEvent'
      BY <2>2, <3>1 DEF Idle
    <3> QED BY <1>1, <2>3, <3>2
  <2> QED BY <2>4, <2>5
<1>11. ASSUME NEW w \in Workers, StripeWebhookSaveSlot(w)
       PROVE  LedgerInv'
  <2>1. task[w] \in Loaded
    BY <1>1, <1>11, LoadedTask DEF StripeWebhookSaveSlot
  <2>2. /\ task'[w].op = "stripe_saved" /\ task'[w].e = task[w].e
        /\ \A v \in Workers \ {w} : task'[v] = task[v]
    BY <1>1, <1>11, <2>1 DEF StripeWebhookSaveSlot, TypeOK, Loaded
  <2> QED BY <1>3, <1>11, <2>2 DEF StripeWebhookSaveSlot, Processing
<1>12. ASSUME NEW w \in Workers, PaymentWebhookTicket(w)
       PROVE  LedgerInv'
  <2>1. /\ task[w].op = "loaded" /\ task'[w].op = "ticketed"
        /\ task'[w].e = task[w].e /\ \A v \in Workers \ {w} : task'[v] = task[v]
        /\ UNCHANGED <<ledger, events>>
    BY <1>1, <1>12, TicketStep
  <2> QED BY <1>3, <2>1 DEF Processing
<1>13. ASSUME NEW b \in Bookings, GetDigitalTicket(b)
       PROVE  LedgerInv'
  BY <1>3, <1>13 DEF GetDigitalTicket, Processing
<1> QED BY <1>4, <1>5, <1>6, <1>7, <1>8, <1>9, <1>10, <1>11, <1>12, <1>13
        DEF Next, Environment, Start, Continue, Step, Failure

(* A payment is entered into the ledger once, when its deliveries carry an *)
(* event_id and do not overlap: late, repeated, out of order, interrupted  *)
(* by crashes, with either webhook.                                        *)
THEOREM LedgerIsOnce ==
  ASSUME {"overlap", "no_event_id"} \cap Hazards = {}
  PROVE  Spec => []OneLedgerRow
<1>1. LedgerInv => OneLedgerRow
  BY DEF LedgerInv, LedgerFollowsEvent, OneLedgerRow
<1>2. LedgerInv /\ [Next]_vars => LedgerInv'
  BY LedgerNext
<1> QED BY <1>1, <1>2, LedgerInit, PTL DEF Spec
-----------------------------------------------------------------------------
(* No double booking, for a careful gateway.                               *)

LEMMA BookingInit == ASSUME Init PROVE BookingInv
<1>1. LockInv /\ OneWorkerPerEvent
  BY LockInit, LedgerInit DEF LedgerInv
<1>2. OnlyNormal /\ ResultsAreUnique /\ TasksAreCurrent /\ RemindersAreCurrent
  BY DEF Init, OnlyNormal, ResultsAreUnique, TasksAreCurrent,
         RemindersAreCurrent, Absent, Idle
<1>3. RowTellsHolder /\ HolderIsUnique
  BY DEF Init, RowTellsHolder, HolderIsUnique, Live, Confirmed, Absent
<1> QED BY <1>1, <1>2, <1>3 DEF BookingInv

LEMMA NormalDeadline ==
  ASSUME OnlyNormal, NEW b \in Bookings
  PROVE  Deadline(b) = booking[b].bookedAt + HoldTime
BY DEF OnlyNormal, Deadline, HoldFor

(* A step that leaves slots, bookings and the clock alone.                 *)
LEMMA RowsUnchanged ==
  ASSUME RowTellsHolder, HolderIsUnique, UNCHANGED <<now, slot, booking>>
  PROVE  RowTellsHolder' /\ HolderIsUnique'
BY DEF RowTellsHolder, HolderIsUnique, Live, Confirmed, SameSlot, Deadline

(* CreateBooking commits: the slot it locked had no holder and no buyer.   *)
LEMMA CommitKeepsBookingInv ==
  ASSUME CarefulGateway, BookingInv, NEW w \in Workers, CreateBookingCommit(w),
         LockInv'
  PROVE  BookingInv'
<1> DEFINE t == task[w]
<1>1. TypeInv /\ TypeOK /\ now \in Nat /\ HoldTime \in Nat \ {0}
  BY CheckoutAssumption DEF BookingInv, LockInv, TypeInv, TypeOK
<1>2. /\ t.op = "create" /\ t.b \in Bookings /\ t.s \in Slots
      /\ t.sl \in SlotRow /\ t.sl = slot[t.s] /\ t.kind = "normal"
      /\ ~slot[t.s].booked /\ slot[t.s].hold <= now
      /\ slot[t.s].hold \in Nat
      /\ booking[t.b].status = "absent"
  BY <1>1, CreatingTask
  DEF CreateBookingCommit, BookingInv, LockInv, CopyIsCurrent, OnlyNormal, SlotRow
<1>3. /\ booking'[t.b].slot = t.s /\ booking'[t.b].kind = "normal"
      /\ booking'[t.b].status = "pending" /\ booking'[t.b].bookedAt = now
      /\ \A b \in Bookings \ {t.b} : booking'[b] = booking[b]
  BY <1>1, <1>2, AbsentType DEF CreateBookingCommit, TypeOK, BookingRow
<1>4. /\ slot'[t.s].hold = now + HoldTime /\ ~slot'[t.s].booked
      /\ \A s \in Slots \ {t.s} : slot'[s] = slot[s]
  BY <1>1, <1>2 DEF CreateBookingCommit, TypeOK, SlotRow, HoldFor
<1>5. /\ task'[w] = Idle /\ \A v \in Workers \ {w} : task'[v] = task[v]
      /\ UNCHANGED <<now, sent, acked, events, reminding>>
  BY <1>1 DEF CreateBookingCommit, Finish, TypeOK, gateway
<1>6. \A e \in sent : e.b \in Bookings /\ e.b # t.b
  BY <1>1, <1>2 DEF TypeInv, TypeOK, ForeignKeys, Result
<1>7. OnlyNormal'
  BY <1>2, <1>3, <1>5 DEF BookingInv, OnlyNormal, Idle
<1>8. \A b \in Bookings \ {t.b} : Deadline(b)' = Deadline(b)
  BY <1>3 DEF Deadline
<1>9. ResultsAreUnique'
  BY <1>3, <1>5, <1>6, <1>8 DEF BookingInv, ResultsAreUnique
<1>10. TasksAreCurrent'
  BY <1>1, <1>3, <1>5, <1>6 DEF BookingInv, TasksAreCurrent, Idle
<1>11. RemindersAreCurrent'
  BY <1>1, <1>2, <1>3, <1>5 DEF BookingInv, RemindersAreCurrent, TypeOK
<1>12. \A b \in Bookings : booking[b].slot = t.s => ~Live(b) /\ ~Confirmed(b)
  <2> SUFFICES ASSUME NEW b \in Bookings, booking[b].slot = t.s
               PROVE  ~Live(b) /\ ~Confirmed(b)
    OBVIOUS
  <2>1. ~Confirmed(b)
    BY <1>2 DEF BookingInv, RowTellsHolder
  <2>2. Live(b) => slot[t.s].hold = Deadline(b) /\ now < Deadline(b)
    BY DEF BookingInv, RowTellsHolder, Live
  <2> QED BY <1>1, <1>2, <2>1, <2>2
<1>13. \A b \in Bookings : b = t.b => Deadline(b)' = now + HoldTime
  BY <1>3 DEF Deadline, HoldFor
<1>14. RowTellsHolder' /\ HolderIsUnique'
  <2>1. \A b \in Bookings \ {t.b} :
          /\ Live(b)' = Live(b) /\ Confirmed(b)' = Confirmed(b)
          /\ booking'[b].slot = booking[b].slot
    BY <1>3, <1>5, <1>8 DEF Live, Confirmed
  <2>2. \A b \in Bookings : b = t.b => ~Confirmed(b)'
    BY <1>3 DEF Confirmed
  <2>3. \A b \in Bookings \ {t.b} : (Live(b) \/ Confirmed(b)) =>
          booking[b].slot \in Slots /\ booking[b].slot # t.s
    BY <1>12 DEF BookingInv, OnlyNormal, Live, Confirmed
  <2>4. RowTellsHolder'
    BY <1>2, <1>3, <1>4, <1>8, <1>13, <2>1, <2>2, <2>3 DEF BookingInv, RowTellsHolder
  <2>5. HolderIsUnique'
    BY <1>3, <2>1, <2>2, <2>3 DEF BookingInv, HolderIsUnique, SameSlot
  <2> QED BY <2>4, <2>5
<1>15. OneWorkerPerEvent'
  BY <1>1, <1>5, OthersKeepOneWorker DEF BookingInv, Processing, Idle
<1> QED BY <1>7, <1>9, <1>10, <1>11, <1>14, <1>15 DEF BookingInv

(* The webhook commits: its booking is the live holder of the slot, so     *)
(* what it writes from its old copies is what the rows should hold.        *)
LEMMA PaymentKeepsBookingInv ==
  ASSUME CarefulGateway, BookingInv, NEW w \in Workers, PaymentWebhookCommit(w),
         LockInv'
  PROVE  BookingInv'
<1> DEFINE t == task[w]
<1>1. TypeInv /\ TypeOK /\ now \in Nat
  BY DEF BookingInv, LockInv, TypeInv, TypeOK
<1>2. /\ t.op \in {"loaded", "ticketed"} /\ t.e \in Result /\ t.e.b \in Bookings
      /\ t.bk \in BookingRow /\ t.bk.slot \in Slots /\ t.sl \in SlotRow
  BY <1>1, LoadedTask DEF PaymentWebhookCommit
<1>3. /\ t.e \in sent /\ t.e \notin acked /\ t.e \in events
      /\ t.bk = booking[t.e.b] /\ t.bk.status = "pending" /\ ~t.sl.booked
      /\ t.bk.kind = "normal"
  BY <1>2 DEF BookingInv, TasksAreCurrent, OnlyNormal
<1>4. /\ booking'[t.e.b].slot = booking[t.e.b].slot
      /\ booking'[t.e.b].kind = "normal"
      /\ booking'[t.e.b].bookedAt = booking[t.e.b].bookedAt
      /\ booking'[t.e.b].status \in {"confirmed", "failed"}
      /\ booking'[t.e.b].status = "confirmed" <=> t.e.outcome = "success"
      /\ \A b \in Bookings \ {t.e.b} : booking'[b] = booking[b]
  BY <1>1, <1>2, <1>3 DEF PaymentWebhookCommit, NewBooking, TypeOK, BookingRow
<1>5. /\ slot'[t.bk.slot].booked <=> t.e.outcome = "success"
      /\ \A s \in Slots \ {t.bk.slot} : slot'[s] = slot[s]
  <2>1. slot'[t.bk.slot] = NewSlot(t)
    BY <1>1, <1>2 DEF PaymentWebhookCommit, TypeOK
  <2>2. NewSlot(t).booked <=> t.e.outcome = "success"
    BY <1>2, <1>3 DEF NewSlot, Sold, SlotRow, Result
  <2> QED BY <1>1, <1>2, <2>1, <2>2 DEF PaymentWebhookCommit, TypeOK
<1>6. /\ task'[w] = Idle /\ \A v \in Workers \ {w} : task'[v] = task[v]
      /\ acked' = acked \cup {t.e} /\ UNCHANGED <<now, sent, events, reminding>>
  BY <1>1 DEF PaymentWebhookCommit, Finish, TypeOK
<1>7. \A b \in Bookings : Deadline(b)' = Deadline(b)
  BY <1>3, <1>4 DEF Deadline
<1>8. \A e \in sent : e.b \in Bookings /\ (e # t.e => e.b # t.e.b)
  BY <1>1, <1>3 DEF BookingInv, ResultsAreUnique, TypeOK, Result
<1>9. OnlyNormal'
  BY <1>2, <1>3, <1>4, <1>6 DEF BookingInv, OnlyNormal, Idle
<1>10. ResultsAreUnique'
  BY <1>2, <1>3, <1>4, <1>6, <1>7, <1>8 DEF BookingInv, ResultsAreUnique
<1>11. \A v \in Workers \ {w} :
         task[v].op \in {"checked", "loaded", "ticketed"} =>
           task[v].e \in sent /\ task[v].e # t.e
  BY <1>2 DEF BookingInv, OneWorkerPerEvent, Processing, TasksAreCurrent
<1>12. TasksAreCurrent'
  BY <1>1, <1>4, <1>6, <1>8, <1>11 DEF BookingInv, TasksAreCurrent, Idle
<1>13. RemindersAreCurrent'
  BY <1>1, <1>3, <1>4, <1>6 DEF BookingInv, RemindersAreCurrent, TypeOK
<1>14. Live(t.e.b)
  BY <1>3 DEF BookingInv, ResultsAreUnique, Live
<1>15. \A b \in Bookings \ {t.e.b} :
         booking[b].slot = t.bk.slot => ~Live(b) /\ ~Confirmed(b)
  BY <1>2, <1>3, <1>14 DEF BookingInv, RowTellsHolder, HolderIsUnique, SameSlot
<1>16. RowTellsHolder' /\ HolderIsUnique'
  <2>1. \A b \in Bookings \ {t.e.b} :
          /\ Live(b)' = Live(b) /\ Confirmed(b)' = Confirmed(b)
          /\ booking'[b].slot = booking[b].slot
    BY <1>4, <1>6, <1>7 DEF Live, Confirmed
  <2>2. \A b \in Bookings : b = t.e.b =>
          /\ ~Live(b)' /\ booking'[b].slot = t.bk.slot
          /\ Confirmed(b)' => slot'[t.bk.slot].booked
    BY <1>3, <1>4, <1>5 DEF Live, Confirmed
  <2>3. \A b \in Bookings \ {t.e.b} : (Live(b) \/ Confirmed(b)) =>
          booking[b].slot \in Slots /\ booking[b].slot # t.bk.slot
    BY <1>15 DEF BookingInv, OnlyNormal, Live, Confirmed
  <2>4. RowTellsHolder'
    BY <1>5, <1>7, <2>1, <2>2, <2>3 DEF BookingInv, RowTellsHolder
  <2>5. HolderIsUnique'
    BY <2>1, <2>2, <2>3 DEF BookingInv, HolderIsUnique, SameSlot
  <2> QED BY <2>4, <2>5
<1>17. OneWorkerPerEvent'
  BY <1>1, <1>6, OthersKeepOneWorker DEF BookingInv, Processing, Idle
<1> QED BY <1>9, <1>10, <1>12, <1>13, <1>16, <1>17 DEF BookingInv

(* The reminder saves a copy that says what the row says.                  *)
LEMMA ReminderKeepsBookingInv ==
  ASSUME BookingInv, ReminderSave, LockInv'
  PROVE  BookingInv'
<1>1. TypeInv /\ TypeOK
  BY DEF BookingInv, LockInv, TypeInv
<1>2. PICK r \in reminding :
        /\ booking' = [booking EXCEPT ![r.b] = [r.bk EXCEPT !.reminded = TRUE]]
        /\ reminding' = reminding \ {r}
        /\ UNCHANGED <<now, slot, sent, acked, events, task>>
  BY DEF ReminderSave, gateway
<1>3. /\ r.b \in Bookings /\ r.bk \in BookingRow
      /\ r.bk.status = "confirmed" /\ booking[r.b].status = "confirmed"
      /\ r.bk.slot = booking[r.b].slot /\ r.bk.kind = booking[r.b].kind
  BY <1>1 DEF BookingInv, RemindersAreCurrent, TypeOK
<1>4. /\ booking'[r.b].status = "confirmed"
      /\ booking'[r.b].slot = booking[r.b].slot
      /\ booking'[r.b].kind = booking[r.b].kind
      /\ \A b \in Bookings \ {r.b} : booking'[b] = booking[b]
  BY <1>1, <1>2, <1>3 DEF TypeOK, BookingRow
<1>5. \A e \in sent \ acked : e.b \in Bookings \ {r.b}
  BY <1>1, <1>3 DEF BookingInv, TasksAreCurrent, TypeOK, Result
<1>6. OnlyNormal'
  BY <1>2, <1>3, <1>4 DEF BookingInv, OnlyNormal
<1>7. ResultsAreUnique'
  <2>1. \A e \in sent : e.b \in Bookings
    BY <1>1 DEF TypeOK, Result
  <2> QED BY <1>2, <1>3, <1>4, <1>5, <2>1
          DEF BookingInv, ResultsAreUnique, Deadline
<1>8. TasksAreCurrent'
  BY <1>2, <1>4, <1>5 DEF BookingInv, TasksAreCurrent
<1>9. RemindersAreCurrent'
  BY <1>1, <1>2, <1>4 DEF BookingInv, RemindersAreCurrent, TypeOK
<1>10. RowTellsHolder' /\ HolderIsUnique'
  <2>1. \A b \in Bookings :
          /\ booking'[b].slot = booking[b].slot
          /\ Live(b)' => Live(b) /\ Deadline(b)' = Deadline(b)
          /\ Confirmed(b)' = Confirmed(b)
    BY <1>2, <1>3, <1>4 DEF Live, Confirmed, Deadline
  <2> QED BY <1>2, <2>1 DEF BookingInv, RowTellsHolder, HolderIsUnique, SameSlot
<1>11. OneWorkerPerEvent'
  BY <1>1, <1>2, OthersKeepOneWorker DEF BookingInv, Processing
<1> QED BY <1>6, <1>7, <1>8, <1>9, <1>10, <1>11 DEF BookingInv

LEMMA BookingNext ==
  ASSUME CarefulGateway, BookingInv, [Next]_vars
  PROVE  BookingInv'
<1>1. TypeInv /\ TypeOK /\ LockInv' /\ now \in Nat
  BY LockNext DEF BookingInv, LockInv, TypeInv, TypeOK
<1>2. "late" \notin Hazards /\ "retry" \notin Hazards /\ "overlap" \notin Hazards
      /\ "no_event_id" \notin Hazards /\ Hooks = {"payment"} /\ Kinds = {"normal"}
  BY DEF CarefulGateway
<1>3. \A e \in sent : e \in Result /\ e.b \in Bookings
  BY <1>1 DEF TypeOK, Result
<1> USE DEF BookingInv
<1>4. CASE Tick
  <2>1. UNCHANGED <<slot, booking, sent, acked, events, task, reminding>>
        /\ now' = now + 1
    BY <1>4 DEF Tick, rows, gateway
  <2>2. \A b \in Bookings : Deadline(b)' = Deadline(b) /\ Confirmed(b)' = Confirmed(b)
    BY <2>1 DEF Deadline, Confirmed
  <2>3. \A b \in Bookings : Live(b)' => Live(b)
    <3> SUFFICES ASSUME NEW b \in Bookings, Live(b)' PROVE Live(b)
      OBVIOUS
    <3>1. Deadline(b) \in Int
      BY <1>1, NormalDeadline, CheckoutAssumption DEF TypeOK, BookingRow
    <3> QED BY <1>1, <2>1, <2>2, <3>1 DEF Live
  <2>4. OnlyNormal' /\ TasksAreCurrent' /\ RemindersAreCurrent' /\ OneWorkerPerEvent'
    BY <2>1 DEF OnlyNormal, TasksAreCurrent, RemindersAreCurrent, OneWorkerPerEvent, Processing
  <2>5. ResultsAreUnique'
    <3>1. \A e \in sent \ acked : now + 1 < Deadline(e.b)
      BY <1>2, <1>4 DEF Tick, Timely
    <3> QED BY <1>3, <2>1, <2>2, <3>1 DEF ResultsAreUnique
  <2>6. RowTellsHolder' /\ HolderIsUnique'
    BY <2>1, <2>2, <2>3 DEF RowTellsHolder, HolderIsUnique, SameSlot
  <2> QED BY <1>1, <2>4, <2>5, <2>6
<1>5. ASSUME NEW w \in Workers, NEW b \in Bookings, NEW s \in Slots,
             NEW k \in Kinds, NEW F \in SUBSET Friends,
             CreateBookingLock(w, b, s, k, F)
      PROVE  BookingInv'
  <2>1. /\ task'[w].op = "create" /\ task'[w].kind = "normal"
        /\ \A v \in Workers \ {w} : task'[v] = task[v]
        /\ UNCHANGED <<now, slot, booking, sent, acked, events, reminding>>
    BY <1>1, <1>2, <1>5 DEF CreateBookingLock, TypeOK, rows, gateway
  <2>2. OnlyNormal' /\ ResultsAreUnique' /\ RemindersAreCurrent'
    BY <2>1 DEF OnlyNormal, ResultsAreUnique, RemindersAreCurrent, Deadline
  <2>3. TasksAreCurrent'
    BY <2>1 DEF TasksAreCurrent
  <2>4. OneWorkerPerEvent'
    BY <1>1, <2>1, OthersKeepOneWorker DEF Processing
  <2> QED BY <1>1, <2>1, <2>2, <2>3, <2>4, RowsUnchanged
<1>6. ASSUME NEW w \in Workers, CreateBookingCommit(w) PROVE BookingInv'
  BY <1>1, <1>6, CommitKeepsBookingInv
<1>7. ASSUME NEW w \in Workers,
             CreateBookingRollback(w) \/ PaymentWebhookAbort(w)
      PROVE  BookingInv'
  <2>1. /\ task'[w].op = "idle"
        /\ \A v \in Workers \ {w} : task'[v] = task[v]
        /\ UNCHANGED <<now, slot, booking, sent, acked, events, reminding>>
    BY <1>1, <1>7
    DEF CreateBookingRollback, PaymentWebhookAbort, Finish, Idle, TypeOK, rows, gateway
  <2>2. OnlyNormal' /\ ResultsAreUnique' /\ RemindersAreCurrent'
    BY <2>1 DEF OnlyNormal, ResultsAreUnique, RemindersAreCurrent, Deadline
  <2>3. TasksAreCurrent'
    BY <2>1 DEF TasksAreCurrent
  <2>4. OneWorkerPerEvent'
    BY <1>1, <2>1, OthersKeepOneWorker DEF Processing
  <2> QED BY <1>1, <2>1, <2>2, <2>3, <2>4, RowsUnchanged
<1>8. ASSUME NEW b \in Bookings, NEW o \in {"success", "failed"}, PayInFull(b, o)
      PROVE  BookingInv'
  <2> DEFINE e == [b |-> b, part |-> "full", outcome |-> o]
  <2>1. /\ sent' = sent \cup {e} /\ e \notin sent
        /\ now < Deadline(b) /\ booking[b].status # "absent"
        /\ UNCHANGED <<now, slot, booking, acked, events, task, reminding>>
    BY <1>2, <1>8 DEF PayInFull, Produce, rows
  <2>2. \A x \in sent : x.b # b
    BY <1>2, <1>8 DEF PayInFull, Produce, ResultsAreUnique
  <2>3. booking[b].status = "pending"
    BY <2>1, <2>2 DEF OnlyNormal, ResultsAreUnique
  <2>4. OnlyNormal' /\ RemindersAreCurrent' /\ OneWorkerPerEvent'
    BY <2>1 DEF OnlyNormal, RemindersAreCurrent, OneWorkerPerEvent, Processing
  <2>5. ResultsAreUnique'
    BY <2>1, <2>2 DEF ResultsAreUnique, Deadline
  <2>6. TasksAreCurrent'
    BY <2>1, <2>3 DEF TasksAreCurrent
  <2> QED BY <1>1, <2>1, <2>4, <2>5, <2>6, RowsUnchanged
<1>9. ASSUME NEW w \in Workers, NEW e \in sent, Deliver(w, e)
      PROVE  BookingInv'
  <2>1. OneWorkerPerEvent'
    BY <1>1, <1>2, <1>9, DeliverKeepsOneWorker
  <2>2. CASE PaymentWebhookSkip(w, e)
    <3>1. /\ acked' = acked \cup {e} /\ e \in events
          /\ UNCHANGED <<now, slot, booking, sent, events, task, reminding>>
      BY <2>2 DEF PaymentWebhookSkip, Recorded, rows
    <3>2. \A v \in Workers :
            task[v].op \in {"checked", "loaded", "ticketed"} => task[v].e # e
      BY <1>2, <2>2 DEF PaymentWebhookSkip, Deliverable, Processing
    <3>3. OnlyNormal' /\ RemindersAreCurrent' /\ ResultsAreUnique'
      BY <3>1 DEF OnlyNormal, RemindersAreCurrent, ResultsAreUnique, Deadline
    <3>4. TasksAreCurrent'
      BY <3>1, <3>2 DEF TasksAreCurrent
    <3> QED BY <1>1, <2>1, <3>1, <3>3, <3>4, RowsUnchanged
  <2>3. CASE PaymentWebhookCheck(w, e)
    <3>1. /\ task'[w] = [op |-> "checked", e |-> e] /\ e \notin events
          /\ \A v \in Workers \ {w} : task'[v] = task[v]
          /\ UNCHANGED <<now, slot, booking, sent, acked, events, reminding>>
      BY <1>1, <1>2, <2>3 DEF PaymentWebhookCheck, Recorded, rows, gateway, TypeOK
    <3>2. OnlyNormal' /\ RemindersAreCurrent' /\ ResultsAreUnique'
      BY <3>1 DEF OnlyNormal, RemindersAreCurrent, ResultsAreUnique, Deadline
    <3>3. TasksAreCurrent'
      BY <3>1 DEF TasksAreCurrent, ResultsAreUnique
    <3> QED BY <1>1, <2>1, <3>1, <3>2, <3>3, RowsUnchanged
  <2>4. ~StripeWebhookLoad(w, e)
    BY <1>2 DEF StripeWebhookLoad
  <2> QED BY <1>9, <2>2, <2>3, <2>4 DEF Deliver
<1>10. ASSUME NEW w \in Workers, PaymentWebhookLoad(w)
       PROVE  BookingInv'
  <2> DEFINE e == task[w].e
  <2>1. task[w].op = "checked" /\ e \in sent /\ e \notin acked /\ e \in Result
    BY <1>3, <1>10 DEF PaymentWebhookLoad, TasksAreCurrent
  <2>2. /\ task'[w] = [op |-> "loaded", e |-> e, bk |-> booking[e.b],
                       sl |-> slot[booking[e.b].slot]]
        /\ \A v \in Workers \ {w} : task'[v] = task[v]
        /\ events' = events \cup {e}
        /\ UNCHANGED <<now, slot, booking, sent, acked, reminding>>
    BY <1>1, <1>10 DEF PaymentWebhookLoad, rows, gateway, TypeOK
  <2>3. booking[e.b].status = "pending" /\ Live(e.b) /\ e.b \in Bookings
    BY <1>3, <2>1 DEF TasksAreCurrent, ResultsAreUnique, Live
  <2>4. ~slot[booking[e.b].slot].booked
    BY <2>3 DEF RowTellsHolder
  <2>5. \A v \in Workers \ {w} :
          task[v].op \in {"checked", "loaded", "ticketed"} => task[v].e # e
    BY <2>1 DEF OneWorkerPerEvent, Processing
  <2>6. OnlyNormal' /\ RemindersAreCurrent' /\ ResultsAreUnique'
    BY <2>2 DEF OnlyNormal, RemindersAreCurrent, ResultsAreUnique, Deadline
  <2>7. TasksAreCurrent'
    BY <2>1, <2>2, <2>3, <2>4, <2>5 DEF TasksAreCurrent
  <2>8. OneWorkerPerEvent'
    BY <1>1, <2>1, <2>2, OthersKeepOneWorker DEF Processing
  <2> QED BY <1>1, <2>2, <2>6, <2>7, <2>8, RowsUnchanged
<1>11. ASSUME NEW w \in Workers, PaymentWebhookCommit(w) PROVE BookingInv'
  BY <1>1, <1>11, PaymentKeepsBookingInv
<1>12. ASSUME NEW w \in Workers,
              StripeWebhookSaveSlot(w) \/ StripeWebhookSaveBooking(w)
              \/ StripeWebhookAbort(w)
       PROVE  FALSE
  BY <1>12 DEF OnlyNormal, StripeWebhookSaveSlot, StripeWebhookSaveBooking,
               StripeWebhookAbort
<1>13. CASE ReminderLoad
  <2>1. /\ UNCHANGED <<now, slot, booking, sent, acked, events, task>>
        /\ \A r \in reminding' : r.b \in Bookings /\ r.bk = booking[r.b]
                                 /\ booking[r.b].status = "confirmed"
    BY <1>13 DEF ReminderLoad, rows, gateway
  <2>2. /\ OnlyNormal' /\ ResultsAreUnique' /\ TasksAreCurrent'
        /\ RemindersAreCurrent' /\ OneWorkerPerEvent'
    BY <2>1 DEF OnlyNormal, ResultsAreUnique, TasksAreCurrent,
                RemindersAreCurrent, OneWorkerPerEvent, Processing, Deadline
  <2> QED BY <1>1, <2>1, <2>2, RowsUnchanged
<1>14. CASE ReminderSave
  BY <1>1, <1>14, ReminderKeepsBookingInv
<1>15. CASE UNCHANGED vars
  <2>1. UNCHANGED <<now, slot, booking, sent, acked, events, task, reminding>>
    BY <1>15 DEF vars, rows, gateway
  <2>2. /\ OnlyNormal' /\ ResultsAreUnique' /\ TasksAreCurrent'
        /\ RemindersAreCurrent' /\ OneWorkerPerEvent'
    BY <2>1 DEF OnlyNormal, ResultsAreUnique, TasksAreCurrent,
                RemindersAreCurrent, OneWorkerPerEvent, Processing, Deadline
  <2> QED BY <1>1, <2>1, <2>2, RowsUnchanged
<1>16. ASSUME NEW w \in Workers, PaymentWebhookTicket(w) PROVE BookingInv'
  <2>1. /\ task[w].op = "loaded" /\ task'[w].op = "ticketed"
        /\ task'[w].e = task[w].e /\ task'[w].bk = task[w].bk
        /\ task'[w].sl = task[w].sl
        /\ \A v \in Workers \ {w} : task'[v] = task[v]
        /\ UNCHANGED <<now, slot, booking, sent, acked, events, reminding>>
    BY <1>1, <1>16, TicketStep
  <2>2. OnlyNormal' /\ ResultsAreUnique' /\ RemindersAreCurrent'
    BY <2>1 DEF OnlyNormal, ResultsAreUnique, RemindersAreCurrent, Deadline
  <2>3. TasksAreCurrent'
    BY <2>1 DEF TasksAreCurrent
  <2>4. OneWorkerPerEvent'
    BY <1>1, <2>1, OthersKeepOneWorker DEF Processing
  <2> QED BY <1>1, <2>1, <2>2, <2>3, <2>4, RowsUnchanged
<1>17. ASSUME NEW b \in Bookings, GetDigitalTicket(b) PROVE BookingInv'
  <2>1. UNCHANGED <<now, slot, booking, sent, acked, events, task, reminding>>
    BY <1>17 DEF GetDigitalTicket, gateway
  <2>2. /\ OnlyNormal' /\ ResultsAreUnique' /\ TasksAreCurrent'
        /\ RemindersAreCurrent' /\ OneWorkerPerEvent'
    BY <2>1 DEF OnlyNormal, ResultsAreUnique, TasksAreCurrent,
                RemindersAreCurrent, OneWorkerPerEvent, Processing, Deadline
  <2> QED BY <1>1, <2>1, <2>2, RowsUnchanged
<1> QED BY <1>4, <1>5, <1>6, <1>7, <1>8, <1>9, <1>10, <1>11, <1>12, <1>13,
           <1>14, <1>15, <1>16, <1>17
        DEF Next, Environment, Start, Continue, Step, Failure

(* The rows, the results in flight and the copies the workers and the      *)
(* reminder hold agree: every live checkout is the one holder its slot row *)
(* names, every copy that will be saved is current where it matters.       *)
THEOREM BookingInvariant ==
  ASSUME CarefulGateway PROVE Spec => []BookingInv
<1>1. Init => BookingInv
  BY BookingInit
<1>2. BookingInv /\ [Next]_vars => BookingInv'
  BY BookingNext
<1> QED BY <1>1, <1>2, PTL DEF Spec

(* Zero double-booking, for any number of customers racing for a slot, of  *)
(* request goroutines, repeated deliveries and crashes, as long as every   *)
(* payment result is in time, the only one of its booking, and carries an  *)
(* event id.                                                               *)
THEOREM ZeroDoubleBooking ==
  ASSUME CarefulGateway PROVE Spec => []NoDoubleBooking
<1>1. BookingInv => NoDoubleBooking
  BY DEF BookingInv, HolderIsUnique, SameSlot, NoDoubleBooking
<1> QED BY <1>1, BookingInvariant, PTL

(* In the same environment the slot of a confirmed booking stays marked.   *)
THEOREM ConfirmedStaysBooked ==
  ASSUME CarefulGateway PROVE Spec => []ConfirmedIsBooked
<1>1. BookingInv => ConfirmedIsBooked
  BY DEF BookingInv, RowTellsHolder, ConfirmedIsBooked
<1> QED BY <1>1, BookingInvariant, PTL
-----------------------------------------------------------------------------
(* Checkout implements the abstract Reservation.                           *)

(* Steps that leave the rows and the clock alone are stutters.             *)
LEMMA StutterStep ==
  ASSUME UNCHANGED <<now, booking>>
  PROVE  UNCHANGED <<[s \in Slots |-> HoldersOf(s)], [s \in Slots |-> BuyersOf(s)]>>
BY DEF HoldersOf, BuyersOf, Confirmed, Deadline

(* The commit of CreateBooking is Hold.                                    *)
LEMMA CommitIsHold ==
  ASSUME CarefulGateway, BookingInv, NEW w \in Workers, CreateBookingCommit(w)
  PROVE  Reserve!Next
<1> DEFINE t == task[w]
<1>1. TypeInv /\ TypeOK /\ now \in Nat /\ HoldTime \in Nat \ {0}
  BY CheckoutAssumption DEF BookingInv, LockInv, TypeInv, TypeOK
<1>2. /\ t.op = "create" /\ t.b \in Bookings /\ t.s \in Slots
      /\ t.kind = "normal" /\ ~slot[t.s].booked
      /\ slot[t.s].hold <= now /\ slot[t.s].hold \in Nat
      /\ booking[t.b].status = "absent"
  BY <1>1, CreatingTask
  DEF CreateBookingCommit, BookingInv, LockInv, CopyIsCurrent, OnlyNormal, TypeOK, SlotRow
<1>3. /\ booking'[t.b].slot = t.s /\ booking'[t.b].kind = "normal"
      /\ booking'[t.b].status = "pending" /\ booking'[t.b].bookedAt = now
      /\ \A b \in Bookings \ {t.b} : booking'[b] = booking[b]
      /\ now' = now
  BY <1>1, <1>2, AbsentType DEF CreateBookingCommit, TypeOK, BookingRow
<1>4. HoldersOf(t.s) = {} /\ BuyersOf(t.s) = {}
  <2>1. ASSUME NEW b \in Bookings, booking[b].slot = t.s
        PROVE  ~Live(b) /\ ~Confirmed(b)
    <3>1. ~Confirmed(b)
      BY <1>2, <2>1 DEF BookingInv, RowTellsHolder
    <3>2. Live(b) => slot[t.s].hold = Deadline(b) /\ now < Deadline(b)
      BY <2>1 DEF BookingInv, RowTellsHolder, Live
    <3> QED BY <1>1, <1>2, <3>1, <3>2
  <2> QED BY <2>1 DEF HoldersOf, BuyersOf, Live
<1>5. \A b \in Bookings : b = t.b => Deadline(b)' = now + HoldTime
  BY <1>3 DEF Deadline, HoldFor
<1>6. \A b \in Bookings \ {t.b} : Deadline(b)' = Deadline(b)
  BY <1>3 DEF Deadline
<1>7. \A s \in Slots : BuyersOf(s)' = BuyersOf(s)
  BY <1>2, <1>3 DEF BuyersOf, Confirmed
<1>8. \A s \in Slots : HoldersOf(s)' = IF s = t.s THEN {t.b} ELSE HoldersOf(s)
  <2> SUFFICES ASSUME NEW s \in Slots
               PROVE  HoldersOf(s)' = IF s = t.s THEN {t.b} ELSE HoldersOf(s)
    OBVIOUS
  <2>1. HoldersOf(s)' = {b \in Bookings : booking'[b].slot = s
                          /\ booking'[b].status = "pending" /\ now' < Deadline(b)'}
    BY DEF HoldersOf
  <2>2. CASE s = t.s
    BY <1>1, <1>2, <1>3, <1>4, <1>5, <1>6, <2>1, <2>2 DEF HoldersOf
  <2>3. CASE s # t.s
    BY <1>2, <1>3, <1>6, <2>1, <2>3 DEF HoldersOf
  <2> QED BY <2>2, <2>3
<1>9. Reserve!Hold(t.s, t.b)
  BY <1>2, <1>4, <1>7, <1>8 DEF Reserve!Hold
<1> QED BY <1>2, <1>9 DEF Reserve!Next

(* The commit of a webhook is Sell or the Release of one slot.             *)
LEMMA PaymentIsSellOrRelease ==
  ASSUME CarefulGateway, BookingInv, NEW w \in Workers, PaymentWebhookCommit(w)
  PROVE  Reserve!Next
<1> DEFINE t == task[w]
           b == t.e.b
           r == t.bk.slot
<1>1. TypeInv /\ TypeOK
  BY DEF BookingInv, LockInv, TypeInv
<1>2. /\ t.op \in {"loaded", "ticketed"} /\ t.e \in Result /\ b \in Bookings
      /\ t.bk \in BookingRow /\ r \in Slots
  BY <1>1, LoadedTask DEF PaymentWebhookCommit
<1>3. t.e \in sent /\ t.e \notin acked /\ t.bk = booking[b]
      /\ booking[b].status = "pending"
  BY <1>2 DEF BookingInv, TasksAreCurrent
<1>4. /\ booking'[b].slot = r /\ booking'[b].kind = booking[b].kind
      /\ booking'[b].bookedAt = booking[b].bookedAt
      /\ booking'[b].status \in {"confirmed", "failed"}
      /\ \A x \in Bookings \ {b} : booking'[x] = booking[x]
      /\ now' = now
  BY <1>1, <1>2, <1>3 DEF PaymentWebhookCommit, NewBooking, TypeOK, BookingRow
<1>5. Live(b)
  BY <1>3 DEF BookingInv, ResultsAreUnique, Live
<1>6. HoldersOf(r) = {b} /\ BuyersOf(r) = {}
  BY <1>2, <1>3, <1>5
  DEF BookingInv, RowTellsHolder, HolderIsUnique, SameSlot, Live, HoldersOf, BuyersOf
<1>7. \A x \in Bookings : Deadline(x)' = Deadline(x)
  BY <1>4 DEF Deadline
<1>8. \A s \in Slots : HoldersOf(s)' = IF s = r THEN {} ELSE HoldersOf(s)
  <2> SUFFICES ASSUME NEW s \in Slots
               PROVE  HoldersOf(s)' = IF s = r THEN {} ELSE HoldersOf(s)
    OBVIOUS
  <2>1. HoldersOf(s)' = {x \in Bookings : booking'[x].slot = s
                          /\ booking'[x].status = "pending" /\ now' < Deadline(x)'}
    BY DEF HoldersOf
  <2>2. HoldersOf(s)' = HoldersOf(s) \ {b}
    BY <1>3, <1>4, <1>7, <2>1 DEF HoldersOf
  <2>3. s # r => b \notin HoldersOf(s)
    BY <1>3 DEF HoldersOf
  <2> QED BY <1>6, <2>2, <2>3
<1>9. CASE booking'[b].status = "confirmed"
  <2>1. \A s \in Slots : BuyersOf(s)' = IF s = r THEN {b} ELSE BuyersOf(s)
    <3> SUFFICES ASSUME NEW s \in Slots
                 PROVE  BuyersOf(s)' = IF s = r THEN {b} ELSE BuyersOf(s)
      OBVIOUS
    <3>1. BuyersOf(s)' = {x \in Bookings : booking'[x].slot = s
                                         /\ booking'[x].status = "confirmed"}
      BY DEF BuyersOf, Confirmed
    <3>2. CASE s = r
      BY <1>2, <1>4, <1>6, <1>9, <3>1, <3>2 DEF BuyersOf, Confirmed
    <3>3. CASE s # r
      BY <1>3, <1>4, <3>1, <3>3 DEF BuyersOf, Confirmed
    <3> QED BY <3>2, <3>3
  <2>2. Reserve!Sell(r, b)
    BY <1>2, <1>6, <1>8, <2>1 DEF Reserve!Sell
  <2> QED BY <1>2, <2>2 DEF Reserve!Next
<1>10. CASE booking'[b].status = "failed"
  <2>1. \A s \in Slots : BuyersOf(s)' = BuyersOf(s)
    BY <1>2, <1>3, <1>4, <1>10 DEF BuyersOf, Confirmed
  <2>2. Reserve!Release({r})
    BY <1>8, <2>1 DEF Reserve!Release
  <2> QED BY <1>2, <2>2 DEF Reserve!Next
<1> QED BY <1>4, <1>9, <1>10

(* The clock releases the slots whose hold has run out.                    *)
LEMMA TickIsRelease ==
  ASSUME CarefulGateway, BookingInv, Tick
  PROVE  Reserve!Next
<1> DEFINE S == {s \in Slots : HoldersOf(s)' = {}}
<1>1. TypeOK /\ now \in Nat /\ now' = now + 1 /\ booking' = booking
  BY DEF BookingInv, LockInv, TypeInv, TypeOK, Tick, rows
<1>2. \A b \in Bookings : Deadline(b)' = Deadline(b) /\ Deadline(b) \in Int
  BY <1>1, NormalDeadline, CheckoutAssumption
  DEF BookingInv, TypeOK, BookingRow, Deadline
<1>3. ASSUME NEW s \in Slots
      PROVE  HoldersOf(s)' = {} \/ HoldersOf(s)' = HoldersOf(s)
  <2>1. HoldersOf(s)' \subseteq HoldersOf(s)
    BY <1>1, <1>2 DEF HoldersOf
  <2>2. \A a, b \in HoldersOf(s) : a = b
    BY DEF BookingInv, HolderIsUnique, SameSlot, Live, HoldersOf
  <2> QED BY <2>1, <2>2
<1>4. \A s \in Slots : BuyersOf(s)' = BuyersOf(s)
  BY <1>1 DEF BuyersOf, Confirmed
<1>5. Reserve!Release(S)
  BY <1>3, <1>4 DEF Reserve!Release
<1> QED BY <1>5 DEF Reserve!Next

(* Every behaviour of Checkout, for a careful gateway, is one of the       *)
(* abstract reservation: holds are exclusive, only the holder buys, and a  *)
(* sale is final.                                                          *)
THEOREM CheckoutImplementsReservation ==
  ASSUME CarefulGateway PROVE Spec => ImplementsReservation
<1>1. Init => Reserve!Init
  BY DEF Init, Reserve!Init, HoldersOf, BuyersOf, Confirmed, Absent
<1>2. ASSUME BookingInv, [Next]_vars PROVE [Reserve!Next]_(Reserve!vars)
  <2>1. ASSUME NEW w \in Workers, CreateBookingCommit(w) PROVE Reserve!Next
    BY <1>2, <2>1, CommitIsHold
  <2>2. ASSUME NEW w \in Workers, PaymentWebhookCommit(w) PROVE Reserve!Next
    BY <1>2, <2>2, PaymentIsSellOrRelease
  <2>3. CASE Tick
    BY <1>2, <2>3, TickIsRelease
  <2>4. CASE ReminderSave
    <3>1. PICK r \in reminding :
            /\ booking' = [booking EXCEPT ![r.b] = [r.bk EXCEPT !.reminded = TRUE]]
            /\ now' = now
      BY <2>4 DEF ReminderSave
    <3>2. /\ r.b \in Bookings /\ r.bk \in BookingRow
          /\ r.bk.status = "confirmed" /\ booking[r.b].status = "confirmed"
          /\ r.bk.slot = booking[r.b].slot
      BY <1>2 DEF BookingInv, LockInv, TypeInv, TypeOK, RemindersAreCurrent
    <3>3. /\ booking'[r.b].status = "confirmed"
          /\ booking'[r.b].slot = booking[r.b].slot
          /\ \A b \in Bookings \ {r.b} : booking'[b] = booking[b]
      BY <1>2, <3>1, <3>2 DEF BookingInv, LockInv, TypeInv, TypeOK, BookingRow
    <3>4. ASSUME NEW s \in Slots
          PROVE  HoldersOf(s)' = HoldersOf(s) /\ BuyersOf(s)' = BuyersOf(s)
      BY <3>1, <3>2, <3>3 DEF HoldersOf, BuyersOf, Confirmed, Deadline
    <3> QED BY <3>4 DEF Reserve!vars
  <2>5. ASSUME NEW w \in Workers,
               StripeWebhookSaveBooking(w)
        PROVE  FALSE
    BY <1>2, <2>5 DEF StripeWebhookSaveBooking, BookingInv, OnlyNormal
  <2>6. CASE UNCHANGED <<now, booking>>
    BY <2>6, StutterStep DEF Reserve!vars
  <2> QED
    BY <1>2, <2>1, <2>2, <2>3, <2>4, <2>5, <2>6
    DEF Next, Environment, Start, Continue, CreateBookingLock, PayInFull, Produce,
        GetDigitalTicket, Deliver, PaymentWebhookSkip, PaymentWebhookCheck,
        StripeWebhookLoad, Step, PaymentWebhookLoad, PaymentWebhookTicket,
        StripeWebhookSaveSlot, Failure, CreateBookingRollback, PaymentWebhookAbort,
        StripeWebhookAbort, ReminderLoad, vars, rows
<1> QED BY <1>1, <1>2, BookingInvariant, PTL DEF Spec, ImplementsReservation, Reserve!Spec
=============================================================================
